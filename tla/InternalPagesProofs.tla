------------------------- MODULE InternalPagesProofs -------------------------
(***************************************************************************)
(* The extensions page, for any number of changes, operations and          *)
(* failures: it comes to rest with what is installed.  The page of the     *)
(* content blocking settings, for any number of calls, of hosts and of     *)
(* changes elsewhere: it comes to rest with what is saved, and every call  *)
(* has one answer.                                                         *)
(***************************************************************************)
EXTENDS ExtensionsPage, SettingsPage, FiniteSetTheorems, SequenceTheorems, TLAPS

-----------------------------------------------------------------------------
(* The extensions page *)

\* An event about it is on its way.
NoticeOf(of) == \E i \in 1..Len(notices) : notices[i].of = of

\* An answer that the page would take for the present, and what it shows once
\* it waits for nothing, is what is there: if not, an event or the end of an
\* operation makes the page read again.
Follows(of) ==
  /\ /\ extensions.task /\ ~extensions.dirty
     /\ extensions.answer[of] # NotYet
     => \/ extensions.answer[of] = managed[of]
        \/ extensions.busy = "acting" \/ NoticeOf(of)
  /\ /\ ~extensions.task /\ ~extensions.timer /\ extensions.busy = "free"
     /\ ~extensions.loadFailed
     => extensions[of] = managed[of] \/ NoticeOf(of)

\* What the last operation did is in every answer the page would take.
Remembers ==
  /\ operated <= managed.items
  /\ /\ extensions.task /\ ~extensions.dirty
     /\ extensions.answer.items # NotYet
     => extensions.answer.items >= operated
  /\ extensions.busy = "free" /\ ~extensions.loadFailed
     => extensions.items >= operated

ExtensionsInv ==
  /\ ExtensionsTypeOK
  /\ ~extensions.disposed =>
       /\ extensions.busy = "refreshing" => extensions.task
       /\ Follows("items") /\ Follows("profile")
       /\ Remembers

-----------------------------------------------------------------------------
(* The functions of the page *)

\* A page that reads, and takes no answer composed before.
Rereads(p) == p.task /\ ~p.timer /\ (p.dirty \/ p.answer = Unread)

\* Nothing but reading differs.
Alike(p, q) ==
  /\ q.items = p.items /\ q.profile = p.profile
  /\ q.loadFailed = p.loadFailed /\ q.busy = p.busy
  /\ q.disposed = p.disposed

LEMMA ReadAgainReads ==
  ASSUME NEW p \in PageState
  PROVE  /\ ReadAgain(p) \in PageState /\ Rereads(ReadAgain(p))
         /\ Alike(p, ReadAgain(p))
BY DEF PageState, Snapshot, ReadAgain, Unread, Rereads, Alike

LEMMA RefreshReads ==
  ASSUME NEW p \in PageState
  PROVE  Refresh(p) \in PageState /\ Rereads(Refresh(p)) /\ Alike(p, Refresh(p))
BY ReadAgainReads DEF PageState, Refresh, Rereads, Alike

LEMMA Occupied ==
  ASSUME NEW p \in PageState, NEW busy \in {"acting", "refreshing"},
         NEW calls \in 0..2
  PROVE  [p EXCEPT !.busy = busy, !.calls = calls] \in PageState
BY DEF PageState

\* A page that reads again keeps the invariant, whatever has changed.
LEMMA RereadingKeeps ==
  ASSUME extensions' \in PageState, Rereads(extensions'),
         managed' \in [items : Nat, profile : Nat],
         notices' \in Seq(Notice),
         operated' \in Nat, operated' <= managed'.items,
         turns' \in 0..MaxExtensionTurns,
         extensions'.busy = "free" /\ ~extensions'.loadFailed
           => extensions'.items >= operated'
  PROVE  ExtensionsInv'
<1>1. ExtensionsTypeOK'
  BY DEF ExtensionsTypeOK, Rereads, PageState, Snapshot, Notice
<1>2. /\ extensions'.task /\ ~extensions'.timer
      /\ \/ extensions'.dirty
         \/ /\ extensions'.answer.items = NotYet
            /\ extensions'.answer.profile = NotYet
  BY DEF Rereads, Unread, PageState, Snapshot
<1>3. Follows("items")' /\ Follows("profile")'
  BY <1>2 DEF Follows
<1>4. Remembers'
  BY <1>2 DEF Remembers
<1> QED  BY <1>1, <1>2, <1>3, <1>4 DEF ExtensionsInv

LEMMA Starts == ExtensionsInit => ExtensionsInv
<1> SUFFICES ASSUME ExtensionsInit PROVE ExtensionsInv
  OBVIOUS
<1>1. extensions \in PageState
  <2>1. Unread \in Snapshot
    BY DEF Unread, Snapshot
  <2> QED  BY <2>1 DEF ExtensionsInit, PageState
<1>2. ExtensionsTypeOK
  <2>1. notices \in Seq(Notice)
    BY DEF ExtensionsInit
  <2> QED
    BY <1>1, <2>1, ExtensionsAssumption
       DEF ExtensionsInit, ExtensionsTypeOK, PageState, Snapshot
<1>3. Follows("items") /\ Follows("profile")
  BY DEF ExtensionsInit, Follows, Unread
<1>4. Remembers
  BY ExtensionsAssumption DEF ExtensionsInit, Remembers, Unread
<1> QED  BY <1>2, <1>3, <1>4 DEF ExtensionsInit, ExtensionsInv

\* An event that is sent is on its way, and those before it still are.
LEMMA Sending ==
  ASSUME notices \in Seq(Notice), NEW notice \in Notice,
         notices' = Append(notices, notice)
  PROVE  /\ notices' \in Seq(Notice)
         /\ NoticeOf(notice.of)'
         /\ \A of : NoticeOf(of) => NoticeOf(of)'
<1>1. /\ notices' \in Seq(Notice) /\ Len(notices') = Len(notices) + 1
      /\ \A i \in 1..Len(notices) : notices'[i] = notices[i]
      /\ notices'[Len(notices) + 1] = notice
  BY AppendProperties
<1>2. Len(notices) \in Nat
  BY LenProperties
<1> QED  BY <1>1, <1>2 DEF NoticeOf

LEMMA TurnCounts ==
  ASSUME turns \in 0..MaxExtensionTurns, Turn
  PROVE  turns' \in 0..MaxExtensionTurns
BY ExtensionsAssumption DEF Turn

-----------------------------------------------------------------------------
(* The steps *)

LEMMA RefreshTimerKeeps ==
  ASSUME ExtensionsInv, ~extensions.disposed, RefreshTimer
  PROVE  ExtensionsInv'
BY RefreshReads, RereadingKeeps
   DEF ExtensionsInv, ExtensionsTypeOK, RefreshTimer, Alike, Remembers

LEMMA AnswerKeeps ==
  ASSUME ExtensionsInv, ~extensions.disposed,
         NEW of \in {"items", "profile"}, AnswerIsComposed(of)
  PROVE  ExtensionsInv'
<1>1. CASE of = "items"
  BY <1>1, SMTT(30) DEF ExtensionsInv, ExtensionsTypeOK, AnswerIsComposed, PageState,
              Snapshot, Follows, NoticeOf, Remembers
<1>2. CASE of = "profile"
  BY <1>2, SMTT(30) DEF ExtensionsInv, ExtensionsTypeOK, AnswerIsComposed, PageState,
              Snapshot, Follows, NoticeOf, Remembers
<1> QED  BY <1>1, <1>2

LEMMA ReadEndsKeeps ==
  ASSUME ExtensionsInv, ~extensions.disposed, ReadEnds
  PROVE  ExtensionsInv'
<1>1. CASE extensions.dirty
  BY <1>1, ReadAgainReads, RereadingKeeps
     DEF ExtensionsInv, ExtensionsTypeOK, ReadEnds, Alike, Remembers
<1>2. CASE ~extensions.dirty
  BY <1>2 DEF ExtensionsInv, ExtensionsTypeOK, ReadEnds, TaskEnds, Unread,
              PageState, Snapshot, Follows, NoticeOf, Remembers
<1> QED  BY <1>1, <1>2

LEMMA ReadFailsKeeps ==
  ASSUME ExtensionsInv, ~extensions.disposed, ReadFails
  PROVE  ExtensionsInv'
<1>0. turns' \in 0..MaxExtensionTurns
  BY TurnCounts DEF ReadFails, ExtensionsInv, ExtensionsTypeOK
<1>1. CASE extensions.dirty
  BY <1>0, <1>1, ReadAgainReads, RereadingKeeps
     DEF ExtensionsInv, ExtensionsTypeOK, ReadFails, Alike, Remembers
<1>2. CASE ~extensions.dirty
  BY <1>0, <1>2
     DEF ExtensionsInv, ExtensionsTypeOK, ReadFails, TaskEnds, FailLoading,
         Unread, PageState, Snapshot, Follows, NoticeOf, Remembers
<1> QED  BY <1>1, <1>2

LEMMA ConnectKeeps ==
  ASSUME ExtensionsInv, ~extensions.disposed, Connect
  PROVE  ExtensionsInv'
<1>1. turns' \in 0..MaxExtensionTurns
  BY TurnCounts DEF Connect, ExtensionsInv, ExtensionsTypeOK
<1> QED
  BY <1>1, RefreshReads, RereadingKeeps
     DEF ExtensionsInv, ExtensionsTypeOK, Connect, Alike, Remembers

LEMMA NoticeKeeps ==
  ASSUME ExtensionsInv, ~extensions.disposed, NoticeArrives
  PROVE  ExtensionsInv'
<1> DEFINE notice == Head(notices)
<1>1. notice \in Notice /\ notices' \in Seq(Notice)
  BY DEF NoticeArrives, ExtensionsInv, ExtensionsTypeOK
<1>2. notice.of # "items" => notice.now \in Nat
  BY <1>1 DEF Notice
<1>3. PICK now \in Nat :
        extensions' = ScheduleRefresh([extensions EXCEPT !.profile = now])
  BY <1>2 DEF NoticeArrives, ExtensionsInv, ExtensionsTypeOK, PageState
<1> QED
  BY <1>1, <1>3
     DEF NoticeArrives, ScheduleRefresh, ExtensionsInv, ExtensionsTypeOK,
         PageState, Follows, Remembers

LEMMA PerformKeeps ==
  ASSUME ExtensionsInv, ~extensions.disposed, Perform
  PROVE  ExtensionsInv'
<1>0. turns' \in 0..MaxExtensionTurns
  BY TurnCounts DEF Perform, ExtensionsInv, ExtensionsTypeOK
<1>1. CASE extensions' = Refresh([extensions EXCEPT !.busy = "refreshing"])
  <2>1. [extensions EXCEPT !.busy = "refreshing"] \in PageState
    BY DEF ExtensionsInv, ExtensionsTypeOK, PageState
  <2>2. extensions'.busy = "refreshing"
    BY <1>1, <2>1, RefreshReads DEF Alike, PageState
  <2> QED
    BY <1>0, <1>1, <2>1, <2>2, RefreshReads, RereadingKeeps
       DEF ExtensionsInv, ExtensionsTypeOK, Perform, Remembers
<1>2. CASE \E calls \in 1..2 : extensions' =
             [extensions EXCEPT !.busy = "acting", !.calls = calls]
  <2>1. PICK calls \in 1..2 : extensions' =
          [extensions EXCEPT !.busy = "acting", !.calls = calls]
    BY <1>2
  <2>2. extensions' \in PageState
    <3>1. extensions \in PageState /\ calls \in 0..2
      BY DEF ExtensionsInv, ExtensionsTypeOK
    <3> QED  BY <2>1, <3>1, Occupied
  <2>3. UNCHANGED <<managed, notices, operated>>
    BY DEF Perform
  <2> QED
    BY <1>0, <2>1, <2>2, <2>3
       DEF ExtensionsInv, ExtensionsTypeOK, PageState, Follows, Remembers
<1> QED  BY <1>1, <1>2 DEF Perform

\* What a call changes keeps the kinds, and what was reached.
LEMMA CallKeeps ==
  ASSUME ExtensionsInv, ~extensions.disposed, CallChanges
  PROVE  /\ managed' \in [items : Nat, profile : Nat]
         /\ notices' \in Seq(Notice)
         /\ managed'.items >= managed.items
         /\ managed'.profile = managed.profile
         /\ NoticeOf("profile") => NoticeOf("profile")'
<1>1. CASE UNCHANGED <<managed, notices>>
  BY <1>1 DEF ExtensionsInv, ExtensionsTypeOK, NoticeOf
<1>2. CASE /\ managed' = [managed EXCEPT !.items = @ + 1]
           /\ notices' \in {notices, Append(notices, [of |-> "items"])}
  <2> DEFINE notice == [of |-> "items"]
  <2>1. notice \in Notice
    BY DEF Notice
  <2>2. managed \in [items : Nat, profile : Nat] /\ notices \in Seq(Notice)
    BY DEF ExtensionsInv, ExtensionsTypeOK
  <2>3. /\ managed' \in [items : Nat, profile : Nat]
        /\ managed'.items >= managed.items /\ managed'.profile = managed.profile
    BY <1>2, <2>2
  <2>4. notices' = notices \/ notices' = Append(notices, notice)
    BY <1>2
  <2> HIDE DEF notice
  <2>5. notices' \in Seq(Notice) /\ (NoticeOf("profile") => NoticeOf("profile")')
    <3>1. CASE notices' = notices
      BY <2>2, <3>1 DEF NoticeOf
    <3>2. CASE notices' = Append(notices, notice)
      BY <2>1, <2>2, <3>2, Sending
    <3> QED
      BY <2>4, <3>1, <3>2
  <2> QED
    BY <2>3, <2>5
<1> QED  BY <1>1, <1>2 DEF CallChanges

LEMMA NextCallKeeps ==
  ASSUME ExtensionsInv, ~extensions.disposed, NextCallBegins
  PROVE  ExtensionsInv'
<1>1. extensions' \in PageState /\ ~(extensions'.timer /\ extensions'.task)
  BY DEF ExtensionsInv, ExtensionsTypeOK, NextCallBegins, PageState
<1>2. ExtensionsTypeOK'
  BY <1>1, CallKeeps
     DEF ExtensionsInv, ExtensionsTypeOK, NextCallBegins, PageState, Snapshot,
         Notice
<1>3. Follows("items")' /\ Follows("profile")'
  BY DEF ExtensionsInv, ExtensionsTypeOK, NextCallBegins, PageState, Snapshot,
         Follows
<1>4. Remembers'
  BY CallKeeps
     DEF ExtensionsInv, ExtensionsTypeOK, NextCallBegins, PageState, Snapshot,
         Remembers
<1> QED
  BY <1>2, <1>3, <1>4
     DEF ExtensionsInv, ExtensionsTypeOK, NextCallBegins, PageState

LEMMA OperationEndsKeeps ==
  ASSUME ExtensionsInv, ~extensions.disposed, OperationEnds
  PROVE  ExtensionsInv'
<1> DEFINE p == [extensions EXCEPT !.busy = "refreshing", !.calls = 0]
<1>0. extensions \in PageState
  BY DEF ExtensionsInv, ExtensionsTypeOK
<1>1. p \in PageState /\ p.busy = "refreshing"
  <2>0. 0 \in 0..2
    OBVIOUS
  <2>1. p \in PageState
    BY <1>0, <2>0, Occupied, Zenon
  <2>2. p.busy = "refreshing"
    BY <1>0 DEF PageState
  <2> QED  BY <2>1, <2>2
<1>2. extensions' \in PageState /\ Rereads(extensions')
        /\ extensions'.busy = "refreshing"
  BY <1>1, RefreshReads DEF OperationEnds, Alike
<1> QED
  BY <1>2, CallKeeps, RereadingKeeps
     DEF OperationEnds, ExtensionsInv, ExtensionsTypeOK, PageState

LEMMA ChangedElsewhereKeeps ==
  ASSUME ExtensionsInv, ~extensions.disposed, ChangedElsewhere
  PROVE  ExtensionsInv'
<1>0. turns' \in 0..MaxExtensionTurns
  BY TurnCounts DEF ChangedElsewhere, ExtensionsInv, ExtensionsTypeOK
<1>1. CASE /\ managed' = [managed EXCEPT !.items = @ + 1]
           /\ notices' = Append(notices, [of |-> "items"])
  <2>1. [of |-> "items"] \in Notice
    BY DEF Notice
  <2>2. NoticeOf("items")' /\ (NoticeOf("profile") => NoticeOf("profile")')
    BY <1>1, <2>1, Sending DEF ExtensionsInv, ExtensionsTypeOK
  <2> QED
    BY <1>0, <1>1, <2>1, <2>2, Sending
       DEF ExtensionsInv, ExtensionsTypeOK, ChangedElsewhere, PageState,
           Snapshot, Notice, Follows, Remembers
<1>2. CASE /\ managed' = [managed EXCEPT !.profile = @ + 1]
           /\ notices' = Append(notices,
                [of |-> "profile", now |-> managed'.profile])
  <2>1. [of |-> "profile", now |-> managed'.profile] \in Notice
    BY <1>2 DEF Notice, ExtensionsInv, ExtensionsTypeOK
  <2>2. NoticeOf("profile")' /\ (NoticeOf("items") => NoticeOf("items")')
    BY <1>2, <2>1, Sending DEF ExtensionsInv, ExtensionsTypeOK, NoticeOf
  <2> QED
    BY <1>0, <1>2, <2>1, <2>2, Sending
       DEF ExtensionsInv, ExtensionsTypeOK, ChangedElsewhere, PageState,
           Snapshot, Notice, Follows, Remembers
<1> QED  BY <1>1, <1>2 DEF ChangedElsewhere

LEMMA DisposeKeeps ==
  ASSUME ExtensionsInv, ~extensions.disposed, Dispose
  PROVE  ExtensionsInv'
BY DEF ExtensionsInv, ExtensionsTypeOK, Dispose, PageState

LEMMA Steps ==
  ASSUME ExtensionsInv, [ExtensionsNext]_extensionVars
  PROVE  ExtensionsInv'
<1>1. CASE UNCHANGED extensionVars
  BY <1>1
     DEF extensionVars, ExtensionsInv, ExtensionsTypeOK, Follows, NoticeOf,
         Remembers
<1>2. CASE ExtensionsNext
  BY <1>2, RefreshTimerKeeps, AnswerKeeps, ReadEndsKeeps, ReadFailsKeeps,
     ConnectKeeps, NoticeKeeps, PerformKeeps, NextCallKeeps,
     OperationEndsKeeps, ChangedElsewhereKeeps, DisposeKeeps
     DEF ExtensionsNext
<1> QED  BY <1>1, <1>2

-----------------------------------------------------------------------------
\* The invariant: an answer that the page would take, and what it shows at
\* rest, is what is there, or something makes the page read again.
THEOREM ExtensionsInductive == ExtensionsSpec => []ExtensionsInv
BY Starts, Steps, PTL DEF ExtensionsSpec

\* Whatever changes, fails or is done while the page reads (drainRefresh, and
\* the refresh at the end of perform): no change is lost, and a page at rest
\* shows what is installed.
THEOREM ShownHolds == ExtensionsSpec => []ExtensionsAreShown
<1>1. ASSUME ExtensionsInv PROVE ExtensionsAreShown
  <2>1. CASE ExtensionsAtRest /\ ~extensions.disposed /\ ~extensions.loadFailed
    <3>1. ~NoticeOf("items") /\ ~NoticeOf("profile")
      BY <2>1 DEF ExtensionsAtRest, NoticeOf
    <3>2. /\ extensions.items = managed.items
          /\ extensions.profile = managed.profile
      BY <1>1, <2>1, <3>1
         DEF ExtensionsInv, ExtensionsTypeOK, PageState, Follows,
             ExtensionsAtRest
    <3> QED
      BY <1>1, <2>1, <3>2
         DEF ExtensionsInv, ExtensionsTypeOK, PageState, Remembers,
             ExtensionsAreShown, ExtensionsAtRest
  <2>2. CASE ~ExtensionsAtRest \/ extensions.disposed \/ extensions.loadFailed
    BY <1>1, <2>2
       DEF ExtensionsInv, ExtensionsTypeOK, PageState, Remembers,
           ExtensionsAreShown
  <2> QED  BY <2>1, <2>2
<1> QED  BY ExtensionsInductive, <1>1, PTL

\* Whatever happens to the page and the extensions, no refresh is scheduled
\* while one is running, and page and notices keep their kinds (scheduleRefresh,
\* drainRefresh).
THEOREM ExtensionsTyped == ExtensionsSpec => []ExtensionsTypeOK
<1>1. ExtensionsInv => ExtensionsTypeOK
  BY DEF ExtensionsInv
<1> QED  BY ExtensionsInductive, <1>1, PTL

-----------------------------------------------------------------------------
(* The settings page: where each call is *)

HasId(m) == "id" \in DOMAIN m
Ids(s) == {m.id : m \in {n \in ToSet(s) : HasId(n)}}

\* A sequence that has no call twice.
Once(s) ==
  /\ \E S : s \in Seq(S)
  /\ \A i, j \in DOMAIN s :
        HasId(s[i]) /\ HasId(s[j]) /\ s[i].id = s[j].id => i = j

Asking == {c \in Calls : purpose[c] # Nothing}
Parsed == {m.id : m \in parsing}
Awaited == {waiting} \ {Nothing}

\* Each of the calls is in exactly one place.
Placed(A, B, P, W, F, T, Q) ==
  /\ A = B \cup P \cup W \cup F \cup T \cup Q
  /\ B \cap (P \cup W \cup F \cup T \cup Q) = {}
  /\ P \cap (W \cup F \cup T \cup Q) = {}
  /\ W \cap (F \cup T \cup Q) = {}
  /\ F \cap (T \cup Q) = {}
  /\ T \cap Q = {}

\* What the message of a call asks for.
Wants == [get |-> {"refresh", "imported"}, exception |-> {"exception"},
          domain |-> {"domains"}, remove |-> {"domains"}, check |-> {"lists"},
          subscription |-> {"subscription"}, preview |-> {"preview"},
          import |-> {"import"}]
Asked(S, p) ==
  \A m \in S : /\ HasId(m) /\ m.what.do \in DOMAIN Wants
               /\ p[m.id] \in Wants[m.what.do]

\* The calls that are answered with the state.
StateCalls == {"refresh", "imported", "exception", "domains", "lists",
               "subscription"}
Composed(S, p) ==
  \A t \in S : /\ t.do \in {"read", "write"} /\ (HasId(t) <=> t.do = "read")
               /\ HasId(t) => p[t.id] \in StateCalls

Answered(S, p) ==
  \A m \in S : /\ m.event \in BOOLEAN /\ (HasId(m) <=> ~m.event)
               /\ HasId(m) /\ p[m.id] \in {"refresh", "imported"} => m.ok

FlightOK ==
  /\ flight \in {"idle", "update", "change"}
  /\ flight = "idle" => waiting = Nothing
  /\ waiting # Nothing =>
       purpose[waiting] = IF flight = "update" THEN "lists" ELSE "subscription"

\* Two calls never clear the same flag, and each clears flags that are set.
FlagsOK(p, f) ==
  /\ \A c \in Calls : p[c] # Nothing => Flags[p[c]] \subseteq f
  /\ \A c, d \in Calls :
        p[c] # Nothing /\ p[d] # Nothing /\ c # d => Flags[p[c]] \cap Flags[p[d]] = {}
  /\ \A g \in f : \E c \in Calls : p[c] # Nothing /\ g \in Flags[p[c]]

CallsInv ==
  /\ purpose \in [Calls -> DOMAIN Flags \cup {Nothing}]
  /\ Once(toBrowser) /\ Once(worker) /\ Once(fromWorker) /\ Once(toPage)
  /\ \A m, n \in parsing : m.id = n.id => m = n
  /\ Placed(Asking, Ids(toBrowser), Parsed, Ids(worker), Ids(fromWorker), Ids(toPage), Awaited)
  /\ Asked(ToSet(toBrowser), purpose)
  /\ Asked(parsing, purpose) /\ \A m \in parsing : m.what.do \in {"preview", "import"}
  /\ Composed(ToSet(worker), purpose) /\ Composed(ToSet(fromWorker), purpose)
  /\ Answered(ToSet(toPage), purpose)
  /\ FlightOK /\ FlagsOK(purpose, flags)

\* What is saved, and whether the lists that are read next may be others: a
\* write that the coordinator has not heard of.
ListsChanged(s) == \E i \in DOMAIN s : s[i].do = "write" /\ s[i].ok
Known == [sites |-> disabled, blocked |-> blocked, lists |-> lists,
          changed |-> ListsChanged(fromWorker)]
Saved(v, k) ==
  v.sites = k.sites /\ v.blocked = k.blocked /\ (v.lists = k.lists \/ k.changed)

\* Lists that were read before the last write are followed by its reply.
ReadsKnown(s, now) ==
  \A i \in DOMAIN s : s[i].do = "read" =>
    s[i].lists = now \/ \E j \in DOMAIN s : j > i /\ s[j].do = "write" /\ s[j].ok

\* An answer that is not what is saved is followed by an event.
EventAfter(s, i) == \E j \in DOMAIN s : j > i /\ s[j].event
AnswersKnown(s, p, k) ==
  \A i \in DOMAIN s :
    ~s[i].event /\ s[i].ok /\ p[s[i].id] \in StateCalls =>
      Saved(s[i].value, k) \/ EventAfter(s, i)

\* What the page shows is not saved only if it is going to ask, or has asked.
ShownKnown ==
  \/ latest \in Calls /\ purpose[latest] \in {"refresh", "imported"}
  \/ EventAfter(toPage, 0)
  \/ Saved(shown, Known)

SavedInv ==
  /\ ReadsKnown(fromWorker, lists)
  /\ AnswersKnown(toPage, purpose, Known)
  /\ ShownKnown

PageInv == CallsInv /\ SavedInv /\ ImportIsShown

-----------------------------------------------------------------------------
(* Queues of calls *)

LEMMA Appends ==
  ASSUME NEW s, Once(s), NEW m, HasId(m) => m.id \notin Ids(s)
  PROVE  /\ Once(Append(s, m)) /\ ToSet(Append(s, m)) = ToSet(s) \cup {m}
         /\ Ids(Append(s, m)) = IF HasId(m) THEN Ids(s) \cup {m.id} ELSE Ids(s)
         /\ \A i \in DOMAIN s : /\ i \in DOMAIN Append(s, m) /\ Append(s, m)[i] = s[i]
                                /\ i \in Nat /\ i > 0 /\ i < Len(s) + 1
         /\ \A i \in DOMAIN Append(s, m) : i \in DOMAIN s \/ i = Len(s) + 1
         /\ Len(s) + 1 \in DOMAIN Append(s, m) /\ Append(s, m)[Len(s) + 1] = m
<1>1. PICK R : s \in Seq(R)
  BY DEF Once
<1> DEFINE S == R \cup {m}
           more == Append(s, m)
           n == Len(s) + 1
<1>2. s \in Seq(S) /\ m \in S
  BY <1>1
<1>3. Len(s) \in Nat /\ DOMAIN s = 1..Len(s)
  BY <1>1
<1> HIDE DEF S
<1>4. /\ more \in Seq(S) /\ Len(more) = n
      /\ (\A i \in 1..Len(s) : more[i] = s[i]) /\ more[n] = m
  BY <1>2, AppendProperties
<1> HIDE DEF more
<1>5. DOMAIN more = 1..n
  BY <1>4
<1>6. /\ \A i \in DOMAIN s : i \in DOMAIN more /\ more[i] = s[i] /\ i \in Nat /\ i > 0 /\ i < n
      /\ \A i \in DOMAIN more : i \in DOMAIN s \/ i = n
      /\ n \in DOMAIN more /\ more[n] = m
  BY <1>3, <1>4, <1>5
<1> HIDE DEF n
<1>7. ToSet(more) = ToSet(s) \cup {m}
  BY <1>6 DEF ToSet
<1>8. Ids(more) = IF HasId(m) THEN Ids(s) \cup {m.id} ELSE Ids(s)
  BY <1>7 DEF Ids
<1>9. \A i \in DOMAIN s : HasId(s[i]) => s[i].id \in Ids(s)
  BY DEF Ids, ToSet
<1>10. Once(more)
  <2>1. SUFFICES ASSUME NEW i \in DOMAIN more, NEW j \in DOMAIN more,
                        HasId(more[i]), HasId(more[j]), more[i].id = more[j].id
                 PROVE  i = j
    BY <1>4 DEF Once
  <2>2. \A k \in DOMAIN s : HasId(s[k]) /\ HasId(m) => s[k].id # m.id
    BY <1>9
  <2> QED
    BY <1>6, <2>1, <2>2 DEF Once
<1> QED
  BY <1>6, <1>7, <1>8, <1>10 DEF more, n

LEMMA Tails ==
  ASSUME NEW s, Once(s), s # <<>>
  PROVE  /\ Head(s) \in ToSet(s) /\ Once(Tail(s)) /\ ToSet(Tail(s)) \subseteq ToSet(s)
         /\ Ids(Tail(s)) = IF HasId(Head(s)) THEN Ids(s) \ {Head(s).id} ELSE Ids(s)
         /\ HasId(Head(s)) => Head(s).id \in Ids(s)
         /\ 1 \in DOMAIN s /\ Head(s) = s[1]
         /\ \A i \in DOMAIN Tail(s) : i \in Nat /\ i > 0 /\ i + 1 \in DOMAIN s /\ Tail(s)[i] = s[i + 1]
         /\ \A i \in DOMAIN s : i \in Nat /\ i > 0
              /\ (i # 1 => i - 1 \in DOMAIN Tail(s) /\ Tail(s)[i - 1] = s[i])
<1>1. PICK S : s \in Seq(S)
  BY DEF Once
<1>2. Len(s) \in Nat /\ Len(s) > 0 /\ DOMAIN s = 1..Len(s) /\ Head(s) = s[1]
  BY <1>1
<1> DEFINE rest == Tail(s)
<1>3. /\ rest \in Seq(S) /\ Len(rest) = Len(s) - 1
      /\ \A i \in 1..Len(rest) : rest[i] = s[i + 1]
  BY <1>1, HeadTailProperties
<1> HIDE DEF rest
<1>4. DOMAIN rest = 1..(Len(s) - 1)
  BY <1>3
<1>5. \A i \in DOMAIN rest : i \in Nat /\ i > 0 /\ i + 1 \in DOMAIN s /\ i + 1 # 1 /\ rest[i] = s[i + 1]
  BY <1>2, <1>3, <1>4
<1>6. \A i \in DOMAIN s : i # 1 => i - 1 \in DOMAIN rest /\ i - 1 + 1 = i
  BY <1>2, <1>4
<1>7. \A i \in DOMAIN s : i # 1 => i - 1 \in DOMAIN rest /\ rest[i - 1] = s[i]
  BY <1>5, <1>6
<1>8. ToSet(rest) \subseteq ToSet(s) /\ Head(s) \in ToSet(s)
  BY <1>2, <1>5 DEF ToSet
<1>9. ToSet(s) = ToSet(rest) \cup {Head(s)}
  <2>1. \A i \in DOMAIN s : s[i] \in ToSet(rest) \cup {Head(s)}
    BY <1>2, <1>7 DEF ToSet
  <2> QED
    BY <1>8, <2>1 DEF ToSet
<1>10. Once(rest)
  <2>1. SUFFICES ASSUME NEW i \in DOMAIN rest, NEW j \in DOMAIN rest,
                        HasId(rest[i]), HasId(rest[j]), rest[i].id = rest[j].id
                 PROVE  i = j
    BY <1>3 DEF Once
  <2>2. i + 1 = j + 1
    BY <1>5, <2>1 DEF Once
  <2> QED
    BY <1>5, <2>2
<1>11. HasId(Head(s)) => \A m \in ToSet(rest) : HasId(m) => m.id # Head(s).id
  <2>1. SUFFICES ASSUME HasId(Head(s)), NEW i \in DOMAIN rest, HasId(rest[i])
                 PROVE  rest[i].id # Head(s).id
    BY DEF ToSet
  <2> QED
    BY <1>2, <1>5, <2>1 DEF Once
<1>12. /\ Ids(rest) = IF HasId(Head(s)) THEN Ids(s) \ {Head(s).id} ELSE Ids(s)
       /\ HasId(Head(s)) => Head(s).id \in Ids(s)
  BY <1>9, <1>11 DEF Ids
<1>13. \A i \in DOMAIN s : i \in Nat /\ i > 0
  BY <1>2
<1> QED
  BY <1>2, <1>5, <1>7, <1>8, <1>10, <1>12, <1>13 DEF rest

LEMMA Sends ==
  ASSUME NEW s, Once(s), NEW x, NEW y
  PROVE  /\ s \o <<>> = s /\ s \o <<x>> = Append(s, x)
         /\ s \o <<x, y>> = Append(Append(s, x), y)
         /\ s \o (<<>> \o <<x>>) = Append(s, x)
         /\ s \o (<<x>> \o <<y>>) = Append(Append(s, x), y)
<1>1. PICK R : s \in Seq(R)
  BY DEF Once
<1> DEFINE S == R \cup {x, y}
<1>2. s \in Seq(S) /\ x \in S /\ y \in S
  BY <1>1
<1> HIDE DEF S
<1>3. <<x>> \in Seq(S) /\ <<y>> \in Seq(S) /\ <<>> \in Seq(S) /\ <<x, y>> \in Seq(S)
  BY <1>2
<1>4. s \o <<>> = s /\ <<>> \o <<x>> = <<x>> /\ <<x>> \o <<y>> = <<x, y>>
  <2>1. s \o <<>> = s /\ <<>> \o <<x>> = <<x>>
    BY <1>2, <1>3, ConcatEmptySeq
  <2>2. <<x>> \o <<y>> = <<x, y>>
    <3> DEFINE a == <<x>>
               b == <<y>>
               c == a \o b
               d == <<x, y>>
    <3>1. a \in Seq(S) /\ b \in Seq(S) /\ Len(a) = 1 /\ Len(b) = 1 /\ a[1] = x /\ b[1] = y
      BY <1>3
    <3>2. d \in Seq(S) /\ Len(d) = 2 /\ d[1] = x /\ d[2] = y
      BY <1>3
    <3> HIDE DEF a, b
    <3>3. /\ c \in Seq(S) /\ Len(c) = Len(a) + Len(b)
          /\ \A i \in 1..(Len(a) + Len(b)) : c[i] = IF i <= Len(a) THEN a[i] ELSE b[i - Len(a)]
      BY <3>1, ConcatProperties
    <3> HIDE DEF c, d
    <3>4. Len(c) = 2 /\ c[1] = x /\ c[2] = y
      BY <3>1, <3>3
    <3>5. \A i \in 1..Len(c) : c[i] = d[i]
      BY <3>2, <3>4
    <3>6. c = d
      BY <3>2, <3>3, <3>4, <3>5, SeqEqual
    <3> QED
      BY <3>6 DEF a, b, c, d
  <2> QED
    BY <2>1, <2>2
<1>5. s \o <<x>> = Append(s, x)
  BY <1>2, <1>3
<1>6. s \o <<x, y>> = Append(Append(s, x), y)
  BY <1>2, <1>3
<1> QED
  BY <1>4, <1>5, <1>6

LEMMA EventsAre ==
  /\ ~HasId(ChangeEvent) /\ ChangeEvent.event = TRUE
  /\ \A id, v : /\ HasId(Resolved(id, v)) /\ Resolved(id, v).id = id
                /\ Resolved(id, v).event = FALSE /\ Resolved(id, v).ok = TRUE
                /\ Resolved(id, v).value = v
  /\ \A id : /\ HasId(Rejected(id)) /\ Rejected(id).id = id
             /\ Rejected(id).event = FALSE /\ Rejected(id).ok = FALSE
BY DEF HasId, ChangeEvent, Resolved, Rejected

LEMMA CallMoves ==
  ASSUME NEW A, NEW B, NEW P, NEW W, NEW F, NEW T, NEW Q, NEW id,
         Placed(A, B, P, W, F, T, Q)
  PROVE  /\ id \in B => /\ Placed(A, B \ {id}, P \cup {id}, W, F, T, Q)
                        /\ Placed(A, B \ {id}, P, W \cup {id}, F, T, Q)
                        /\ Placed(A, B \ {id}, P, W, F, T \cup {id}, Q)
                        /\ Placed(A, B \ {id}, P, W, F, T, Q \cup {id})
         /\ id \in P => Placed(A, B, P \ {id}, W, F, T \cup {id}, Q)
         /\ id \in W => Placed(A, B, P, W \ {id}, F \cup {id}, T, Q)
         /\ id \in F => Placed(A, B, P, W, F \ {id}, T \cup {id}, Q)
         /\ id \in Q => /\ Placed(A, B, P, W \cup {id}, F, T, Q \ {id})
                        /\ Placed(A, B, P, W, F, T \cup {id}, Q \ {id})
         /\ id \in T => Placed(A \ {id}, B, P, W, F, T \ {id}, Q)
         /\ id \notin A => Placed(A \cup {id}, B \cup {id}, P, W, F, T, Q)
<1> USE DEF Placed
<1>1. id \in B => /\ Placed(A, B \ {id}, P \cup {id}, W, F, T, Q)
                  /\ Placed(A, B \ {id}, P, W \cup {id}, F, T, Q)
  OBVIOUS
<1>2. id \in B => /\ Placed(A, B \ {id}, P, W, F, T \cup {id}, Q)
                  /\ Placed(A, B \ {id}, P, W, F, T, Q \cup {id})
  OBVIOUS
<1>3. id \in P => Placed(A, B, P \ {id}, W, F, T \cup {id}, Q)
  OBVIOUS
<1>4. id \in W => Placed(A, B, P, W \ {id}, F \cup {id}, T, Q)
  OBVIOUS
<1>5. id \in F => Placed(A, B, P, W, F \ {id}, T \cup {id}, Q)
  OBVIOUS
<1>6. id \in Q => /\ Placed(A, B, P, W \cup {id}, F, T, Q \ {id})
                  /\ Placed(A, B, P, W, F, T \cup {id}, Q \ {id})
  OBVIOUS
<1>7. id \in T => Placed(A \ {id}, B, P, W, F, T \ {id}, Q)
  OBVIOUS
<1>8. id \notin A => Placed(A \cup {id}, B \cup {id}, P, W, F, T, Q)
  OBVIOUS
<1> HIDE DEF Placed
<1> QED
  BY <1>1, <1>2, <1>3, <1>4, <1>5, <1>6, <1>7, <1>8

LEMMA CallApart ==
  ASSUME NEW A, NEW B, NEW P, NEW W, NEW F, NEW T, NEW Q, NEW id,
         Placed(A, B, P, W, F, T, Q)
  PROVE  /\ B \cup P \cup W \cup F \cup T \cup Q \subseteq A
         /\ id \in B => id \notin P /\ id \notin W /\ id \notin T
         /\ id \in P => id \notin T
         /\ id \in W => id \notin F
         /\ id \in F => id \notin T
         /\ id \in Q => id \notin W /\ id \notin T
         /\ id \in T => id \notin B \cup P \cup W \cup F \cup Q
BY DEF Placed

LEMMA Unmoved ==
  ASSUME NEW S, NEW p, NEW q, \A m \in S : HasId(m) => q[m.id] = p[m.id]
  PROVE  /\ Asked(S, p) => Asked(S, q)
         /\ Composed(S, p) => Composed(S, q)
         /\ Answered(S, p) => Answered(S, q)
BY DEF Asked, Composed, Answered

LEMMA Fewer ==
  ASSUME NEW S, NEW p, NEW R, R \subseteq S
  PROVE  /\ Asked(S, p) => Asked(R, p)
         /\ Composed(S, p) => Composed(R, p)
         /\ Answered(S, p) => Answered(R, p)
BY DEF Asked, Composed, Answered

LEMMA FlagsSet ==
  ASSUME NEW p, NEW q, NEW f, NEW id \in Calls, NEW for \in DOMAIN Flags, FlagsOK(p, f),
         p[id] = Nothing, q[id] = for, \A c \in Calls \ {id} : q[c] = p[c],
         Flags[for] \cap f = {}
  PROVE  FlagsOK(q, f \cup Flags[for])
<1>1. q[id] # Nothing
  BY FlagsAssumption
<1>2. \A c \in Calls : q[c] # Nothing => Flags[q[c]] \subseteq f \cup Flags[for]
  BY DEF FlagsOK
<1>3. \A c, d \in Calls :
        q[c] # Nothing /\ q[d] # Nothing /\ c # d => Flags[q[c]] \cap Flags[q[d]] = {}
  <2>1. SUFFICES ASSUME NEW c \in Calls, NEW d \in Calls, q[c] # Nothing, q[d] # Nothing, c # d
                 PROVE  Flags[q[c]] \cap Flags[q[d]] = {}
    OBVIOUS
  <2>2. CASE c = id
    <3>1. q[d] = p[d] /\ Flags[p[d]] \subseteq f
      BY <2>1, <2>2 DEF FlagsOK
    <3> QED
      BY <2>2, <3>1
  <2>3. CASE d = id
    <3>1. q[c] = p[c] /\ Flags[p[c]] \subseteq f
      BY <2>1, <2>3 DEF FlagsOK
    <3> QED
      BY <2>3, <3>1
  <2>4. CASE c # id /\ d # id
    BY <2>1, <2>4 DEF FlagsOK
  <2> QED
    BY <2>2, <2>3, <2>4
<1>4. \A g \in f \cup Flags[for] : \E c \in Calls : q[c] # Nothing /\ g \in Flags[q[c]]
  <2>1. SUFFICES ASSUME NEW g \in f \cup Flags[for]
                 PROVE  \E c \in Calls : q[c] # Nothing /\ g \in Flags[q[c]]
    OBVIOUS
  <2>2. CASE g \in Flags[for]
    BY <1>1, <2>2
  <2>3. CASE g \in f
    <3>1. PICK c \in Calls : p[c] # Nothing /\ g \in Flags[p[c]]
      BY <2>3 DEF FlagsOK
    <3> QED
      BY <3>1
  <2> QED
    BY <2>2, <2>3
<1> QED
  BY <1>2, <1>3, <1>4 DEF FlagsOK

LEMMA FlagsCleared ==
  ASSUME NEW p, NEW q, NEW f, NEW id \in Calls, FlagsOK(p, f),
         p[id] # Nothing, q[id] = Nothing, \A c \in Calls \ {id} : q[c] = p[c]
  PROVE  FlagsOK(q, f \ Flags[p[id]])
<1>1. \A c \in Calls : q[c] # Nothing => c # id /\ q[c] = p[c]
  OBVIOUS
<1>2. \A c \in Calls : q[c] # Nothing => Flags[q[c]] \subseteq f \ Flags[p[id]]
  <2>1. SUFFICES ASSUME NEW c \in Calls, q[c] # Nothing
                 PROVE  Flags[q[c]] \subseteq f \ Flags[p[id]]
    OBVIOUS
  <2>2. Flags[p[c]] \subseteq f /\ Flags[p[c]] \cap Flags[p[id]] = {}
    BY <1>1, <2>1 DEF FlagsOK
  <2> QED
    BY <1>1, <2>1, <2>2
<1>3. \A c, d \in Calls :
        q[c] # Nothing /\ q[d] # Nothing /\ c # d => Flags[q[c]] \cap Flags[q[d]] = {}
  BY <1>1 DEF FlagsOK
<1>4. \A g \in f \ Flags[p[id]] : \E c \in Calls : q[c] # Nothing /\ g \in Flags[q[c]]
  <2>1. SUFFICES ASSUME NEW g \in f, g \notin Flags[p[id]]
                 PROVE  \E c \in Calls : q[c] # Nothing /\ g \in Flags[q[c]]
    OBVIOUS
  <2>2. PICK c \in Calls : p[c] # Nothing /\ g \in Flags[p[c]]
    BY DEF FlagsOK
  <2> QED
    BY <2>1, <2>2
<1> QED
  BY <1>2, <1>3, <1>4 DEF FlagsOK

\* The page makes a call, and may have taken an event for it.
LEMMA CallMade ==
  ASSUME CallsInv, NEW id \in Calls, NEW what, NEW for \in DOMAIN Flags,
         Call(id, what, for), what.do \in DOMAIN Wants, for \in Wants[what.do],
         Flags[for] \cap flags = {}, flags' = flags \cup Flags[for],
         UNCHANGED <<parsing, worker, fromWorker, waiting, flight>>,
         \/ toPage' = toPage
         \/ toPage # <<>> /\ Head(toPage).event /\ toPage' = Tail(toPage)
  PROVE  /\ CallsInv' /\ purpose'[id] = for /\ \A c \in Calls \ {id} : purpose'[c] = purpose[c]
         /\ id \notin Asking /\ ToSet(toBrowser') = ToSet(toBrowser) \cup {[id |-> id, what |-> what]}
<1> DEFINE m == [id |-> id, what |-> what]
<1>1. /\ purpose[id] = Nothing /\ purpose' = [purpose EXCEPT ![id] = for]
      /\ toBrowser' = Append(toBrowser, m)
  BY DEF Call, NextCall
<1>2. HasId(m) /\ m.id = id /\ m.what = what
  BY DEF HasId
<1> HIDE DEF m
<1>3. /\ purpose' \in [Calls -> DOMAIN Flags \cup {Nothing}]
      /\ purpose'[id] = for /\ \A c \in Calls \ {id} : purpose'[c] = purpose[c]
  BY <1>1 DEF CallsInv
<1>4. for # Nothing
  BY FlagsAssumption
<1>5. Asking' = Asking \cup {id} /\ id \notin Asking
  BY <1>1, <1>3, <1>4 DEF Asking
<1>6. /\ Placed(Asking, Ids(toBrowser), Parsed, Ids(worker), Ids(fromWorker), Ids(toPage), Awaited)
      /\ Once(toBrowser) /\ Once(toPage) /\ Once(worker) /\ Once(fromWorker)
  BY DEF CallsInv
<1>7. id \notin Ids(toBrowser) \cup Parsed \cup Ids(worker) \cup Ids(fromWorker) \cup Ids(toPage)
                \cup Awaited
  BY <1>5, <1>6, CallApart
<1>8. /\ Once(toBrowser') /\ ToSet(toBrowser') = ToSet(toBrowser) \cup {m}
      /\ Ids(toBrowser') = Ids(toBrowser) \cup {id}
  BY <1>1, <1>2, <1>6, <1>7, Appends
<1>9. Once(toPage') /\ ToSet(toPage') \subseteq ToSet(toPage) /\ Ids(toPage') = Ids(toPage)
  <2>1. CASE toPage # <<>> /\ Head(toPage).event /\ toPage' = Tail(toPage)
    <3>1. Head(toPage) \in ToSet(toPage)
      BY <1>6, <2>1, Tails
    <3>2. ~HasId(Head(toPage))
      BY <2>1, <3>1 DEF CallsInv, Answered
    <3> QED
      BY <1>6, <2>1, <3>2, Tails
  <2> QED
    BY <1>6, <2>1
<1>10. Placed(Asking', Ids(toBrowser'), Parsed', Ids(worker'), Ids(fromWorker'), Ids(toPage'), Awaited')
  <2>1. Placed(Asking \cup {id}, Ids(toBrowser) \cup {id}, Parsed, Ids(worker), Ids(fromWorker),
               Ids(toPage), Awaited)
    BY <1>5, <1>6, CallMoves
  <2> QED
    BY <1>5, <1>8, <1>9, <2>1 DEF Parsed, Awaited
<1>11. \A c \in Asking : purpose'[c] = purpose[c]
  BY <1>3, <1>5 DEF Asking
<1>12. /\ Ids(toBrowser) \cup Parsed \cup Ids(worker) \cup Ids(fromWorker) \cup Ids(toPage)
            \cup Awaited \subseteq Asking
  BY <1>6, CallApart
<1>13. /\ \A n \in ToSet(toBrowser) \cup parsing \cup ToSet(worker) \cup ToSet(fromWorker)
                   \cup ToSet(toPage) : HasId(n) => purpose'[n.id] = purpose[n.id]
  BY <1>11, <1>12 DEF Ids, Parsed
<1>14. Asked(ToSet(toBrowser'), purpose')
  <2>1. Asked(ToSet(toBrowser), purpose')
    BY <1>13, Unmoved DEF CallsInv
  <2> QED
    BY <1>2, <1>3, <1>8, <2>1 DEF Asked
<1>15. /\ Asked(parsing', purpose') /\ Composed(ToSet(worker'), purpose')
       /\ Composed(ToSet(fromWorker'), purpose')
  BY <1>13, Unmoved DEF CallsInv
<1>16. Answered(ToSet(toPage'), purpose')
  <2>1. Answered(ToSet(toPage), purpose')
    BY <1>13, Unmoved DEF CallsInv
  <2> QED
    BY <1>9, <2>1, Fewer
<1>17. FlightOK'
  <2>1. waiting # Nothing => purpose'[waiting] = purpose[waiting]
    BY <1>11, <1>12 DEF Awaited
  <2> QED
    BY <2>1 DEF CallsInv, FlightOK
<1>18. FlagsOK(purpose', flags')
  BY <1>1, <1>3, FlagsSet DEF CallsInv
<1>19. CallsInv'
  BY <1>3, <1>6, <1>8, <1>9, <1>10, <1>14, <1>15, <1>16, <1>17, <1>18 DEF CallsInv
<1> QED
  BY <1>3, <1>5, <1>8, <1>19 DEF m

\* What the page takes next.
LEMMA AnswerIs ==
  ASSUME CallsInv, toPage # <<>>, ~Head(toPage).event
  PROVE  /\ HasId(Head(toPage)) /\ Head(toPage).id \in Calls
         /\ Head(toPage).id \in Ids(toPage) /\ Head(toPage).id \in Asking
         /\ Head(toPage) \in ToSet(toPage)
         /\ purpose[Head(toPage).id] \in DOMAIN Flags
<1>1. Once(toPage) /\ Answered(ToSet(toPage), purpose)
  BY DEF CallsInv
<1>2. Head(toPage) \in ToSet(toPage)
  BY <1>1, Tails
<1>3. HasId(Head(toPage))
  BY <1>1, <1>2 DEF Answered
<1>4. Head(toPage).id \in Ids(toPage)
  BY <1>1, <1>3, Tails
<1>5. Head(toPage).id \in Asking
  <2>1. Placed(Asking, Ids(toBrowser), Parsed, Ids(worker), Ids(fromWorker), Ids(toPage), Awaited)
    BY DEF CallsInv
  <2>2. Ids(toPage) \subseteq Asking
    BY <2>1 DEF Placed
  <2> QED
    BY <1>4, <2>2
<1> QED
  BY <1>2, <1>3, <1>4, <1>5 DEF Asking, CallsInv

\* The answer of a call is taken from the way, and everything else is as it was.
LEMMA AnswerTaken ==
  ASSUME CallsInv, toPage # <<>>, ~Head(toPage).event, toPage' = Tail(toPage),
         NEW id, id = Head(toPage).id,
         UNCHANGED <<parsing, worker, fromWorker, waiting, flight>>,
         \A c \in Calls \ {id} : purpose[c] # Nothing => purpose'[c] = purpose[c]
  PROVE  /\ Once(toPage') /\ Ids(toPage') = Ids(toPage) \ {id}
         /\ Placed(Asking \ {id}, Ids(toBrowser), Parsed', Ids(worker'), Ids(fromWorker'),
                   Ids(toPage'), Awaited')
         /\ Asked(ToSet(toBrowser), purpose') /\ Asked(parsing', purpose')
         /\ Composed(ToSet(worker'), purpose') /\ Composed(ToSet(fromWorker'), purpose')
         /\ Answered(ToSet(toPage'), purpose') /\ FlightOK'
         /\ \A c \in Ids(toBrowser) : purpose'[c] = purpose[c]
<1>1. HasId(Head(toPage)) /\ id \in Ids(toPage) /\ id \in Asking
  BY AnswerIs
<1>2. /\ Placed(Asking, Ids(toBrowser), Parsed, Ids(worker), Ids(fromWorker), Ids(toPage), Awaited)
      /\ Once(toPage)
  BY DEF CallsInv
<1>3. /\ Once(toPage') /\ Ids(toPage') = Ids(toPage) \ {id}
      /\ ToSet(toPage') \subseteq ToSet(toPage)
  BY <1>1, <1>2, Tails
<1>4. Placed(Asking \ {id}, Ids(toBrowser), Parsed', Ids(worker'), Ids(fromWorker'),
             Ids(toPage'), Awaited')
  <2>1. Placed(Asking \ {id}, Ids(toBrowser), Parsed, Ids(worker), Ids(fromWorker),
               Ids(toPage) \ {id}, Awaited)
    BY <1>1, <1>2, CallMoves
  <2> QED
    BY <1>3, <2>1 DEF Parsed, Awaited
<1>5. Ids(toBrowser) \cup Parsed' \cup Ids(worker') \cup Ids(fromWorker') \cup Ids(toPage')
        \cup Awaited' \subseteq Asking \ {id}
  <2> DEFINE left1 == Asking \ {id}
             b == Ids(toBrowser)
             p == Parsed'
             w == Ids(worker')
             f == Ids(fromWorker')
             t == Ids(toPage')
             q == Awaited'
  <2>1. Placed(left1, b, p, w, f, t, q)
    BY <1>4
  <2> HIDE DEF left1, b, p, w, f, t, q
  <2>2. b \cup p \cup w \cup f \cup t \cup q \subseteq left1
    BY <2>1 DEF Placed
  <2> QED
    BY <2>2 DEF left1, b, p, w, f, t, q
<1>6. \A c \in Asking \ {id} : purpose'[c] = purpose[c]
  BY DEF Asking
<1>7. \A n \in ToSet(toBrowser) \cup parsing' \cup ToSet(worker') \cup ToSet(fromWorker')
              \cup ToSet(toPage') : HasId(n) => purpose'[n.id] = purpose[n.id]
  <2>1. /\ \A n \in ToSet(toBrowser) : HasId(n) => n.id \in Ids(toBrowser)
        /\ \A n \in ToSet(worker') : HasId(n) => n.id \in Ids(worker')
        /\ \A n \in ToSet(fromWorker') : HasId(n) => n.id \in Ids(fromWorker')
        /\ \A n \in ToSet(toPage') : HasId(n) => n.id \in Ids(toPage')
    BY DEF Ids
  <2>2. \A n \in parsing' : n.id \in Parsed'
    BY DEF Parsed
  <2> QED
    BY <1>5, <1>6, <2>1, <2>2
<1>8. Answered(ToSet(toPage'), purpose)
  <2>1. Answered(ToSet(toPage), purpose)
    BY DEF CallsInv
  <2> QED
    BY <1>3, <2>1, Fewer
<1>9. /\ Asked(ToSet(toBrowser), purpose') /\ Asked(parsing', purpose')
      /\ Composed(ToSet(worker'), purpose') /\ Composed(ToSet(fromWorker'), purpose')
      /\ Answered(ToSet(toPage'), purpose')
  <2>1. /\ Asked(ToSet(toBrowser), purpose) /\ Asked(parsing, purpose)
        /\ Composed(ToSet(worker), purpose) /\ Composed(ToSet(fromWorker), purpose)
    BY DEF CallsInv
  <2>2. Asked(ToSet(toBrowser), purpose')
    BY <1>7, <2>1, Unmoved
  <2>3. Asked(parsing', purpose')
    BY <1>7, <2>1, Unmoved
  <2>4. Composed(ToSet(worker'), purpose') /\ Composed(ToSet(fromWorker'), purpose')
    BY <1>7, <2>1, Unmoved
  <2>5. Answered(ToSet(toPage'), purpose')
    BY <1>7, <1>8, Unmoved
  <2> QED
    BY <2>2, <2>3, <2>4, <2>5
<1>10. FlightOK'
  <2>1. waiting # Nothing => purpose'[waiting] = purpose[waiting]
    BY <1>5, <1>6 DEF Awaited
  <2> QED
    BY <2>1 DEF CallsInv, FlightOK
<1> QED
  BY <1>3, <1>4, <1>5, <1>6, <1>9, <1>10

\* A call is over.
LEMMA CallOver ==
  ASSUME CallsInv, toPage # <<>>, ~Head(toPage).event, toPage' = Tail(toPage),
         NEW id, id = Head(toPage).id, Over(id),
         UNCHANGED <<parsing, worker, fromWorker, waiting, flight>>
  PROVE  CallsInv' /\ purpose'[id] = Nothing /\ \A c \in Calls \ {id} : purpose'[c] = purpose[c]
<1>1. /\ purpose' = [purpose EXCEPT ![id] = Nothing] /\ flags' = flags \ Flags[purpose[id]]
      /\ toBrowser' = toBrowser
  BY DEF Over
<1>2. id \in Calls /\ id \in Asking
  BY AnswerIs
<1>3. /\ purpose' \in [Calls -> DOMAIN Flags \cup {Nothing}]
      /\ purpose'[id] = Nothing /\ \A c \in Calls \ {id} : purpose'[c] = purpose[c]
  BY <1>1, <1>2 DEF CallsInv
<1>4. Asking' = Asking \ {id}
  BY <1>3 DEF Asking
<1>5. FlagsOK(purpose', flags')
  <2>1. FlagsOK(purpose, flags) /\ purpose[id] # Nothing
    BY <1>2 DEF CallsInv, Asking
  <2>2. FlagsOK(purpose', flags \ Flags[purpose[id]])
    BY <1>2, <1>3, <2>1, FlagsCleared
  <2> QED
    BY <1>1, <2>2
<1> QED
  BY <1>1, <1>3, <1>4, <1>5, AnswerTaken DEF CallsInv

\* An import is over, and the page asks for the state.
LEMMA CallAgainMade ==
  ASSUME CallsInv, toPage # <<>>, ~Head(toPage).event, toPage' = Tail(toPage),
         NEW id, id = Head(toPage).id, purpose[id] = "import",
         NEW next \in Calls, CallAgain(id, next, "imported"), flags' = flags,
         UNCHANGED <<parsing, worker, fromWorker, waiting, flight>>
  PROVE  /\ CallsInv' /\ purpose'[id] = Nothing /\ purpose'[next] = "imported" /\ next # id
         /\ \A c \in Calls \ {id, next} : purpose'[c] = purpose[c]
         /\ ToSet(toBrowser') = ToSet(toBrowser) \cup {[id |-> next, what |-> [do |-> "get"]]}
<1> DEFINE m == [id |-> next, what |-> [do |-> "get"]]
           mid == [purpose EXCEPT ![id] = Nothing]
<1>1. /\ purpose[next] = Nothing
      /\ purpose' = [purpose EXCEPT ![id] = Nothing, ![next] = "imported"]
      /\ toBrowser' = Append(toBrowser, m)
  BY DEF CallAgain, NextCall
<1>2. HasId(m) /\ m.id = next /\ m.what.do = "get"
  BY DEF HasId
<1> HIDE DEF m
<1>3. id \in Calls /\ id \in Asking /\ id # next
  BY <1>1, AnswerIs DEF Asking
<1>4. "imported" \in DOMAIN Flags /\ Flags["imported"] = Flags["import"] /\ "imported" # Nothing
  BY FlagsAssumption DEF Flags
<1>5. /\ purpose' \in [Calls -> DOMAIN Flags \cup {Nothing}]
      /\ purpose'[id] = Nothing /\ purpose'[next] = "imported"
      /\ \A c \in Calls \ {id, next} : purpose'[c] = purpose[c]
  BY <1>1, <1>3, <1>4 DEF CallsInv
<1>6. Asking' = (Asking \ {id}) \cup {next} /\ next \notin Asking
  BY <1>1, <1>4, <1>5 DEF Asking
<1>7. FlagsOK(purpose', flags')
  <2>1. /\ mid[id] = Nothing /\ mid[next] = Nothing
        /\ (\A c \in Calls \ {id} : mid[c] = purpose[c])
        /\ \A c \in Calls \ {next} : purpose'[c] = mid[c]
    BY <1>1, <1>3, <1>5 DEF CallsInv
  <2> HIDE DEF mid
  <2>2. FlagsOK(mid, flags \ Flags["import"])
    <3>1. FlagsOK(purpose, flags) /\ purpose[id] # Nothing
      BY <1>3 DEF CallsInv, Asking
    <3>2. FlagsOK(mid, flags \ Flags[purpose[id]])
      BY <1>3, <2>1, <3>1, FlagsCleared
    <3> QED
      BY <3>2
  <2>3. Flags["imported"] \cap (flags \ Flags["import"]) = {}
    BY <1>4
  <2>4. FlagsOK(purpose', (flags \ Flags["import"]) \cup Flags["imported"])
    <3> DEFINE rest == flags \ Flags["import"]
               for == "imported"
    <3>1. /\ FlagsOK(mid, rest) /\ for \in DOMAIN Flags /\ Flags[for] \cap rest = {}
          /\ purpose'[next] = for /\ mid[next] = Nothing
          /\ \A c \in Calls \ {next} : purpose'[c] = mid[c]
      BY <1>4, <1>5, <2>1, <2>2, <2>3
    <3> HIDE DEF rest, for
    <3>2. FlagsOK(purpose', rest \cup Flags[for])
      BY <3>1, FlagsSet
    <3> QED
      BY <3>2 DEF rest, for
  <2>5. Flags["import"] \subseteq flags
    <3>1. FlagsOK(purpose, flags) /\ purpose[id] # Nothing
      BY <1>3 DEF CallsInv, Asking
    <3> QED
      BY <1>3, <3>1 DEF FlagsOK
  <2>6. (flags \ Flags["import"]) \cup Flags["imported"] = flags
    BY <1>4, <2>5
  <2> QED
    BY <2>4, <2>6
<1>8. /\ Once(toPage') /\ Ids(toPage') = Ids(toPage) \ {id}
      /\ Placed(Asking \ {id}, Ids(toBrowser), Parsed', Ids(worker'), Ids(fromWorker'),
                Ids(toPage'), Awaited')
      /\ Asked(ToSet(toBrowser), purpose') /\ Asked(parsing', purpose')
      /\ Composed(ToSet(worker'), purpose') /\ Composed(ToSet(fromWorker'), purpose')
      /\ Answered(ToSet(toPage'), purpose') /\ FlightOK'
  BY <1>1, <1>5, AnswerTaken
<1>9. next \notin Ids(toBrowser) /\ Once(toBrowser)
  <2>1. Placed(Asking, Ids(toBrowser), Parsed, Ids(worker), Ids(fromWorker), Ids(toPage), Awaited)
    BY DEF CallsInv
  <2>2. Ids(toBrowser) \subseteq Asking
    BY <2>1 DEF Placed
  <2> QED
    BY <1>6, <2>2 DEF CallsInv
<1>10. /\ Once(toBrowser') /\ ToSet(toBrowser') = ToSet(toBrowser) \cup {m}
       /\ Ids(toBrowser') = Ids(toBrowser) \cup {next}
  BY <1>1, <1>2, <1>9, Appends
<1>11. Placed(Asking', Ids(toBrowser'), Parsed', Ids(worker'), Ids(fromWorker'), Ids(toPage'),
              Awaited')
  <2>1. next \notin Asking \ {id}
    BY <1>6
  <2>2. Placed((Asking \ {id}) \cup {next}, Ids(toBrowser) \cup {next}, Parsed', Ids(worker'),
               Ids(fromWorker'), Ids(toPage'), Awaited')
    BY <1>8, <2>1, CallMoves
  <2> QED
    BY <1>6, <1>10, <2>2
<1>12. Asked(ToSet(toBrowser'), purpose')
  <2>1. "get" \in DOMAIN Wants /\ "imported" \in Wants["get"]
    BY DEF Wants
  <2> QED
    BY <1>2, <1>5, <1>8, <1>10, <2>1 DEF Asked
<1>13. CallsInv'
  BY <1>3, <1>5, <1>7, <1>8, <1>10, <1>11, <1>12 DEF CallsInv
<1> QED
  BY <1>3, <1>5, <1>10, <1>13 DEF m

-----------------------------------------------------------------------------
(* Calls in the browser *)

\* What it takes for the calls to be where they should when the page stands still.
LEMMA BrowserKeeps ==
  ASSUME CallsInv, UNCHANGED <<purpose, flags>>,
         Once(toBrowser'), Once(worker'), Once(fromWorker'), Once(toPage'),
         \A m, n \in parsing' : m.id = n.id => m = n,
         Placed(Asking, Ids(toBrowser'), Parsed', Ids(worker'), Ids(fromWorker'), Ids(toPage'),
                Awaited'),
         Asked(ToSet(toBrowser'), purpose), Asked(parsing', purpose),
         \A m \in parsing' : m.what.do \in {"preview", "import"},
         Composed(ToSet(worker'), purpose), Composed(ToSet(fromWorker'), purpose),
         Answered(ToSet(toPage'), purpose), FlightOK'
  PROVE  CallsInv'
<1>1. Asking' = Asking
  BY DEF Asking
<1>2. purpose' = purpose /\ flags' = flags
  OBVIOUS
<1> QED
  BY <1>1, <1>2 DEF CallsInv

LEMMA WhereCallsAre ==
  CallsInv => /\ Placed(Asking, Ids(toBrowser), Parsed, Ids(worker), Ids(fromWorker), Ids(toPage),
                        Awaited)
              /\ Once(toBrowser) /\ Once(worker) /\ Once(fromWorker) /\ Once(toPage)
              /\ Asked(ToSet(toBrowser), purpose) /\ Asked(parsing, purpose)
              /\ (\A m, n \in parsing : m.id = n.id => m = n)
              /\ (\A m \in parsing : m.what.do \in {"preview", "import"})
              /\ Composed(ToSet(worker), purpose) /\ Composed(ToSet(fromWorker), purpose)
              /\ Answered(ToSet(toPage), purpose) /\ FlightOK
BY DEF CallsInv

LEMMA EventSent ==
  ASSUME NEW s, NEW p, Once(s), Answered(ToSet(s), p)
  PROVE  /\ Once(Append(s, ChangeEvent)) /\ Ids(Append(s, ChangeEvent)) = Ids(s)
         /\ Answered(ToSet(Append(s, ChangeEvent)), p)
<1>1. /\ Once(Append(s, ChangeEvent)) /\ Ids(Append(s, ChangeEvent)) = Ids(s)
      /\ ToSet(Append(s, ChangeEvent)) = ToSet(s) \cup {ChangeEvent}
  BY EventsAre, Appends
<1> QED
  BY <1>1, EventsAre DEF Answered

LEMMA AnswerSent ==
  ASSUME NEW s, NEW p, Once(s), Answered(ToSet(s), p), NEW m, HasId(m), m.id \notin Ids(s),
         m.event = FALSE, p[m.id] \in {"refresh", "imported"} => m.ok
  PROVE  /\ Once(Append(s, m)) /\ Ids(Append(s, m)) = Ids(s) \cup {m.id}
         /\ Answered(ToSet(Append(s, m)), p)
<1>1. /\ Once(Append(s, m)) /\ Ids(Append(s, m)) = Ids(s) \cup {m.id}
      /\ ToSet(Append(s, m)) = ToSet(s) \cup {m}
  BY Appends
<1> QED
  BY <1>1 DEF Answered

LEMMA StateSent ==
  ASSUME CallsInv, NEW id, NEW busy, SendState(id, busy), id \notin Ids(worker),
         purpose[id] \in StateCalls
  PROVE  /\ Once(worker') /\ Ids(worker') = Ids(worker) \cup {id}
         /\ Composed(ToSet(worker'), purpose)
<1> DEFINE t == [do |-> "read", id |-> id, updating |-> busy]
<1>1. HasId(t) /\ t.id = id /\ t.do = "read" /\ worker' = Append(worker, t)
  BY DEF HasId, SendState
<1> HIDE DEF t
<1>2. Once(worker) /\ Composed(ToSet(worker), purpose)
  BY WhereCallsAre
<1>3. /\ Once(worker') /\ Ids(worker') = Ids(worker) \cup {id}
      /\ ToSet(worker') = ToSet(worker) \cup {t}
  BY <1>1, <1>2, Appends
<1> QED
  BY <1>1, <1>2, <1>3 DEF Composed

LEMMA ToldIs ==
  ASSUME Once(toPage), Send(Told), NEW p, Answered(ToSet(toPage), p)
  PROVE  /\ \/ toPage' = toPage /\ disabled' = disabled /\ blocked' = blocked
            \/ toPage' = Append(toPage, ChangeEvent)
         /\ Once(toPage') /\ Ids(toPage') = Ids(toPage) /\ Answered(ToSet(toPage'), p)
<1>1. \/ toPage' = toPage /\ disabled' = disabled /\ blocked' = blocked
      \/ toPage' = Append(toPage, ChangeEvent)
  <2>1. CASE <<disabled, blocked>>' = <<disabled, blocked>>
    <3>1. toPage' = toPage \o <<>>
      BY <2>1 DEF Send, Told
    <3> QED
      BY <2>1, <3>1, Sends
  <2>2. CASE ~(<<disabled, blocked>>' = <<disabled, blocked>>)
    <3>1. toPage' = toPage \o <<ChangeEvent>>
      BY <2>2 DEF Send, Told
    <3> QED
      BY <3>1, Sends
  <2> QED
    BY <2>1, <2>2
<1> QED
  BY <1>1, EventSent

\* A call the browser takes.
LEMMA CallTaken ==
  ASSUME CallsInv, toBrowser # <<>>, toBrowser' = Tail(toBrowser), NEW m, m = Head(toBrowser)
  PROVE  /\ HasId(m) /\ m.what.do \in DOMAIN Wants /\ purpose[m.id] \in Wants[m.what.do]
         /\ m.id \in Calls /\ purpose[m.id] # Nothing /\ m.id \in Ids(toBrowser)
         /\ Once(toBrowser') /\ Ids(toBrowser') = Ids(toBrowser) \ {m.id}
         /\ m \in ToSet(toBrowser) /\ ToSet(toBrowser') \subseteq ToSet(toBrowser)
         /\ Asked(ToSet(toBrowser'), purpose)
         /\ m.id \notin Parsed /\ m.id \notin Ids(worker) /\ m.id \notin Ids(toPage)
<1>1. /\ Once(toBrowser) /\ Asked(ToSet(toBrowser), purpose)
      /\ Placed(Asking, Ids(toBrowser), Parsed, Ids(worker), Ids(fromWorker), Ids(toPage), Awaited)
  BY WhereCallsAre
<1>2. m \in ToSet(toBrowser)
  BY <1>1, Tails
<1>3. HasId(m) /\ m.what.do \in DOMAIN Wants /\ purpose[m.id] \in Wants[m.what.do]
  BY <1>1, <1>2 DEF Asked
<1>4. /\ m.id \in Ids(toBrowser) /\ Once(toBrowser') /\ Ids(toBrowser') = Ids(toBrowser) \ {m.id}
      /\ ToSet(toBrowser') \subseteq ToSet(toBrowser)
  BY <1>1, <1>3, Tails
<1>5. m.id \in Asking
  BY <1>1, <1>4 DEF Placed
<1>6. m.id \notin Parsed /\ m.id \notin Ids(worker) /\ m.id \notin Ids(toPage)
  BY <1>1, <1>4, CallApart
<1> QED
  BY <1>1, <1>2, <1>3, <1>4, <1>5, <1>6, Fewer DEF Asking

\* A call that is answered with the state goes to the worker of the lists.
LEMMA CallToWorker ==
  ASSUME CallsInv, toBrowser # <<>>, toBrowser' = Tail(toBrowser), NEW m, m = Head(toBrowser),
         NEW busy, SendState(m.id, busy), purpose[m.id] \in StateCalls,
         UNCHANGED <<purpose, flags, parsing, flight, waiting, fromWorker>>,
         Once(toPage'), Ids(toPage') = Ids(toPage), Answered(ToSet(toPage'), purpose)
  PROVE  CallsInv'
<1>1. /\ m.id \in Ids(toBrowser) /\ m.id \notin Ids(worker)
      /\ Once(toBrowser') /\ Ids(toBrowser') = Ids(toBrowser) \ {m.id}
      /\ Asked(ToSet(toBrowser'), purpose)
  BY CallTaken
<1>2. /\ Once(worker') /\ Ids(worker') = Ids(worker) \cup {m.id}
      /\ Composed(ToSet(worker'), purpose)
  BY <1>1, StateSent
<1>3. Placed(Asking, Ids(toBrowser'), Parsed', Ids(worker'), Ids(fromWorker'), Ids(toPage'), Awaited')
  <2>1. Placed(Asking, Ids(toBrowser) \ {m.id}, Parsed, Ids(worker) \cup {m.id}, Ids(fromWorker),
               Ids(toPage), Awaited)
    BY <1>1, CallMoves, WhereCallsAre
  <2> QED
    BY <1>1, <1>2, <2>1 DEF Parsed, Awaited
<1>4. FlightOK'
  BY WhereCallsAre DEF FlightOK
<1> QED
  BY <1>1, <1>2, <1>3, <1>4, WhereCallsAre, BrowserKeeps

LEMMA CallRefused ==
  ASSUME CallsInv, toBrowser # <<>>, toBrowser' = Tail(toBrowser), NEW m, m = Head(toBrowser),
         Send(<<Rejected(m.id)>>), purpose[m.id] \notin {"refresh", "imported"},
         UNCHANGED <<purpose, flags, parsing, flight, waiting, worker, fromWorker>>
  PROVE  CallsInv'
<1>1. /\ m.id \in Ids(toBrowser) /\ m.id \notin Ids(toPage)
      /\ Once(toBrowser') /\ Ids(toBrowser') = Ids(toBrowser) \ {m.id}
      /\ Asked(ToSet(toBrowser'), purpose)
  BY CallTaken
<1> DEFINE r == Rejected(m.id)
<1>2. HasId(r) /\ r.id = m.id /\ r.event = FALSE
  BY EventsAre
<1> HIDE DEF r
<1>3. toPage' = Append(toPage, r)
  <2>1. toPage' = toPage \o <<r>>
    BY DEF Send, r
  <2> QED
    BY <2>1, WhereCallsAre, Sends
<1>4. /\ Once(toPage') /\ Ids(toPage') = Ids(toPage) \cup {m.id}
      /\ Answered(ToSet(toPage'), purpose)
  <2>1. Once(toPage) /\ Answered(ToSet(toPage), purpose)
    BY WhereCallsAre
  <2> QED
    BY <1>1, <1>2, <1>3, <2>1, AnswerSent
<1>5. Placed(Asking, Ids(toBrowser'), Parsed', Ids(worker'), Ids(fromWorker'), Ids(toPage'), Awaited')
  <2>1. Placed(Asking, Ids(toBrowser) \ {m.id}, Parsed, Ids(worker), Ids(fromWorker),
               Ids(toPage) \cup {m.id}, Awaited)
    BY <1>1, CallMoves, WhereCallsAre
  <2> QED
    BY <1>1, <1>4, <2>1 DEF Parsed, Awaited
<1>6. FlightOK'
  BY WhereCallsAre DEF FlightOK
<1> QED
  BY <1>1, <1>4, <1>5, <1>6, WhereCallsAre, BrowserKeeps

\* A call that waits for the coordinator: no other does.
LEMMA CallWaits ==
  ASSUME CallsInv, toBrowser # <<>>, toBrowser' = Tail(toBrowser), NEW m, m = Head(toBrowser),
         waiting' = m.id, waiting = Nothing, flight' \in {"update", "change"},
         purpose[m.id] = IF flight' = "update" THEN "lists" ELSE "subscription",
         UNCHANGED <<purpose, flags, parsing, worker, fromWorker>>,
         Once(toPage'), Ids(toPage') = Ids(toPage), Answered(ToSet(toPage'), purpose)
  PROVE  CallsInv'
<1>1. /\ m.id \in Ids(toBrowser) /\ m.id \in Calls
      /\ Once(toBrowser') /\ Ids(toBrowser') = Ids(toBrowser) \ {m.id}
      /\ Asked(ToSet(toBrowser'), purpose)
  BY CallTaken
<1>2. Awaited' = Awaited \cup {m.id}
  BY <1>1, SettingsPageAssumption DEF Awaited
<1>3. Placed(Asking, Ids(toBrowser'), Parsed', Ids(worker'), Ids(fromWorker'), Ids(toPage'), Awaited')
  <2>1. Placed(Asking, Ids(toBrowser) \ {m.id}, Parsed, Ids(worker), Ids(fromWorker), Ids(toPage),
               Awaited \cup {m.id})
    BY <1>1, CallMoves, WhereCallsAre
  <2> QED
    BY <1>1, <1>2, <2>1 DEF Parsed
<1>4. FlightOK'
  BY DEF FlightOK
<1> QED
  BY <1>1, <1>3, <1>4, WhereCallsAre, BrowserKeeps

LEMMA CallIsRead ==
  ASSUME CallsInv, toBrowser # <<>>, toBrowser' = Tail(toBrowser), NEW m, m = Head(toBrowser),
         m.what.do \in {"preview", "import"}, parsing' = parsing \cup {m},
         UNCHANGED <<purpose, flags, toPage, flight, waiting, worker, fromWorker>>
  PROVE  CallsInv'
<1>1. /\ m.id \in Ids(toBrowser) /\ m.id \notin Parsed /\ HasId(m)
      /\ m.what.do \in DOMAIN Wants /\ purpose[m.id] \in Wants[m.what.do]
      /\ Once(toBrowser') /\ Ids(toBrowser') = Ids(toBrowser) \ {m.id}
      /\ Asked(ToSet(toBrowser'), purpose)
  BY CallTaken
<1>2. Parsed' = Parsed \cup {m.id}
  BY DEF Parsed
<1>3. \A n \in parsing : n.id # m.id
  BY <1>1 DEF Parsed
<1>4. /\ \A n, o \in parsing' : n.id = o.id => n = o
      /\ \A n \in parsing' : n.what.do \in {"preview", "import"}
  BY <1>3, WhereCallsAre
<1>5. Asked(parsing', purpose)
  <2>1. Asked(parsing, purpose)
    BY WhereCallsAre
  <2> QED
    BY <1>1, <2>1 DEF Asked
<1>6. Placed(Asking, Ids(toBrowser'), Parsed', Ids(worker'), Ids(fromWorker'), Ids(toPage'), Awaited')
  <2>1. Placed(Asking, Ids(toBrowser) \ {m.id}, Parsed \cup {m.id}, Ids(worker), Ids(fromWorker),
               Ids(toPage), Awaited)
    BY <1>1, CallMoves, WhereCallsAre
  <2> QED
    BY <1>1, <1>2, <2>1 DEF Awaited
<1>7. FlightOK'
  BY WhereCallsAre DEF FlightOK
<1> QED
  BY <1>1, <1>4, <1>5, <1>6, <1>7, WhereCallsAre, BrowserKeeps

\* While a call is on its way no other clears the same flags.
LEMMA CallsDiffer ==
  ASSUME CallsInv, NEW c \in Asking, NEW d \in Asking, c # d
  PROVE  Flags[purpose[c]] \cap Flags[purpose[d]] = {}
BY DEF CallsInv, FlagsOK, Asking

LEMMA CheckIsAlone ==
  ASSUME CallsInv, toBrowser # <<>>, toBrowser' = Tail(toBrowser), NEW m, m = Head(toBrowser),
         m.what.do = "check", flight # "change"
  PROVE  waiting = Nothing
<1>1. SUFFICES ASSUME waiting # Nothing PROVE FALSE
  OBVIOUS
<1>2. purpose[waiting] = "lists"
  <2>1. FlightOK
    BY WhereCallsAre
  <2> QED
    BY <1>1, <2>1 DEF FlightOK
<1>3. purpose[m.id] = "lists" /\ m.id \in Ids(toBrowser)
  BY CallTaken DEF Wants
<1>4. Placed(Asking, Ids(toBrowser), Parsed, Ids(worker), Ids(fromWorker), Ids(toPage), Awaited)
  BY WhereCallsAre
<1>5. waiting \in Awaited
  BY <1>1 DEF Awaited
<1>6. waiting \in Asking /\ m.id \in Asking /\ waiting # m.id
  BY <1>3, <1>4, <1>5 DEF Placed
<1>7. Flags["lists"] \cap Flags["lists"] = {}
  BY <1>2, <1>3, <1>6, CallsDiffer
<1> QED
  BY <1>7 DEF Flags

\* Each handler of a call leaves every call with one place.
LEMMA GetKeepsCalls ==
  ASSUME CallsInv, toBrowser # <<>>, toBrowser' = Tail(toBrowser), NEW m, m = Head(toBrowser),
         GetState(m), UNCHANGED <<pageVars, lists, fromWorker, left>>
  PROVE  CallsInv'
<1>1. m.what.do = "get" /\ SendState(m.id, flight # "idle")
  BY DEF GetState
<1>2. UNCHANGED <<purpose, flags, parsing, flight, waiting, fromWorker, toPage>>
  BY DEF GetState, pageVars
<1>3. purpose[m.id] \in {"refresh", "imported"}
  BY <1>1, CallTaken DEF Wants
<1>4. purpose[m.id] \in StateCalls
  BY <1>3 DEF StateCalls
<1>5. Once(toPage') /\ Ids(toPage') = Ids(toPage) /\ Answered(ToSet(toPage'), purpose)
  BY <1>2, WhereCallsAre
<1> QED
  BY <1>1, <1>2, <1>4, <1>5, CallToWorker

LEMMA ChangeKeepsCalls ==
  ASSUME CallsInv, toBrowser # <<>>, toBrowser' = Tail(toBrowser), NEW m, m = Head(toBrowser),
         ChangeSettings(m), UNCHANGED <<pageVars, lists, fromWorker, left>>
  PROVE  CallsInv'
<1>1. m.what.do \in {"exception", "domain", "remove"} /\ Send(Told) /\ SendState(m.id, flight # "idle")
  BY DEF ChangeSettings
<1>2. UNCHANGED <<purpose, flags, parsing, flight, waiting, fromWorker>>
  BY DEF ChangeSettings, pageVars
<1>3. purpose[m.id] \in {"exception", "domains"}
  BY <1>1, CallTaken DEF Wants
<1>4. purpose[m.id] \in StateCalls
  BY <1>3 DEF StateCalls
<1>5. Once(toPage') /\ Ids(toPage') = Ids(toPage) /\ Answered(ToSet(toPage'), purpose)
  <2>1. Once(toPage) /\ Answered(ToSet(toPage), purpose)
    BY WhereCallsAre
  <2> QED
    BY <1>1, <2>1, ToldIs
<1> QED
  BY <1>1, <1>2, <1>4, <1>5, CallToWorker

LEMMA RefuseKeepsCalls ==
  ASSUME CallsInv, toBrowser # <<>>, toBrowser' = Tail(toBrowser), NEW m, m = Head(toBrowser),
         RefuseDomain(m), UNCHANGED <<pageVars, lists, fromWorker, left>>
  PROVE  CallsInv'
<1>1. m.what.do = "domain" /\ Send(<<Rejected(m.id)>>)
  BY DEF RefuseDomain, Refused
<1>2. UNCHANGED <<purpose, flags, parsing, flight, waiting, worker, fromWorker>>
  BY DEF RefuseDomain, pageVars
<1>3. purpose[m.id] \notin {"refresh", "imported"}
  BY <1>1, CallTaken DEF Wants
<1> QED
  BY <1>1, <1>2, <1>3, CallRefused

LEMMA CheckWaitsKeepsCalls ==
  ASSUME CallsInv, toBrowser # <<>>, toBrowser' = Tail(toBrowser), NEW m, m = Head(toBrowser),
         CheckWaits(m), UNCHANGED <<pageVars, lists, fromWorker, left>>
  PROVE  CallsInv'
<1>1. /\ m.what.do = "check" /\ flight # "change" /\ flight' = "update" /\ waiting' = m.id
      /\ Send(IF flight = "idle" THEN <<ChangeEvent>> ELSE <<>>)
  BY DEF CheckWaits
<1>2. UNCHANGED <<purpose, flags, parsing, worker, fromWorker>>
  BY DEF CheckWaits, pageVars
<1>3. waiting = Nothing
  BY <1>1, CheckIsAlone
<1>4. purpose[m.id] = "lists"
  BY <1>1, CallTaken DEF Wants
<1>5. Once(toPage') /\ Ids(toPage') = Ids(toPage) /\ Answered(ToSet(toPage'), purpose)
  <2>1. Once(toPage) /\ Answered(ToSet(toPage), purpose)
    BY WhereCallsAre
  <2>2. toPage' = toPage \o <<>> \/ toPage' = toPage \o <<ChangeEvent>>
    BY <1>1 DEF Send
  <2>3. toPage' = toPage \/ toPage' = Append(toPage, ChangeEvent)
    BY <2>1, <2>2, Sends
  <2> QED
    BY <2>1, <2>3, EventSent
<1>6. purpose[m.id] = IF flight' = "update" THEN "lists" ELSE "subscription"
  BY <1>1, <1>4
<1>7. flight' \in {"update", "change"}
  BY <1>1
<1> QED
  BY <1>1, <1>2, <1>3, <1>5, <1>6, <1>7, CallWaits

LEMMA CheckEndsKeepsCalls ==
  ASSUME CallsInv, toBrowser # <<>>, toBrowser' = Tail(toBrowser), NEW m, m = Head(toBrowser),
         CheckEnds(m), UNCHANGED <<pageVars, lists, fromWorker, left>>
  PROVE  CallsInv'
<1>1. m.what.do = "check" /\ SendState(m.id, TRUE)
  BY DEF CheckEnds
<1>2. UNCHANGED <<purpose, flags, parsing, flight, waiting, fromWorker, toPage>>
  BY DEF CheckEnds, pageVars
<1>3. purpose[m.id] = "lists"
  BY <1>1, CallTaken DEF Wants
<1>4. purpose[m.id] \in StateCalls
  BY <1>3 DEF StateCalls
<1>5. Once(toPage') /\ Ids(toPage') = Ids(toPage) /\ Answered(ToSet(toPage'), purpose)
  BY <1>2, WhereCallsAre
<1> QED
  BY <1>1, <1>2, <1>4, <1>5, CallToWorker

LEMMA SubscriptionKeepsCalls ==
  ASSUME CallsInv, toBrowser # <<>>, toBrowser' = Tail(toBrowser), NEW m, m = Head(toBrowser),
         ChangeSubscription(m), UNCHANGED <<pageVars, lists, fromWorker, left>>
  PROVE  CallsInv'
<1>1. purpose[m.id] = "subscription"
  <2>1. m.what.do = "subscription"
    BY DEF ChangeSubscription
  <2> QED
    BY <2>1, CallTaken DEF Wants
<1>2. UNCHANGED <<purpose, flags, parsing, worker, fromWorker>>
  BY DEF ChangeSubscription, pageVars
<1>3. CASE flight = "idle"
  <2>1. flight' = "change" /\ waiting' = m.id /\ Send(<<ChangeEvent>>)
    BY <1>3 DEF ChangeSubscription
  <2>2. waiting = Nothing
    <3>1. FlightOK
      BY WhereCallsAre
    <3> QED
      BY <1>3, <3>1 DEF FlightOK
  <2>3. Once(toPage') /\ Ids(toPage') = Ids(toPage) /\ Answered(ToSet(toPage'), purpose)
    <3>1. Once(toPage) /\ Answered(ToSet(toPage), purpose)
      BY WhereCallsAre
    <3>2. toPage' = Append(toPage, ChangeEvent)
      BY <2>1, <3>1, Sends DEF Send
    <3> QED
      BY <3>1, <3>2, EventSent
  <2>4. /\ purpose[m.id] = IF flight' = "update" THEN "lists" ELSE "subscription"
        /\ flight' \in {"update", "change"}
    BY <1>1, <2>1
  <2> QED
    BY <1>2, <2>1, <2>2, <2>3, <2>4, CallWaits
<1>4. CASE flight # "idle"
  <2>1. Send(<<Rejected(m.id)>>) /\ UNCHANGED <<flight, waiting>>
    BY <1>4 DEF ChangeSubscription
  <2>2. purpose[m.id] \notin {"refresh", "imported"}
    BY <1>1
  <2> QED
    BY <1>2, <2>1, <2>2, CallRefused
<1> QED
  BY <1>3, <1>4

LEMMA ReadKeepsCalls ==
  ASSUME CallsInv, toBrowser # <<>>, toBrowser' = Tail(toBrowser), NEW m, m = Head(toBrowser),
         ReadFileOf(m), UNCHANGED <<pageVars, lists, fromWorker, left>>
  PROVE  CallsInv'
<1>1. m.what.do \in {"preview", "import"} /\ parsing' = parsing \cup {m}
  BY DEF ReadFileOf
<1>2. UNCHANGED <<purpose, flags, toPage, flight, waiting, worker, fromWorker>>
  BY DEF ReadFileOf, pageVars
<1> QED
  BY <1>1, <1>2, CallIsRead

LEMMA ReceivesKeepsCalls == ASSUME CallsInv, Receives PROVE CallsInv'
<1> DEFINE m == Head(toBrowser)
<1>1. /\ toBrowser # <<>> /\ toBrowser' = Tail(toBrowser) /\ UNCHANGED <<pageVars, lists, fromWorker, left>>
      /\ \/ GetState(m) \/ ChangeSettings(m) \/ RefuseDomain(m)
         \/ CheckWaits(m) \/ CheckEnds(m) \/ ChangeSubscription(m)
         \/ ReadFileOf(m)
  BY DEF Receives
<1> HIDE DEF m
<1>2. m = Head(toBrowser)
  BY DEF m
<1>3. CASE GetState(m)
  BY <1>1, <1>2, <1>3, GetKeepsCalls
<1>4. CASE ChangeSettings(m)
  BY <1>1, <1>2, <1>4, ChangeKeepsCalls
<1>5. CASE RefuseDomain(m)
  BY <1>1, <1>2, <1>5, RefuseKeepsCalls
<1>6. CASE CheckWaits(m)
  BY <1>1, <1>2, <1>6, CheckWaitsKeepsCalls
<1>7. CASE CheckEnds(m)
  BY <1>1, <1>2, <1>7, CheckEndsKeepsCalls
<1>8. CASE ChangeSubscription(m)
  BY <1>1, <1>2, <1>8, SubscriptionKeepsCalls
<1>9. CASE ReadFileOf(m)
  BY <1>1, <1>2, <1>9, ReadKeepsCalls
<1> QED
  BY <1>1, <1>3, <1>4, <1>5, <1>6, <1>7, <1>8, <1>9

\* The answer the parser gives, and what else the reply may bring with it.
LEMMA ParsedKeepsCalls ==
  ASSUME CallsInv, NEW m \in parsing, FileIsParsed(m)
  PROVE  CallsInv'
<1>1. /\ parsing' = parsing \ {m} /\ m.what.do \in {"preview", "import"}
      /\ UNCHANGED <<purpose, flags, toBrowser, flight, waiting, worker, fromWorker>>
  BY DEF FileIsParsed, pageVars, workerVars
<1>2. HasId(m) /\ m.what.do \in DOMAIN Wants /\ purpose[m.id] \in Wants[m.what.do]
  <2>1. Asked(parsing, purpose)
    BY WhereCallsAre
  <2> QED
    BY <2>1 DEF Asked
<1>3. purpose[m.id] \notin {"refresh", "imported"}
  BY <1>1, <1>2 DEF Wants
<1>4. m.id \in Parsed
  BY DEF Parsed
<1>5. m.id \notin Ids(toPage) /\ Once(toPage) /\ Answered(ToSet(toPage), purpose)
  <2>1. Placed(Asking, Ids(toBrowser), Parsed, Ids(worker), Ids(fromWorker), Ids(toPage), Awaited)
    BY WhereCallsAre
  <2>2. m.id \notin Ids(toPage)
    BY <1>4, <2>1 DEF Placed
  <2> QED
    BY <2>2, WhereCallsAre
<1>6. /\ Once(toPage') /\ Ids(toPage') = Ids(toPage) \cup {m.id}
      /\ Answered(ToSet(toPage'), purpose)
  <2>1. PICK r : /\ r = Rejected(m.id) \/ r = Resolved(m.id, "added")
                      \/ r = Resolved(m.id, Additions(m.what.file))
                 /\ \/ Send(<<r>>) \/ Send(Told \o <<r>>)
    <3>1. CASE m.what.do = "import"
      BY <1>1, <3>1 DEF FileIsParsed
    <3>2. CASE m.what.do = "preview"
      BY <1>1, <3>2 DEF FileIsParsed
    <3> QED
      BY <1>1, <3>1, <3>2
  <2>2. HasId(r) /\ r.id = m.id /\ r.event = FALSE
    BY <2>1, EventsAre
  <2>3. toPage' = Append(toPage, r) \/ toPage' = Append(Append(toPage, ChangeEvent), r)
    <3>1. CASE Send(<<r>>)
      BY <1>5, <3>1, Sends DEF Send
    <3>2. CASE Send(Told \o <<r>>)
      <4>1. Told = <<>> \/ Told = <<ChangeEvent>>
        BY DEF Told
      <4>2. toPage' = toPage \o (Told \o <<r>>)
        BY <3>2 DEF Send
      <4> HIDE DEF Told
      <4>3. CASE Told = <<>>
        BY <1>5, <4>2, <4>3, Sends
      <4>4. CASE Told = <<ChangeEvent>>
        BY <1>5, <4>2, <4>4, Sends
      <4> QED
        BY <4>1, <4>3, <4>4
    <3> QED
      BY <2>1, <3>1, <3>2
  <2>4. CASE toPage' = Append(toPage, r)
    BY <1>3, <1>5, <2>2, <2>4, AnswerSent
  <2>5. CASE toPage' = Append(Append(toPage, ChangeEvent), r)
    <3> DEFINE s == Append(toPage, ChangeEvent)
    <3>1. Once(s) /\ Ids(s) = Ids(toPage) /\ Answered(ToSet(s), purpose)
      BY <1>5, EventSent
    <3>2. toPage' = Append(s, r)
      BY <2>5
    <3> HIDE DEF s
    <3>3. /\ r.id \notin Ids(s)
          /\ purpose[r.id] \in {"refresh", "imported"} => r.ok
      BY <1>3, <1>5, <2>2, <3>1
    <3>4. /\ Once(Append(s, r)) /\ Ids(Append(s, r)) = Ids(s) \cup {r.id}
          /\ Answered(ToSet(Append(s, r)), purpose)
      BY <2>2, <3>1, <3>3, AnswerSent
    <3> QED
      BY <2>2, <3>1, <3>2, <3>4
  <2> QED
    BY <2>3, <2>4, <2>5
<1>7. Parsed' = Parsed \ {m.id}
  <2>1. \A n \in parsing : n.id = m.id => n = m
    BY WhereCallsAre
  <2> QED
    BY <1>1, <2>1 DEF Parsed
<1>8. Placed(Asking, Ids(toBrowser'), Parsed', Ids(worker'), Ids(fromWorker'), Ids(toPage'), Awaited')
  <2>1. Placed(Asking, Ids(toBrowser), Parsed \ {m.id}, Ids(worker), Ids(fromWorker),
               Ids(toPage) \cup {m.id}, Awaited)
    BY <1>4, CallMoves, WhereCallsAre
  <2> QED
    BY <1>1, <1>6, <1>7, <2>1 DEF Awaited
<1>9. /\ \A n, o \in parsing' : n.id = o.id => n = o
      /\ \A n \in parsing' : n.what.do \in {"preview", "import"}
  BY <1>1, WhereCallsAre
<1>10. Asked(parsing', purpose) /\ FlightOK'
  BY <1>1, WhereCallsAre, Fewer DEF FlightOK
<1> QED
  BY <1>1, <1>6, <1>8, <1>9, <1>10, WhereCallsAre, BrowserKeeps

\* The calls stay where they are, and the page may be told of a change.
LEMMA EventKeepsCalls ==
  ASSUME CallsInv, UNCHANGED <<purpose, flags, toBrowser, parsing, waiting, worker, fromWorker>>,
         Once(toPage'), Ids(toPage') = Ids(toPage), Answered(ToSet(toPage'), purpose), FlightOK'
  PROVE  CallsInv'
<1>1. Placed(Asking, Ids(toBrowser'), Parsed', Ids(worker'), Ids(fromWorker'), Ids(toPage'), Awaited')
  BY WhereCallsAre DEF Parsed, Awaited
<1> QED
  BY <1>1, WhereCallsAre, BrowserKeeps

LEMMA StartsKeepsCalls == ASSUME CallsInv, FlightStarts PROVE CallsInv'
<1>1. /\ flight = "idle" /\ flight' \in {"update", "change"} /\ Send(<<ChangeEvent>>)
      /\ UNCHANGED <<purpose, flags, toBrowser, parsing, waiting, worker, fromWorker>>
  BY DEF FlightStarts, pageVars, workerVars
<1>2. Once(toPage) /\ Answered(ToSet(toPage), purpose) /\ FlightOK
  BY WhereCallsAre
<1>3. toPage' = Append(toPage, ChangeEvent)
  BY <1>1, <1>2, Sends DEF Send
<1>4. FlightOK'
  BY <1>1, <1>2 DEF FlightOK
<1> QED
  BY <1>1, <1>2, <1>3, <1>4, EventSent, EventKeepsCalls

LEMMA OtherKeepsCalls == ASSUME CallsInv, OtherPageChanges PROVE CallsInv'
<1>1. /\ Send(Told)
      /\ UNCHANGED <<purpose, flags, toBrowser, parsing, flight, waiting, worker, fromWorker>>
  BY DEF OtherPageChanges, pageVars, workerVars
<1>2. Once(toPage) /\ Answered(ToSet(toPage), purpose) /\ FlightOK
  BY WhereCallsAre
<1>3. Once(toPage') /\ Ids(toPage') = Ids(toPage) /\ Answered(ToSet(toPage'), purpose)
  BY <1>1, <1>2, ToldIs
<1>4. FlightOK'
  BY <1>1, <1>2 DEF FlightOK
<1> QED
  BY <1>1, <1>3, <1>4, EventKeepsCalls

LEMMA WritesKeepsCalls == ASSUME CallsInv, FlightWrites PROVE CallsInv'
<1> DEFINE t == [do |-> "write"]
<1>1. /\ worker' = Append(worker, t)
      /\ UNCHANGED <<purpose, flags, toBrowser, toPage, parsing, flight, waiting, fromWorker>>
  BY DEF FlightWrites, pageVars
<1>2. ~HasId(t) /\ t.do = "write"
  BY DEF HasId
<1> HIDE DEF t
<1>3. Once(worker) /\ Composed(ToSet(worker), purpose) /\ FlightOK
  BY WhereCallsAre
<1>4. Once(worker') /\ Ids(worker') = Ids(worker) /\ ToSet(worker') = ToSet(worker) \cup {t}
  BY <1>1, <1>2, <1>3, Appends
<1>5. Composed(ToSet(worker'), purpose)
  BY <1>2, <1>3, <1>4 DEF Composed
<1>6. Placed(Asking, Ids(toBrowser'), Parsed', Ids(worker'), Ids(fromWorker'), Ids(toPage'), Awaited')
  BY <1>1, <1>4, WhereCallsAre DEF Parsed, Awaited
<1>7. FlightOK'
  BY <1>1, <1>3 DEF FlightOK
<1> QED
  BY <1>1, <1>4, <1>5, <1>6, <1>7, WhereCallsAre, BrowserKeeps

\* The task of a call, or a write, moves from the worker to its replies.
LEMMA WorkerKeepsCalls == ASSUME CallsInv, WorkerRuns PROVE CallsInv'
<1> DEFINE t == Head(worker)
<1>1. /\ worker # <<>> /\ worker' = Tail(worker)
      /\ UNCHANGED <<purpose, flags, toBrowser, toPage, parsing, flight, waiting>>
  BY DEF WorkerRuns, pageVars
<1>2. /\ Once(worker) /\ Composed(ToSet(worker), purpose) /\ FlightOK
      /\ Once(fromWorker) /\ Composed(ToSet(fromWorker), purpose)
      /\ Placed(Asking, Ids(toBrowser), Parsed, Ids(worker), Ids(fromWorker), Ids(toPage), Awaited)
  BY WhereCallsAre
<1>3. PICK r : /\ fromWorker' = Append(fromWorker, r) /\ r.do = t.do /\ r.do \in {"read", "write"}
               /\ HasId(r) <=> r.do = "read"
               /\ HasId(r) => r.id = t.id
  <2>1. CASE t.do = "read" /\ fromWorker' = Append(fromWorker, WithLists(t))
    <3> DEFINE r == WithLists(t)
    <3>1. r.do = "read" /\ r.id = t.id /\ HasId(r)
      BY DEF WithLists, HasId
    <3> QED
      BY <2>1, <3>1
  <2>2. ASSUME NEW ok \in BOOLEAN, t.do = "write",
               fromWorker' = Append(fromWorker, [do |-> "write", ok |-> ok])
        PROVE  \E r : /\ fromWorker' = Append(fromWorker, r) /\ r.do = t.do
                      /\ r.do \in {"read", "write"} /\ (HasId(r) <=> r.do = "read")
                      /\ HasId(r) => r.id = t.id
    <3> DEFINE r == [do |-> "write", ok |-> ok]
    <3>1. r.do = "write" /\ ~HasId(r)
      BY DEF HasId
    <3> QED
      BY <2>2, <3>1
  <2> QED
    BY <2>1, <2>2 DEF WorkerRuns
<1>4. /\ t \in ToSet(worker) /\ Once(worker') /\ ToSet(worker') \subseteq ToSet(worker)
      /\ Ids(worker') = IF HasId(t) THEN Ids(worker) \ {t.id} ELSE Ids(worker)
      /\ HasId(t) => t.id \in Ids(worker)
  BY <1>1, <1>2, Tails
<1> HIDE DEF t
<1>5. /\ HasId(t) <=> t.do = "read"
      /\ HasId(t) => purpose[t.id] \in StateCalls
  BY <1>2, <1>4 DEF Composed
<1>6. Composed(ToSet(worker'), purpose)
  BY <1>2, <1>4, Fewer
<1>7. CASE HasId(t)
  <2>1. HasId(r) /\ r.id = t.id /\ r.id \notin Ids(fromWorker)
    <3>1. Ids(worker) \cap Ids(fromWorker) = {}
      BY <1>2 DEF Placed
    <3> QED
      BY <1>3, <1>4, <1>5, <1>7, <3>1
  <2>2. /\ Once(fromWorker') /\ Ids(fromWorker') = Ids(fromWorker) \cup {t.id}
        /\ ToSet(fromWorker') = ToSet(fromWorker) \cup {r}
    BY <1>2, <1>3, <2>1, Appends
  <2>3. Composed(ToSet(fromWorker'), purpose)
    BY <1>2, <1>3, <1>5, <1>7, <2>1, <2>2 DEF Composed
  <2>4. Placed(Asking, Ids(toBrowser), Parsed, Ids(worker) \ {t.id}, Ids(fromWorker) \cup {t.id},
               Ids(toPage), Awaited)
    BY <1>2, <1>4, <1>7, CallMoves
  <2>5. Placed(Asking, Ids(toBrowser'), Parsed', Ids(worker'), Ids(fromWorker'), Ids(toPage'),
               Awaited')
    BY <1>1, <1>4, <1>7, <2>2, <2>4 DEF Parsed, Awaited
  <2>6. FlightOK'
    BY <1>1, <1>2 DEF FlightOK
  <2> QED
    BY <1>1, <1>4, <1>6, <2>2, <2>3, <2>5, <2>6, WhereCallsAre, BrowserKeeps
<1>8. CASE ~HasId(t)
  <2>1. ~HasId(r) /\ r.do = "write"
    BY <1>3, <1>5, <1>8
  <2>2. /\ Once(fromWorker') /\ Ids(fromWorker') = Ids(fromWorker)
        /\ ToSet(fromWorker') = ToSet(fromWorker) \cup {r}
    BY <1>2, <1>3, <2>1, Appends
  <2>3. Composed(ToSet(fromWorker'), purpose)
    BY <1>2, <2>1, <2>2 DEF Composed
  <2>4. Placed(Asking, Ids(toBrowser'), Parsed', Ids(worker'), Ids(fromWorker'), Ids(toPage'),
               Awaited')
    BY <1>1, <1>2, <1>4, <1>8, <2>2 DEF Parsed, Awaited
  <2>5. FlightOK'
    BY <1>1, <1>2 DEF FlightOK
  <2> QED
    BY <1>1, <1>4, <1>6, <2>2, <2>3, <2>4, <2>5, WhereCallsAre, BrowserKeeps
<1> QED
  BY <1>7, <1>8

\* The coordinator is done: the call that waited is refused, or asks for the state.
LEMMA EndsKeepsCalls ==
  ASSUME CallsInv, NEW ok, FlightEnds(ok), Once(fromWorker'), Ids(fromWorker') = Ids(fromWorker),
         Composed(ToSet(fromWorker'), purpose)
  PROVE  CallsInv'
<1>1. /\ flight' = "idle" /\ waiting' = Nothing
      /\ UNCHANGED <<purpose, flags, toBrowser, parsing>>
  BY DEF FlightEnds, pageVars
<1>2. /\ Once(worker) /\ Composed(ToSet(worker), purpose) /\ FlightOK
      /\ Once(toPage) /\ Answered(ToSet(toPage), purpose)
      /\ Placed(Asking, Ids(toBrowser), Parsed, Ids(worker), Ids(fromWorker), Ids(toPage), Awaited)
  BY WhereCallsAre
<1> DEFINE s == Append(toPage, ChangeEvent)
<1>3. Once(s) /\ Ids(s) = Ids(toPage) /\ Answered(ToSet(s), purpose)
  BY <1>2, EventSent
<1>4. FlightOK' /\ Awaited' = {}
  BY <1>1 DEF FlightOK, Awaited
<1>5. CASE waiting = Nothing
  <2>1. Send(<<ChangeEvent>>) /\ UNCHANGED worker
    BY <1>5 DEF FlightEnds
  <2>2. toPage' = s
    BY <1>2, <2>1, Sends DEF Send
  <2>3. Awaited = {}
    BY <1>5 DEF Awaited
  <2> HIDE DEF s
  <2>4. Placed(Asking, Ids(toBrowser'), Parsed', Ids(worker'), Ids(fromWorker'), Ids(toPage'),
               Awaited')
    BY <1>1, <1>2, <1>3, <1>4, <2>1, <2>2, <2>3 DEF Parsed
  <2> QED
    BY <1>1, <1>2, <1>3, <1>4, <2>1, <2>2, <2>4, WhereCallsAre, BrowserKeeps
<1>6. CASE waiting # Nothing
  <2>1. waiting \in Awaited /\ Awaited \ {waiting} = {}
    BY <1>6 DEF Awaited
  <2>2. waiting \notin Ids(worker) /\ waiting \notin Ids(toPage)
    BY <1>2, <2>1 DEF Placed
  <2>3. purpose[waiting] \in {"lists", "subscription"}
    BY <1>2, <1>6 DEF FlightOK
  <2>4. CASE flight = "change" /\ ~ok
    <3> DEFINE r == Rejected(waiting)
    <3>1. HasId(r) /\ r.id = waiting /\ r.event = FALSE
      BY EventsAre
    <3> HIDE DEF r
    <3>2. toPage' = toPage \o <<ChangeEvent, r>> /\ UNCHANGED worker
      BY <1>6, <2>4 DEF FlightEnds, Send, r
    <3>3. toPage' = Append(s, r)
      BY <1>2, <3>2, Sends
    <3> HIDE DEF s
    <3>4. /\ Once(toPage') /\ Ids(toPage') = Ids(toPage) \cup {waiting}
          /\ Answered(ToSet(toPage'), purpose)
      <4>1. r.id \notin Ids(s) /\ purpose[r.id] \notin {"refresh", "imported"}
        BY <1>3, <2>2, <2>3, <3>1
      <4> QED
        BY <1>3, <3>1, <3>3, <4>1, AnswerSent
    <3>5. Placed(Asking, Ids(toBrowser), Parsed, Ids(worker), Ids(fromWorker),
                 Ids(toPage) \cup {waiting}, Awaited \ {waiting})
      BY <1>2, <2>1, CallMoves
    <3>6. Placed(Asking, Ids(toBrowser'), Parsed', Ids(worker'), Ids(fromWorker'), Ids(toPage'),
                 Awaited')
      BY <1>1, <1>4, <2>1, <3>2, <3>4, <3>5 DEF Parsed
    <3> QED
      BY <1>1, <1>2, <1>4, <3>2, <3>4, <3>6, WhereCallsAre, BrowserKeeps
  <2>5. CASE ~(flight = "change" /\ ~ok)
    <3>1. Send(<<ChangeEvent>>) /\ SendState(waiting, FALSE)
      BY <1>6, <2>5 DEF FlightEnds
    <3>2. toPage' = s
      BY <1>2, <3>1, Sends DEF Send
    <3> HIDE DEF s
    <3>3. purpose[waiting] \in StateCalls
      BY <2>3 DEF StateCalls
    <3>4. /\ Once(worker') /\ Ids(worker') = Ids(worker) \cup {waiting}
          /\ Composed(ToSet(worker'), purpose)
      BY <2>2, <3>1, <3>3, StateSent
    <3>5. Placed(Asking, Ids(toBrowser), Parsed, Ids(worker) \cup {waiting}, Ids(fromWorker),
                 Ids(toPage), Awaited \ {waiting})
      BY <1>2, <2>1, CallMoves
    <3>6. Placed(Asking, Ids(toBrowser'), Parsed', Ids(worker'), Ids(fromWorker'), Ids(toPage'),
                 Awaited')
      BY <1>1, <1>3, <1>4, <2>1, <3>2, <3>4, <3>5 DEF Parsed
    <3> QED
      BY <1>1, <1>3, <1>4, <3>2, <3>4, <3>6, WhereCallsAre, BrowserKeeps
  <2> QED
    BY <2>4, <2>5
<1> QED
  BY <1>5, <1>6

LEMMA FailsKeepsCalls == ASSUME CallsInv, DownloadFails PROVE CallsInv'
<1>1. FlightEnds(FALSE) /\ fromWorker' = fromWorker
  BY DEF DownloadFails
<1> QED
  BY <1>1, WhereCallsAre, EndsKeepsCalls

LEMMA ReplyKeepsCalls == ASSUME CallsInv, ReplyRuns PROVE CallsInv'
<1> DEFINE r == Head(fromWorker)
<1>1. fromWorker # <<>> /\ fromWorker' = Tail(fromWorker)
  BY DEF ReplyRuns
<1>2. /\ Once(fromWorker) /\ Composed(ToSet(fromWorker), purpose) /\ FlightOK
      /\ Once(toPage) /\ Answered(ToSet(toPage), purpose)
      /\ Placed(Asking, Ids(toBrowser), Parsed, Ids(worker), Ids(fromWorker), Ids(toPage), Awaited)
  BY WhereCallsAre
<1>3. /\ r \in ToSet(fromWorker) /\ Once(fromWorker') /\ ToSet(fromWorker') \subseteq ToSet(fromWorker)
      /\ Ids(fromWorker') = IF HasId(r) THEN Ids(fromWorker) \ {r.id} ELSE Ids(fromWorker)
      /\ HasId(r) => r.id \in Ids(fromWorker)
  BY <1>1, <1>2, Tails
<1>4. \/ /\ r.do = "read" /\ Send(<<Resolved(r.id, State(r))>>)
         /\ UNCHANGED <<pageVars, toBrowser, parsing, flight, waiting, worker>>
      \/ r.do = "write" /\ FlightEnds(r.ok)
  BY DEF ReplyRuns
<1> HIDE DEF r
<1>5. HasId(r) <=> r.do = "read"
  BY <1>2, <1>3 DEF Composed
<1>6. Composed(ToSet(fromWorker'), purpose)
  BY <1>2, <1>3, Fewer
<1>7. CASE r.do = "write" /\ FlightEnds(r.ok)
  BY <1>3, <1>5, <1>6, <1>7, EndsKeepsCalls
<1>8. CASE /\ r.do = "read" /\ Send(<<Resolved(r.id, State(r))>>)
           /\ UNCHANGED <<pageVars, toBrowser, parsing, flight, waiting, worker>>
  <2> DEFINE m == Resolved(r.id, State(r))
  <2>1. HasId(m) /\ m.id = r.id /\ m.event = FALSE /\ m.ok = TRUE
    BY EventsAre
  <2> HIDE DEF m
  <2>2. toPage' = toPage \o <<m>>
    BY <1>8 DEF Send, m
  <2>3. toPage' = Append(toPage, m)
    BY <1>2, <2>2, Sends
  <2>4. r.id \in Ids(fromWorker) /\ r.id \notin Ids(toPage)
    <3>1. r.id \in Ids(fromWorker)
      BY <1>3, <1>5, <1>8
    <3> QED
      BY <1>2, <3>1 DEF Placed
  <2>5. /\ Once(toPage') /\ Ids(toPage') = Ids(toPage) \cup {r.id}
        /\ Answered(ToSet(toPage'), purpose)
    BY <1>2, <2>1, <2>3, <2>4, AnswerSent
  <2>6. Placed(Asking, Ids(toBrowser), Parsed, Ids(worker), Ids(fromWorker) \ {r.id},
               Ids(toPage) \cup {r.id}, Awaited)
    BY <1>2, <2>4, CallMoves
  <2>7. UNCHANGED <<purpose, flags, toBrowser, parsing, flight, waiting, worker>>
    BY <1>8 DEF pageVars
  <2>8. Placed(Asking, Ids(toBrowser'), Parsed', Ids(worker'), Ids(fromWorker'), Ids(toPage'),
               Awaited')
    BY <1>3, <1>5, <1>8, <2>5, <2>6, <2>7 DEF Parsed, Awaited
  <2>9. FlightOK'
    BY <1>2, <2>7 DEF FlightOK
  <2> QED
    BY <1>3, <1>6, <2>5, <2>7, <2>8, <2>9, WhereCallsAre, BrowserKeeps
<1> QED
  BY <1>4, <1>7, <1>8

-----------------------------------------------------------------------------
(* What the page does *)

\* The page makes a call, and takes nothing.
LEMMA UserCalls ==
  ASSUME CallsInv, NEW id \in Calls, NEW what, NEW for \in DOMAIN Flags,
         Call(id, what, for), what.do \in DOMAIN Wants, for \in Wants[what.do],
         Flags[for] \cap flags = {}, flags' = flags \cup Flags[for],
         UNCHANGED <<toPage, parsing, flight, waiting, workerVars>>
  PROVE  /\ CallsInv' /\ (\A c \in Asking : purpose'[c] = purpose[c])
         /\ ToSet(toBrowser') = ToSet(toBrowser) \cup {[id |-> id, what |-> what]}
<1>1. UNCHANGED <<parsing, worker, fromWorker, waiting, flight>> /\ toPage' = toPage
  BY DEF workerVars
<1>2. /\ CallsInv' /\ purpose'[id] = for /\ \A c \in Calls \ {id} : purpose'[c] = purpose[c]
      /\ id \notin Asking /\ ToSet(toBrowser') = ToSet(toBrowser) \cup {[id |-> id, what |-> what]}
  BY <1>1, CallMade
<1> QED
  BY <1>2 DEF Asking

\* An import on its way has its flags to itself.
LEMMA ImportsAsk ==
  ASSUME CallsInv, NEW m \in ToSet(toBrowser) \cup parsing, m.what.do = "import"
  PROVE  m.id \in Asking /\ purpose[m.id] = "import" /\ "reading" \in flags
<1>1. HasId(m) /\ purpose[m.id] \in Wants[m.what.do]
  BY WhereCallsAre DEF Asked
<1>2. purpose[m.id] = "import"
  BY <1>1 DEF Wants
<1>3. m.id \in Ids(toBrowser) \/ m.id \in Parsed
  BY <1>1 DEF Ids, Parsed
<1>4. m.id \in Asking
  BY <1>3, WhereCallsAre DEF Placed
<1>5. Flags["import"] \subseteq flags
  BY <1>2, <1>4 DEF CallsInv, FlagsOK, Asking
<1> QED
  BY <1>2, <1>4, <1>5 DEF Flags

LEMMA ImportsAlone ==
  ASSUME CallsInv, NEW id \in Asking, purpose[id] \in {"preview", "imported"},
         NEW m \in ToSet(toBrowser) \cup parsing
  PROVE  m.what.do # "import"
<1>1. SUFFICES ASSUME m.what.do = "import" PROVE FALSE
  OBVIOUS
<1>2. m.id \in Asking /\ purpose[m.id] = "import"
  BY <1>1, ImportsAsk
<1>3. id # m.id
  BY <1>2
<1>4. Flags[purpose[id]] \cap Flags["import"] = {}
  BY <1>2, <1>3, CallsDiffer
<1> QED
  BY <1>4 DEF Flags

LEMMA ImportsKept ==
  ASSUME ImportIsShown, NEW m, ToSet(toBrowser') \subseteq ToSet(toBrowser) \cup {m},
         parsing' = parsing, preview' = preview,
         m.what.do = "import" => preview # Nothing /\ m.what.file = preview.additions
  PROVE  ImportIsShown'
BY DEF ImportIsShown

LEMMA EditKeeps ==
  ASSUME CallsInv, ImportIsShown, NEW what, NEW for \in DOMAIN Flags, Edit(what, for),
         what.do \in DOMAIN Wants, for \in Wants[what.do], what.do # "import",
         UNCHANGED <<toPage, parsing, flight, waiting, workerVars>>
  PROVE  CallsInv' /\ ImportIsShown' /\ \A c \in Asking : purpose'[c] = purpose[c]
<1>1. PICK id \in Calls : Call(id, what, for)
  BY DEF Edit
<1>2. Flags[for] \cap flags = {} /\ flags' = flags \cup Flags[for] /\ preview' = preview
  BY DEF Edit
<1> DEFINE m == [id |-> id, what |-> what]
<1>3. /\ CallsInv' /\ (\A c \in Asking : purpose'[c] = purpose[c])
      /\ ToSet(toBrowser') = ToSet(toBrowser) \cup {m}
  BY <1>1, <1>2, UserCalls
<1>4. m.what.do # "import"
  OBVIOUS
<1> HIDE DEF m
<1>5. ImportIsShown'
  BY <1>2, <1>3, <1>4, ImportsKept
<1> QED
  BY <1>3, <1>5

LEMMA EditsKeep ==
  ASSUME CallsInv, ImportIsShown, EditSettings \/ EditLists,
         UNCHANGED <<toPage, parsing, flight, waiting, workerVars>>
  PROVE  /\ CallsInv' /\ ImportIsShown' /\ (\A c \in Asking : purpose'[c] = purpose[c])
         /\ UNCHANGED <<shown, latest>>
<1>1. ASSUME NEW h \in Hosts, NEW on \in BOOLEAN,
             Edit([do |-> "exception", host |-> h, on |-> on], "exception")
      PROVE  CallsInv' /\ ImportIsShown' /\ \A c \in Asking : purpose'[c] = purpose[c]
  <2> DEFINE what == [do |-> "exception", host |-> h, on |-> on]
  <2>1. Edit(what, "exception") /\ what.do = "exception"
    BY <1>1
  <2> HIDE DEF what
  <2>2. /\ "exception" \in DOMAIN Flags /\ what.do \in DOMAIN Wants /\ "exception" \in Wants[what.do]
        /\ what.do # "import"
    BY <2>1 DEF Wants, Flags
  <2> QED
    BY <2>1, <2>2, EditKeeps
<1>2. ASSUME NEW h \in Hosts, NEW on \in BOOLEAN, NEW replace \in BOOLEAN,
             Edit([do |-> "domain", host |-> h, on |-> on, replace |-> replace], "domains")
      PROVE  CallsInv' /\ ImportIsShown' /\ \A c \in Asking : purpose'[c] = purpose[c]
  <2> DEFINE what == [do |-> "domain", host |-> h, on |-> on, replace |-> replace]
  <2>1. Edit(what, "domains") /\ what.do = "domain"
    BY <1>2
  <2> HIDE DEF what
  <2>2. /\ "domains" \in DOMAIN Flags /\ what.do \in DOMAIN Wants /\ "domains" \in Wants[what.do]
        /\ what.do # "import"
    BY <2>1 DEF Wants, Flags
  <2> QED
    BY <2>1, <2>2, EditKeeps
<1>3. ASSUME NEW H \in SUBSET Hosts,
             Edit([do |-> "remove", hosts |-> H], "domains")
      PROVE  CallsInv' /\ ImportIsShown' /\ \A c \in Asking : purpose'[c] = purpose[c]
  <2> DEFINE what == [do |-> "remove", hosts |-> H]
  <2>1. Edit(what, "domains") /\ what.do = "remove"
    BY <1>3
  <2> HIDE DEF what
  <2>2. /\ "domains" \in DOMAIN Flags /\ what.do \in DOMAIN Wants /\ "domains" \in Wants[what.do]
        /\ what.do # "import"
    BY <2>1 DEF Wants, Flags
  <2> QED
    BY <2>1, <2>2, EditKeeps
<1>4. ASSUME Edit([do |-> "check"], "lists")
      PROVE  CallsInv' /\ ImportIsShown' /\ \A c \in Asking : purpose'[c] = purpose[c]
  <2> DEFINE what == [do |-> "check"]
  <2>1. Edit(what, "lists") /\ what.do = "check"
    BY <1>4
  <2> HIDE DEF what
  <2>2. /\ "lists" \in DOMAIN Flags /\ what.do \in DOMAIN Wants /\ "lists" \in Wants[what.do]
        /\ what.do # "import"
    BY <2>1 DEF Wants, Flags
  <2> QED
    BY <2>1, <2>2, EditKeeps
<1>5. ASSUME Edit([do |-> "subscription"], "subscription")
      PROVE  CallsInv' /\ ImportIsShown' /\ \A c \in Asking : purpose'[c] = purpose[c]
  <2> DEFINE what == [do |-> "subscription"]
  <2>1. Edit(what, "subscription") /\ what.do = "subscription"
    BY <1>5
  <2> HIDE DEF what
  <2>2. /\ "subscription" \in DOMAIN Flags /\ what.do \in DOMAIN Wants /\ "subscription" \in Wants[what.do]
        /\ what.do # "import"
    BY <2>1 DEF Wants, Flags
  <2> QED
    BY <2>1, <2>2, EditKeeps
<1>6. UNCHANGED <<shown, latest>>
  BY DEF EditSettings, EditLists, Edit
<1>7. CASE EditSettings
  BY <1>1, <1>2, <1>3, <1>6, <1>7 DEF EditSettings
<1>8. CASE EditLists
  BY <1>4, <1>5, <1>6, <1>8 DEF EditLists
<1> QED
  BY <1>7, <1>8

\* The file is read while nothing else uses it.
LEMMA AskKeeps ==
  ASSUME CallsInv, NEW f, ~Disabled, AskPreview(f), ImportIsShown,
         preview' = preview \/ preview' = Nothing,
         UNCHANGED <<toPage, parsing, flight, waiting, workerVars>>
  PROVE  CallsInv' /\ ImportIsShown' /\ \A c \in Asking : purpose'[c] = purpose[c]
<1> DEFINE what == [do |-> "preview", file |-> f]
<1>1. PICK id \in Calls : Call(id, what, "preview")
  BY DEF AskPreview
<1>2. "preview" \in DOMAIN Flags /\ Flags["preview"] = {"reading"}
  BY DEF Flags
<1>3. "reading" \notin flags
  BY DEF Disabled
<1>4. what.do = "preview" /\ what.do \in DOMAIN Wants /\ "preview" \in Wants[what.do]
  BY DEF Wants
<1>5. flags' = flags \cup Flags["preview"] /\ Flags["preview"] \cap flags = {}
  BY <1>2, <1>3 DEF AskPreview
<1> HIDE DEF what
<1> DEFINE m == [id |-> id, what |-> what]
<1>6. /\ CallsInv' /\ (\A c \in Asking : purpose'[c] = purpose[c])
      /\ ToSet(toBrowser') = ToSet(toBrowser) \cup {m}
  BY <1>1, <1>2, <1>4, <1>5, UserCalls
<1>7. m.what.do = "preview"
  BY <1>4
<1> HIDE DEF m
<1>8. \A n \in ToSet(toBrowser) \cup parsing : n.what.do # "import"
  BY <1>3, ImportsAsk
<1>9. ImportIsShown'
  BY <1>6, <1>7, <1>8 DEF ImportIsShown
<1> QED
  BY <1>6, <1>9

LEMMA ApplyKeeps ==
  ASSUME CallsInv, ImportIsShown, Apply,
         UNCHANGED <<toPage, parsing, flight, waiting, workerVars>>
  PROVE  CallsInv' /\ ImportIsShown' /\ \A c \in Asking : purpose'[c] = purpose[c]
<1> DEFINE what == [do |-> "import", file |-> Approved]
<1>1. PICK id \in Calls : Call(id, what, "import")
  BY DEF Apply
<1>2. "import" \in DOMAIN Flags /\ Flags["import"] = {"domains", "reading"}
  BY DEF Flags
<1>3. what.do = "import" /\ what.do \in DOMAIN Wants /\ "import" \in Wants[what.do]
  BY DEF Wants
<1>4. what.file = preview.additions /\ preview # Nothing /\ preview' = preview
  BY DEF Apply, Approved
<1>5. flags' = flags \cup Flags["import"] /\ Flags["import"] \cap flags = {}
  <2>1. {"reading", "domains"} \cap flags = {}
    BY DEF Apply, Disabled
  <2>2. flags' = flags \cup {"reading", "domains"}
    BY DEF Apply
  <2> QED
    BY <1>2, <2>1, <2>2
<1> HIDE DEF what
<1> DEFINE m == [id |-> id, what |-> what]
<1>6. /\ CallsInv' /\ (\A c \in Asking : purpose'[c] = purpose[c])
      /\ ToSet(toBrowser') = ToSet(toBrowser) \cup {m}
  BY <1>1, <1>2, <1>3, <1>5, UserCalls
<1>7. m.what.file = preview.additions
  BY <1>4
<1> HIDE DEF m
<1>8. ImportIsShown'
  BY <1>4, <1>6, <1>7, ImportsKept
<1> QED
  BY <1>6, <1>8

\* What a call of the page does not change: what it shows, and what it awaits.
LEMMA AskedKeepsSaved ==
  ASSUME CallsInv, SavedInv, \A c \in Asking : purpose'[c] = purpose[c],
         UNCHANGED <<disabled, blocked, lists, fromWorker, toPage, shown, latest>>
  PROVE  SavedInv'
<1>1. Ids(toPage) \subseteq Asking
  BY WhereCallsAre DEF Placed
<1>2. \A i \in DOMAIN toPage : ~toPage[i].event => purpose'[toPage[i].id] = purpose[toPage[i].id]
  <2>1. SUFFICES ASSUME NEW i \in DOMAIN toPage, ~toPage[i].event
                 PROVE  toPage[i].id \in Asking
    OBVIOUS
  <2>2. toPage[i] \in ToSet(toPage)
    BY DEF ToSet
  <2>3. HasId(toPage[i])
    BY <2>1, <2>2, WhereCallsAre DEF Answered
  <2> QED
    BY <1>1, <2>2, <2>3 DEF Ids
<1>3. Known' = Known
  BY DEF Known
<1>4. AnswersKnown(toPage', purpose', Known')
  <2>1. AnswersKnown(toPage, purpose, Known) /\ toPage' = toPage
    BY DEF SavedInv
  <2> QED
    BY <1>2, <1>3, <2>1 DEF AnswersKnown
<1>5. ShownKnown'
  <2>1. latest \in Calls /\ purpose[latest] \in {"refresh", "imported"} =>
          latest \in Asking
    BY FlagsAssumption DEF Asking, Flags
  <2>2. ShownKnown
    BY DEF SavedInv
  <2> QED
    BY <1>3, <2>1, <2>2 DEF ShownKnown
<1> QED
  BY <1>4, <1>5 DEF SavedInv

LEMMA UserKeeps == ASSUME PageInv, UserActs PROVE PageInv'
<1>1. /\ UNCHANGED <<settingsVars, toPage, parsing, flight, waiting, workerVars>>
      /\ \/ EditSettings \/ EditLists \/ Apply \/ Cancel
         \/ \E f \in Rules : ReadFile(f)
  BY DEF UserActs
<1>2. UNCHANGED <<disabled, blocked, lists, fromWorker, toPage>>
  BY <1>1 DEF settingsVars, workerVars
<1>3. CallsInv /\ SavedInv /\ ImportIsShown
  BY DEF PageInv
<1>4. SUFFICES /\ CallsInv' /\ ImportIsShown' /\ (\A c \in Asking : purpose'[c] = purpose[c])
               /\ UNCHANGED <<shown, latest>>
  BY <1>2, <1>3, AskedKeepsSaved DEF PageInv
<1>5. CASE EditSettings \/ EditLists
  BY <1>1, <1>3, <1>5, EditsKeep
<1>6. CASE Apply
  <2>1. UNCHANGED <<shown, latest>>
    BY <1>6 DEF Apply
  <2> QED
    BY <1>1, <1>3, <1>6, <2>1, ApplyKeeps
<1>7. CASE Cancel
  <2>1. UNCHANGED <<shown, latest, flags, purpose, toBrowser>> /\ "reading" \notin flags
    BY <1>7 DEF Cancel, Disabled
  <2>2. \A n \in ToSet(toBrowser) \cup parsing : n.what.do # "import"
    BY <1>3, <2>1, ImportsAsk
  <2>3. ImportIsShown'
    BY <1>1, <2>1, <2>2 DEF ImportIsShown
  <2>4. CallsInv'
    <3>1. UNCHANGED <<worker, fromWorker>>
      BY <1>1 DEF workerVars
    <3>2. FlightOK'
      BY <1>1, <1>3, <2>1, WhereCallsAre DEF FlightOK
    <3>3. Once(toPage') /\ Ids(toPage') = Ids(toPage) /\ Answered(ToSet(toPage'), purpose)
      BY <1>1, <1>3, WhereCallsAre
    <3> QED
      BY <1>1, <1>3, <2>1, <3>1, <3>2, <3>3, EventKeepsCalls
  <2> QED
    BY <2>1, <2>3, <2>4
<1>8. ASSUME NEW f, ReadFile(f)
      PROVE  /\ CallsInv' /\ ImportIsShown' /\ (\A c \in Asking : purpose'[c] = purpose[c])
             /\ UNCHANGED <<shown, latest>>
  <2>1. ~Disabled /\ AskPreview(f) /\ preview' = Nothing
    BY <1>8 DEF ReadFile
  <2>2. UNCHANGED <<shown, latest>>
    BY <2>1 DEF AskPreview
  <2> QED
    BY <1>1, <1>3, <2>1, <2>2, AskKeeps
<1> QED
  BY <1>1, <1>5, <1>6, <1>7, <1>8

LEMMA EffectKeeps == ASSUME PageInv, PageRunsEffect PROVE PageInv'
<1>1. /\ UNCHANGED <<settingsVars, toPage, parsing, flight, waiting, workerVars>>
      /\ ~Disabled /\ AskPreview(text) /\ preview' = preview
  BY DEF PageRunsEffect, RefreshPreview, EffectDue
<1>2. UNCHANGED <<disabled, blocked, lists, fromWorker, toPage, shown, latest>>
  BY <1>1 DEF settingsVars, workerVars, AskPreview
<1>3. CallsInv /\ SavedInv /\ ImportIsShown
  BY DEF PageInv
<1>4. CallsInv' /\ ImportIsShown' /\ \A c \in Asking : purpose'[c] = purpose[c]
  BY <1>1, <1>3, AskKeeps
<1> QED
  BY <1>2, <1>3, <1>4, AskedKeepsSaved DEF PageInv

-----------------------------------------------------------------------------
(* What is shown, or will be *)

LEMMA EventLast ==
  ASSUME NEW s, Once(s), NEW p, NEW k
  PROVE  AnswersKnown(Append(s, ChangeEvent), p, k) /\ EventAfter(Append(s, ChangeEvent), 0)
<1> DEFINE t == Append(s, ChangeEvent)
           n == Len(s) + 1
<1>1. /\ \A i \in DOMAIN s : i \in DOMAIN t /\ i \in Nat /\ i > 0 /\ i < n
      /\ \A i \in DOMAIN t : i \in DOMAIN s \/ i = n
      /\ n \in DOMAIN t /\ t[n] = ChangeEvent
  BY EventsAre, Appends
<1>2. t[n].event = TRUE
  BY <1>1, EventsAre
<1>3. n \in Nat /\ n > 0
  <2>1. PICK S : s \in Seq(S)
    BY DEF Once
  <2>2. Len(s) \in Nat
    BY <2>1
  <2> QED
    BY <2>2
<1> HIDE DEF t, n
<1>4. \A i \in DOMAIN t : ~t[i].event => EventAfter(t, i)
  BY <1>1, <1>2 DEF EventAfter
<1>5. EventAfter(t, 0)
  BY <1>1, <1>2, <1>3 DEF EventAfter
<1>6. AnswersKnown(t, p, k)
  BY <1>4 DEF AnswersKnown
<1> QED
  BY <1>5, <1>6 DEF t

LEMMA AnswerLast ==
  ASSUME NEW s, Once(s), NEW p, NEW k, AnswersKnown(s, p, k),
         NEW m, HasId(m), m.id \notin Ids(s),
         ~m.ok \/ p[m.id] \notin StateCalls \/ Saved(m.value, k)
  PROVE  /\ AnswersKnown(Append(s, m), p, k)
         /\ EventAfter(s, 0) => EventAfter(Append(s, m), 0)
<1> DEFINE t == Append(s, m)
           n == Len(s) + 1
<1>1. /\ \A i \in DOMAIN s : i \in DOMAIN t /\ t[i] = s[i] /\ i \in Nat /\ i > 0 /\ i < n
      /\ \A i \in DOMAIN t : i \in DOMAIN s \/ i = n
      /\ n \in DOMAIN t /\ t[n] = m
  BY Appends
<1> HIDE DEF t, n
<1>2. \A i \in Nat : EventAfter(s, i) => EventAfter(t, i)
  BY <1>1 DEF EventAfter
<1>3. AnswersKnown(t, p, k)
  <2>1. SUFFICES ASSUME NEW i \in DOMAIN t, ~t[i].event, t[i].ok, p[t[i].id] \in StateCalls
                 PROVE  Saved(t[i].value, k) \/ EventAfter(t, i)
    BY DEF AnswersKnown
  <2>2. CASE i = n
    BY <1>1, <2>1, <2>2
  <2>3. CASE i \in DOMAIN s
    <3>1. Saved(s[i].value, k) \/ EventAfter(s, i)
      BY <1>1, <2>1, <2>3 DEF AnswersKnown
    <3> QED
      BY <1>1, <1>2, <2>3, <3>1
  <2> QED
    BY <1>1, <2>2, <2>3
<1> QED
  BY <1>2, <1>3 DEF t

\* The state that is saved, unless the lists are about to be read anew.
LEMMA SavedPasses ==
  ASSUME NEW s, NEW p, NEW k, NEW l, l.sites = k.sites, l.blocked = k.blocked,
         l.changed \/ (l.lists = k.lists /\ l.changed = k.changed)
  PROVE  /\ AnswersKnown(s, p, k) => AnswersKnown(s, p, l)
         /\ \A v : Saved(v, k) => Saved(v, l)
<1>1. \A v : Saved(v, k) => Saved(v, l)
  BY DEF Saved
<1> QED
  BY <1>1 DEF AnswersKnown

\* Nothing that is saved changes, or an event is sent: the page asks again.
LEMMA SendsKeepSaved ==
  ASSUME CallsInv, SavedInv, UNCHANGED <<shown, latest, purpose>>, ReadsKnown(fromWorker', lists'),
         NEW m, HasId(m), m.id \notin Ids(toPage), ~m.event,
         \/ toPage' = Append(toPage, ChangeEvent)
         \/ /\ toPage' = Append(Append(toPage, ChangeEvent), m)
            /\ ~m.ok \/ purpose[m.id] \notin StateCalls \/ Saved(m.value, Known')
         \/ /\ \/ toPage' = toPage
               \/ /\ toPage' = Append(toPage, m)
                  /\ ~m.ok \/ purpose[m.id] \notin StateCalls \/ Saved(m.value, Known')
            /\ disabled' = disabled /\ blocked' = blocked
            /\ \/ ListsChanged(fromWorker')
               \/ lists' = lists /\ ListsChanged(fromWorker') = ListsChanged(fromWorker)
  PROVE  SavedInv'
<1> DEFINE k == Known'
           s == Append(toPage, ChangeEvent)
<1>1. Once(toPage) /\ Answered(ToSet(toPage), purpose)
  BY WhereCallsAre
<1>2. AnswersKnown(s, purpose, k) /\ EventAfter(s, 0)
  BY <1>1, EventLast
<1>3. Once(s) /\ Ids(s) = Ids(toPage)
  BY <1>1, EventSent
<1>4. AnswersKnown(toPage, purpose, Known) /\ ShownKnown
  BY DEF SavedInv
<1>5. SUFFICES AnswersKnown(toPage', purpose, k) /\
               (EventAfter(toPage', 0) \/ (ShownKnown => ShownKnown'))
  BY <1>4 DEF SavedInv, ShownKnown
<1>6. CASE toPage' = Append(toPage, ChangeEvent)
  BY <1>2, <1>6
<1>7. CASE /\ toPage' = Append(Append(toPage, ChangeEvent), m)
           /\ ~m.ok \/ purpose[m.id] \notin StateCalls \/ Saved(m.value, Known')
  <2>1. toPage' = Append(s, m) /\ (~m.ok \/ purpose[m.id] \notin StateCalls \/ Saved(m.value, k))
    BY <1>7
  <2> HIDE DEF s, k
  <2> QED
    BY <1>2, <1>3, <2>1, AnswerLast
<1>8. CASE /\ \/ toPage' = toPage
              \/ /\ toPage' = Append(toPage, m)
                 /\ ~m.ok \/ purpose[m.id] \notin StateCalls \/ Saved(m.value, Known')
           /\ disabled' = disabled /\ blocked' = blocked
           /\ \/ ListsChanged(fromWorker')
              \/ lists' = lists /\ ListsChanged(fromWorker') = ListsChanged(fromWorker)
  <2>1. /\ k.sites = Known.sites /\ k.blocked = Known.blocked
        /\ k.changed \/ (k.lists = Known.lists /\ k.changed = Known.changed)
    BY <1>8 DEF Known
  <2> HIDE DEF s, k
  <2> DEFINE j == Known
  <2>2. j.sites = k.sites /\ j.blocked = k.blocked /\ AnswersKnown(toPage, purpose, j)
    BY <1>4, <2>1
  <2>3. k.changed \/ (k.lists = j.lists /\ k.changed = j.changed)
    BY <2>1
  <2> HIDE DEF j
  <2>4. AnswersKnown(toPage, purpose, k) /\ \A v : Saved(v, j) => Saved(v, k)
    BY <2>2, <2>3, SavedPasses
  <2>5. \/ toPage' = toPage
        \/ /\ toPage' = Append(toPage, m)
           /\ ~m.ok \/ purpose[m.id] \notin StateCalls \/ Saved(m.value, k)
    BY <1>8 DEF k
  <2>6. AnswersKnown(toPage', purpose, k) /\ (EventAfter(toPage, 0) => EventAfter(toPage', 0))
    <3>1. CASE toPage' = toPage
      BY <2>4, <3>1
    <3>2. CASE /\ toPage' = Append(toPage, m)
               /\ ~m.ok \/ purpose[m.id] \notin StateCalls \/ Saved(m.value, k)
      BY <1>1, <2>4, <3>2, AnswerLast
    <3> QED
      BY <2>5, <3>1, <3>2
  <2>7. ShownKnown => ShownKnown'
    <3>1. Saved(shown, j) => Saved(shown, k)
      BY <2>4
    <3>2. Saved(shown, Known) => Saved(shown', Known')
      BY <3>1 DEF j, k
    <3> QED
      BY <2>6, <3>2 DEF ShownKnown
  <2> QED
    BY <2>6, <2>7
<1> QED
  BY <1>6, <1>7, <1>8

LEMMA EventKeepsSaved ==
  ASSUME CallsInv, SavedInv, UNCHANGED <<shown, latest, purpose>>, ReadsKnown(fromWorker', lists'),
         toPage' = Append(toPage, ChangeEvent)
  PROVE  SavedInv'
<1> DEFINE k == Known'
<1>1. Once(toPage)
  BY WhereCallsAre
<1>2. AnswersKnown(toPage', purpose, k) /\ EventAfter(toPage', 0)
  BY <1>1, EventLast
<1> QED
  BY <1>2 DEF SavedInv, ShownKnown

LEMMA QuietKeepsSaved ==
  ASSUME SavedInv, UNCHANGED <<shown, latest, purpose, toPage, disabled, blocked>>,
         ReadsKnown(fromWorker', lists'),
         \/ ListsChanged(fromWorker')
         \/ lists' = lists /\ ListsChanged(fromWorker') = ListsChanged(fromWorker)
  PROVE  SavedInv'
<1> DEFINE k == Known'
           j == Known
<1>1. /\ k.sites = j.sites /\ k.blocked = j.blocked
      /\ k.changed \/ (k.lists = j.lists /\ k.changed = j.changed)
  BY DEF Known
<1>2. AnswersKnown(toPage, purpose, j) /\ ShownKnown
  BY DEF SavedInv
<1> HIDE DEF j, k
<1>3. AnswersKnown(toPage, purpose, k) /\ \A v : Saved(v, j) => Saved(v, k)
  BY <1>1, <1>2, SavedPasses
<1>4. Saved(shown, Known) => Saved(shown', Known')
  <2>1. Saved(shown, j) => Saved(shown, k)
    BY <1>3
  <2> QED
    BY <2>1 DEF j, k
<1>5. AnswersKnown(toPage', purpose', Known')
  BY <1>3 DEF k
<1> QED
  BY <1>2, <1>4, <1>5 DEF SavedInv, ShownKnown

\* What the browser does keeps both, whatever it sends.
LEMMA ReceivesKeepsSaved == ASSUME CallsInv, SavedInv, Receives PROVE SavedInv'
<1> DEFINE m == Head(toBrowser)
<1>1. /\ toBrowser # <<>> /\ toBrowser' = Tail(toBrowser) /\ UNCHANGED <<pageVars, lists, fromWorker, left>>
      /\ \/ GetState(m) \/ ChangeSettings(m) \/ RefuseDomain(m)
         \/ CheckWaits(m) \/ CheckEnds(m) \/ ChangeSubscription(m)
         \/ ReadFileOf(m)
  BY DEF Receives
<1> DEFINE r == Rejected(m.id)
<1>2. HasId(r) /\ r.id = m.id /\ ~r.event /\ ~r.ok
  BY EventsAre
<1>3. m.id \notin Ids(toPage)
  BY <1>1, CallTaken
<1>4. Once(toPage) /\ Answered(ToSet(toPage), purpose)
  BY WhereCallsAre
<1> HIDE DEF m
<1>5. \/ toPage' = Append(toPage, ChangeEvent)
      \/ /\ toPage' = toPage \/ toPage' = Append(toPage, r)
         /\ disabled' = disabled /\ blocked' = blocked
  <2> HIDE DEF r
  <2>1. CASE GetState(m) \/ CheckEnds(m) \/ ReadFileOf(m)
    <3>1. CASE ReadFileOf(m)
      BY <3>1 DEF ReadFileOf, ReadDomainFile, settingsVars
    <3>2. CASE GetState(m) \/ CheckEnds(m)
      BY <3>2 DEF GetState, CheckEnds, settingsVars
    <3> QED
      BY <2>1, <3>1, <3>2
  <2>2. CASE ChangeSettings(m)
    <3>1. Send(Told)
      BY <2>2 DEF ChangeSettings
    <3> QED
      BY <1>4, <3>1, ToldIs
  <2>3. CASE RefuseDomain(m)
    <3>1. toPage' = toPage \o <<r>> /\ disabled' = disabled /\ blocked' = blocked
      BY <2>3 DEF RefuseDomain, Send, r, settingsVars
    <3> QED
      BY <1>4, <3>1, Sends
  <2>4. CASE CheckWaits(m)
    <3>1. /\ toPage' = toPage \o <<>> \/ toPage' = toPage \o <<ChangeEvent>>
          /\ disabled' = disabled /\ blocked' = blocked
      BY <2>4 DEF CheckWaits, Send, settingsVars
    <3> QED
      BY <1>4, <3>1, Sends
  <2>5. CASE ChangeSubscription(m)
    <3>1. /\ toPage' = toPage \o <<r>> \/ toPage' = toPage \o <<ChangeEvent>>
          /\ disabled' = disabled /\ blocked' = blocked
      BY <2>5 DEF ChangeSubscription, Send, r, settingsVars
    <3> QED
      BY <1>4, <3>1, Sends
  <2> QED
    BY <1>1, <2>1, <2>2, <2>3, <2>4, <2>5
<1> HIDE DEF r
<1>6. UNCHANGED <<shown, latest, purpose>> /\ lists' = lists /\ fromWorker' = fromWorker
  BY <1>1 DEF pageVars
<1>7. ReadsKnown(fromWorker', lists')
  BY <1>6 DEF SavedInv
<1> QED
  BY <1>2, <1>3, <1>5, <1>6, <1>7, SendsKeepSaved

LEMMA ParsedKeepsSaved ==
  ASSUME CallsInv, SavedInv, NEW m \in parsing, FileIsParsed(m) PROVE SavedInv'
<1>1. /\ m.what.do \in {"preview", "import"}
      /\ UNCHANGED <<shown, latest, purpose, lists, fromWorker>>
  BY DEF FileIsParsed, pageVars, workerVars
<1>2. purpose[m.id] \notin StateCalls
  <2>1. Asked(parsing, purpose)
    BY WhereCallsAre
  <2>2. purpose[m.id] \in Wants[m.what.do]
    BY <2>1 DEF Asked
  <2> QED
    BY <1>1, <2>2 DEF Wants, StateCalls
<1>3. m.id \notin Ids(toPage) /\ Once(toPage)
  <2>1. m.id \in Parsed
    BY DEF Parsed
  <2> QED
    BY <2>1, WhereCallsAre DEF Placed
<1>4. PICK r : /\ r = Rejected(m.id) \/ r = Resolved(m.id, "added")
                    \/ r = Resolved(m.id, Additions(m.what.file))
               /\ \/ /\ toPage' = toPage \o <<r>>
                     /\ disabled' = disabled /\ blocked' = blocked
                  \/ toPage' = toPage \o (Told \o <<r>>)
  <2>1. CASE m.what.do = "import"
    <3>1. ImportBlockedDomains
      BY <2>1 DEF FileIsParsed
    <3>2. CASE TooMany(Merged)
      <4>1. disabled' = disabled /\ blocked' = blocked
        BY <3>1, <3>2 DEF ImportBlockedDomains
      <4>2. toPage' = toPage \o <<Rejected(m.id)>>
        BY <2>1, <3>2 DEF FileIsParsed, Send
      <4> QED
        BY <4>1, <4>2
    <3>3. CASE ~TooMany(Merged)
      BY <2>1, <3>3 DEF FileIsParsed, Send
    <3> QED
      BY <3>2, <3>3
  <2>2. CASE m.what.do = "preview"
    <3>1. toPage' = toPage \o <<Resolved(m.id, Additions(m.what.file))>> /\ UNCHANGED settingsVars
      BY <2>2 DEF FileIsParsed, Send
    <3> QED
      BY <3>1 DEF settingsVars
  <2> QED
    BY <1>1, <2>1, <2>2
<1>5. HasId(r) /\ r.id = m.id /\ ~r.event
  BY <1>4, EventsAre
<1>6. \/ toPage' = Append(Append(toPage, ChangeEvent), r)
      \/ toPage' = Append(toPage, r) /\ disabled' = disabled /\ blocked' = blocked
  <2>1. CASE toPage' = toPage \o <<r>> /\ disabled' = disabled /\ blocked' = blocked
    BY <1>3, <2>1, Sends
  <2>2. CASE toPage' = toPage \o (Told \o <<r>>)
    <3>1. (Told = <<>> /\ disabled' = disabled /\ blocked' = blocked) \/ Told = <<ChangeEvent>>
      BY DEF Told
    <3> HIDE DEF Told
    <3>2. CASE Told = <<>> /\ disabled' = disabled /\ blocked' = blocked
      BY <1>3, <2>2, <3>2, Sends
    <3>3. CASE Told = <<ChangeEvent>>
      BY <1>3, <2>2, <3>3, Sends
    <3> QED
      BY <3>1, <3>2, <3>3
  <2> QED
    BY <1>4, <2>1, <2>2
<1>7. ReadsKnown(fromWorker', lists')
  BY <1>1 DEF SavedInv
<1> QED
  BY <1>1, <1>2, <1>3, <1>5, <1>6, <1>7, SendsKeepSaved

LEMMA OtherKeepsSaved == ASSUME CallsInv, SavedInv, OtherPageChanges PROVE SavedInv'
<1>1. Send(Told) /\ UNCHANGED <<shown, latest, purpose, lists, fromWorker>>
  BY DEF OtherPageChanges, pageVars, workerVars
<1>2. \/ toPage' = toPage /\ disabled' = disabled /\ blocked' = blocked
      \/ toPage' = Append(toPage, ChangeEvent)
  BY <1>1, WhereCallsAre, ToldIs
<1>3. ReadsKnown(fromWorker', lists')
  BY <1>1 DEF SavedInv
<1> QED
  BY <1>1, <1>2, <1>3, EventKeepsSaved, QuietKeepsSaved

LEMMA StartsKeepsSaved == ASSUME CallsInv, SavedInv, FlightStarts PROVE SavedInv'
<1>1. /\ toPage' = toPage \o <<ChangeEvent>>
      /\ UNCHANGED <<shown, latest, purpose, lists, fromWorker>>
  BY DEF FlightStarts, Send, pageVars, workerVars
<1>2. toPage' = Append(toPage, ChangeEvent)
  BY <1>1, WhereCallsAre, Sends
<1>3. ReadsKnown(fromWorker', lists')
  BY <1>1 DEF SavedInv
<1> QED
  BY <1>1, <1>2, <1>3, EventKeepsSaved

LEMMA WritesKeepsSaved == ASSUME CallsInv, SavedInv, FlightWrites PROVE SavedInv'
<1>1. UNCHANGED <<disabled, blocked, toPage, shown, latest, purpose, lists, fromWorker>>
  BY DEF FlightWrites, pageVars, settingsVars
<1>2. ReadsKnown(fromWorker', lists')
  BY <1>1 DEF SavedInv
<1> QED
  BY <1>1, <1>2, QuietKeepsSaved

LEMMA EndsKeepsSaved ==
  ASSUME CallsInv, SavedInv, NEW ok, FlightEnds(ok), ReadsKnown(fromWorker', lists')
  PROVE  SavedInv'
<1>1. UNCHANGED <<shown, latest, purpose>>
  BY DEF FlightEnds, pageVars
<1>2. Once(toPage) /\ FlightOK
  BY WhereCallsAre
<1> DEFINE r == Rejected(waiting)
<1>3. HasId(r) /\ r.id = waiting /\ ~r.event /\ ~r.ok
  BY EventsAre
<1> HIDE DEF r
<1>4. \/ toPage' = toPage \o <<ChangeEvent>>
      \/ toPage' = toPage \o <<ChangeEvent, r>> /\ waiting # Nothing
  BY DEF FlightEnds, Send, r
<1>5. \/ toPage' = Append(toPage, ChangeEvent)
      \/ toPage' = Append(Append(toPage, ChangeEvent), r) /\ waiting # Nothing
  BY <1>2, <1>4, Sends
<1>6. waiting # Nothing => waiting \notin Ids(toPage)
  <2>1. waiting # Nothing => waiting \in Awaited
    BY DEF Awaited
  <2> QED
    BY <2>1, WhereCallsAre DEF Placed
<1>7. CASE toPage' = Append(toPage, ChangeEvent)
  BY <1>1, <1>7, EventKeepsSaved
<1>8. CASE toPage' = Append(Append(toPage, ChangeEvent), r) /\ waiting # Nothing
  BY <1>1, <1>3, <1>6, <1>8, SendsKeepSaved
<1> QED
  BY <1>5, <1>7, <1>8

LEMMA FailsKeepsSaved == ASSUME CallsInv, SavedInv, DownloadFails PROVE SavedInv'
<1>1. FlightEnds(FALSE) /\ fromWorker' = fromWorker
  BY DEF DownloadFails
<1>2. lists' = lists
  BY <1>1 DEF FlightEnds
<1>3. ReadsKnown(fromWorker', lists')
  BY <1>1, <1>2 DEF SavedInv
<1> QED
  BY <1>1, <1>3, EndsKeepsSaved

\* Reads and writes in their order.
LEMMA ReadsAppended ==
  ASSUME NEW s, Once(s), NEW now, ReadsKnown(s, now), NEW r, HasId(r) => r.id \notin Ids(s)
  PROVE  /\ r.do = "read" /\ r.lists = now =>
              ReadsKnown(Append(s, r), now) /\ ListsChanged(Append(s, r)) = ListsChanged(s)
         /\ r.do = "write" /\ r.ok =>
              \A l : ReadsKnown(Append(s, r), l) /\ ListsChanged(Append(s, r))
         /\ r.do = "write" /\ ~r.ok =>
              ReadsKnown(Append(s, r), now) /\ ListsChanged(Append(s, r)) = ListsChanged(s)
<1> DEFINE t == Append(s, r)
           n == Len(s) + 1
<1>1. /\ \A i \in DOMAIN s : i \in DOMAIN t /\ t[i] = s[i] /\ i \in Nat /\ i > 0 /\ i < n
      /\ \A i \in DOMAIN t : i \in DOMAIN s \/ i = n
      /\ n \in DOMAIN t /\ t[n] = r
  BY Appends
<1> HIDE DEF t, n
<1>2. r.do # "write" \/ ~r.ok => ListsChanged(t) = ListsChanged(s)
  BY <1>1 DEF ListsChanged
<1>3. r.do = "write" /\ r.ok => \A l : ReadsKnown(t, l) /\ ListsChanged(t)
  <2>1. SUFFICES ASSUME r.do = "write", r.ok, NEW l PROVE ReadsKnown(t, l) /\ ListsChanged(t)
    OBVIOUS
  <2>2. \A i \in DOMAIN t : t[i].do = "read" => i \in DOMAIN s
    BY <1>1, <2>1
  <2>3. ReadsKnown(t, l)
    BY <1>1, <2>1, <2>2 DEF ReadsKnown
  <2>4. ListsChanged(t)
    BY <1>1, <2>1 DEF ListsChanged
  <2> QED
    BY <2>3, <2>4
<1>4. (r.do = "read" /\ r.lists = now) \/ r.do = "write" => ReadsKnown(t, now)
  <2>1. SUFFICES ASSUME (r.do = "read" /\ r.lists = now) \/ r.do = "write",
                        NEW i \in DOMAIN t, t[i].do = "read", t[i].lists # now
                 PROVE  \E j \in DOMAIN t : j > i /\ t[j].do = "write" /\ t[j].ok
    BY DEF ReadsKnown
  <2>2. i \in DOMAIN s
    BY <1>1, <2>1
  <2>3. PICK j \in DOMAIN s : j > i /\ s[j].do = "write" /\ s[j].ok
    BY <1>1, <2>1, <2>2 DEF ReadsKnown
  <2> QED
    BY <1>1, <2>3
<1> QED
  BY <1>2, <1>3, <1>4 DEF t

LEMMA ReadsTail ==
  ASSUME NEW s, Once(s), s # <<>>, NEW now, ReadsKnown(s, now)
  PROVE  /\ ReadsKnown(Tail(s), now)
         /\ Head(s).do = "read" =>
              /\ Head(s).lists = now \/ ListsChanged(Tail(s))
              /\ ListsChanged(Tail(s)) = ListsChanged(s)
<1> DEFINE t == Tail(s)
<1>1. /\ 1 \in DOMAIN s /\ Head(s) = s[1]
      /\ \A i \in DOMAIN t : i \in Nat /\ i > 0 /\ i + 1 \in DOMAIN s /\ t[i] = s[i + 1]
      /\ \A i \in DOMAIN s : i \in Nat /\ i > 0 /\ (i # 1 => i - 1 \in DOMAIN t /\ t[i - 1] = s[i])
  BY Tails
<1> HIDE DEF t
<1>2. ReadsKnown(t, now)
  <2>1. SUFFICES ASSUME NEW i \in DOMAIN t, t[i].do = "read", t[i].lists # now
                 PROVE  \E j \in DOMAIN t : j > i /\ t[j].do = "write" /\ t[j].ok
    BY DEF ReadsKnown
  <2>2. PICK j \in DOMAIN s : j > i + 1 /\ s[j].do = "write" /\ s[j].ok
    BY <1>1, <2>1 DEF ReadsKnown
  <2>3. j - 1 \in DOMAIN t /\ t[j - 1] = s[j] /\ j - 1 > i
    BY <1>1, <2>2
  <2> QED
    BY <2>2, <2>3
<1>3. ListsChanged(t) => ListsChanged(s)
  BY <1>1 DEF ListsChanged
<1>4. ASSUME NEW j \in DOMAIN s, j # 1, s[j].do = "write", s[j].ok PROVE ListsChanged(t)
  BY <1>1, <1>4 DEF ListsChanged
<1>5. Head(s).do = "read" => (ListsChanged(t) <=> ListsChanged(s))
  BY <1>1, <1>3, <1>4 DEF ListsChanged
<1>6. Head(s).do = "read" => Head(s).lists = now \/ ListsChanged(t)
  BY <1>1, <1>4 DEF ReadsKnown
<1>7. ListsChanged(t) \in BOOLEAN /\ ListsChanged(s) \in BOOLEAN
  BY DEF ListsChanged
<1> QED
  BY <1>2, <1>5, <1>6, <1>7 DEF t

LEMMA WorkerKeepsSaved == ASSUME CallsInv, SavedInv, WorkerRuns PROVE SavedInv'
<1> DEFINE t == Head(worker)
<1>1. /\ worker # <<>> /\ UNCHANGED <<disabled, blocked, shown, latest, purpose, toPage>>
  BY DEF WorkerRuns, pageVars, settingsVars
<1>2. Once(fromWorker) /\ ReadsKnown(fromWorker, lists)
  BY WhereCallsAre DEF SavedInv
<1>3. CASE t.do = "read" /\ fromWorker' = Append(fromWorker, WithLists(t)) /\ lists' = lists
  <2> DEFINE r == WithLists(t)
  <2>1. r.do = "read" /\ r.id = t.id /\ r.lists = lists
    BY DEF WithLists
  <2>2. t.id \notin Ids(fromWorker)
    <3>1. t \in ToSet(worker) /\ (HasId(t) => t.id \in Ids(worker))
      BY <1>1, WhereCallsAre, Tails
    <3>2. HasId(t)
      BY <1>3, <3>1, WhereCallsAre DEF Composed
    <3>3. t.id \in Ids(worker)
      BY <3>1, <3>2
    <3> QED
      BY <3>3, WhereCallsAre DEF Placed
  <2>3. fromWorker' = Append(fromWorker, r)
    BY <1>3
  <2> HIDE DEF r, t
  <2>4. ReadsKnown(fromWorker', lists) /\ ListsChanged(fromWorker') = ListsChanged(fromWorker)
    BY <1>2, <2>1, <2>2, <2>3, ReadsAppended
  <2>5. ReadsKnown(fromWorker', lists')
    BY <1>3, <2>4
  <2> QED
    BY <1>1, <1>3, <2>4, <2>5, QuietKeepsSaved
<1>4. ASSUME NEW ok \in BOOLEAN, lists' = IF ok THEN lists + 1 ELSE lists,
             fromWorker' = Append(fromWorker, [do |-> "write", ok |-> ok])
      PROVE  SavedInv'
  <2> DEFINE r == [do |-> "write", ok |-> ok]
  <2>1. r.do = "write" /\ r.ok = ok /\ ~HasId(r) /\ fromWorker' = Append(fromWorker, r)
    BY <1>4 DEF HasId
  <2> HIDE DEF r, t
  <2>2. CASE ok
    <3>1. (\A l : ReadsKnown(fromWorker', l)) /\ ListsChanged(fromWorker')
      BY <1>2, <2>1, <2>2, ReadsAppended
    <3>2. ReadsKnown(fromWorker', lists')
      BY <3>1
    <3> QED
      BY <1>1, <3>1, <3>2, QuietKeepsSaved
  <2>3. CASE ~ok
    <3>1. ReadsKnown(fromWorker', lists) /\ ListsChanged(fromWorker') = ListsChanged(fromWorker)
      BY <1>2, <2>1, <2>3, ReadsAppended
    <3>2. ReadsKnown(fromWorker', lists') /\ lists' = lists
      BY <1>4, <2>3, <3>1
    <3> QED
      BY <1>1, <3>1, <3>2, QuietKeepsSaved
  <2> QED
    BY <2>2, <2>3
<1> QED
  BY <1>3, <1>4 DEF WorkerRuns

LEMMA ReplyKeepsSaved == ASSUME CallsInv, SavedInv, ReplyRuns PROVE SavedInv'
<1> DEFINE r == Head(fromWorker)
<1>1. /\ fromWorker # <<>> /\ fromWorker' = Tail(fromWorker)
  BY DEF ReplyRuns
<1>2. Once(fromWorker) /\ ReadsKnown(fromWorker, lists)
  BY WhereCallsAre DEF SavedInv
<1>3. /\ ReadsKnown(fromWorker', lists)
      /\ r.do = "read" => /\ r.lists = lists \/ ListsChanged(fromWorker')
                          /\ ListsChanged(fromWorker') = ListsChanged(fromWorker)
  BY <1>1, <1>2, ReadsTail
<1>4. lists' = lists
  BY DEF ReplyRuns, FlightEnds
<1>5. ReadsKnown(fromWorker', lists')
  BY <1>3, <1>4
<1>6. CASE r.do = "write" /\ FlightEnds(r.ok)
  BY <1>5, <1>6, EndsKeepsSaved
<1>7. CASE /\ r.do = "read" /\ Send(<<Resolved(r.id, State(r))>>)
           /\ UNCHANGED <<settingsVars, pageVars>>
  <2> DEFINE m == Resolved(r.id, State(r))
  <2>1. HasId(m) /\ m.id = r.id /\ ~m.event /\ m.value = State(r)
    BY EventsAre
  <2>2. /\ UNCHANGED <<disabled, blocked, shown, latest, purpose>>
        /\ toPage' = toPage \o <<m>>
    BY <1>7 DEF settingsVars, pageVars, Send
  <2>3. r.id \notin Ids(toPage)
    <3>1. r \in ToSet(fromWorker) /\ (HasId(r) => r.id \in Ids(fromWorker))
      BY <1>1, <1>2, Tails
    <3>2. HasId(r)
      BY <1>7, <3>1, WhereCallsAre DEF Composed
    <3>3. r.id \in Ids(fromWorker)
      BY <3>1, <3>2
    <3> QED
      BY <3>3, WhereCallsAre DEF Placed
  <2>4. Saved(State(r), Known')
    BY <1>3, <1>4, <1>7, <2>2 DEF Saved, State, Known
  <2>5. Saved(m.value, Known')
    BY <2>1, <2>4
  <2>6. ListsChanged(fromWorker') = ListsChanged(fromWorker)
    BY <1>3, <1>7
  <2> HIDE DEF m, r
  <2>7. toPage' = Append(toPage, m)
    BY <2>2, WhereCallsAre, Sends
  <2> QED
    BY <1>4, <1>5, <2>1, <2>2, <2>3, <2>5, <2>6, <2>7, SendsKeepSaved
<1> QED
  BY <1>6, <1>7 DEF ReplyRuns

-----------------------------------------------------------------------------
(* What the page receives *)

LEMMA AnswersTail ==
  ASSUME NEW s, Once(s), s # <<>>, NEW p, NEW k, AnswersKnown(s, p, k)
  PROVE  /\ AnswersKnown(Tail(s), p, k)
         /\ ~Head(s).event => (EventAfter(s, 0) => EventAfter(Tail(s), 0))
         /\ ~Head(s).event /\ Head(s).ok /\ p[Head(s).id] \in StateCalls =>
              Saved(Head(s).value, k) \/ EventAfter(Tail(s), 0)
<1> DEFINE t == Tail(s)
<1>1. /\ 1 \in DOMAIN s /\ Head(s) = s[1]
      /\ \A i \in DOMAIN t : i \in Nat /\ i > 0 /\ i + 1 \in DOMAIN s /\ t[i] = s[i + 1]
      /\ \A i \in DOMAIN s : i \in Nat /\ i > 0 /\ (i # 1 => i - 1 \in DOMAIN t /\ t[i - 1] = s[i])
  BY Tails
<1> HIDE DEF t
<1>2. ASSUME NEW i \in Nat, EventAfter(s, i + 1) PROVE EventAfter(t, i)
  <2>1. PICK j \in DOMAIN s : j > i + 1 /\ s[j].event
    BY <1>2 DEF EventAfter
  <2>2. j - 1 \in DOMAIN t /\ t[j - 1] = s[j] /\ j - 1 > i
    BY <1>1, <2>1
  <2> QED
    BY <2>1, <2>2 DEF EventAfter
<1>3. AnswersKnown(t, p, k)
  <2>1. SUFFICES ASSUME NEW i \in DOMAIN t, ~t[i].event, t[i].ok, p[t[i].id] \in StateCalls
                 PROVE  Saved(t[i].value, k) \/ EventAfter(t, i)
    BY DEF AnswersKnown
  <2>2. Saved(t[i].value, k) \/ EventAfter(s, i + 1)
    BY <1>1, <2>1 DEF AnswersKnown
  <2> QED
    BY <1>1, <1>2, <2>2
<1>4. ~Head(s).event /\ EventAfter(s, 0) => EventAfter(t, 0)
  <2>1. SUFFICES ASSUME ~Head(s).event, EventAfter(s, 0) PROVE EventAfter(t, 0)
    OBVIOUS
  <2>2. PICK j \in DOMAIN s : s[j].event
    BY <2>1 DEF EventAfter
  <2>3. j # 1
    BY <1>1, <2>1, <2>2
  <2>4. EventAfter(s, 1)
    BY <1>1, <2>2, <2>3 DEF EventAfter
  <2> QED
    BY <1>2, <2>4
<1>5. ~Head(s).event /\ Head(s).ok /\ p[Head(s).id] \in StateCalls =>
        Saved(Head(s).value, k) \/ EventAfter(s, 1)
  BY <1>1 DEF AnswersKnown
<1>6. EventAfter(s, 1) => EventAfter(t, 0)
  BY <1>2
<1> QED
  BY <1>3, <1>4, <1>5, <1>6 DEF t

LEMMA AnswersSame ==
  ASSUME NEW s, NEW p, NEW q, NEW k, AnswersKnown(s, p, k), Answered(ToSet(s), p),
         \A c \in Ids(s) : q[c] = p[c]
  PROVE  AnswersKnown(s, q, k)
<1>1. \A i \in DOMAIN s : ~s[i].event => q[s[i].id] = p[s[i].id]
  BY DEF Ids, ToSet, Answered
<1> QED
  BY <1>1 DEF AnswersKnown

\* The answers that are still to come.
LEMMA RestIsKnown ==
  ASSUME CallsInv, SavedInv, toPage # <<>>, toPage' = Tail(toPage), CallsInv',
         UNCHANGED <<settingsVars, workerVars>>,
         \A c \in Ids(toPage') : purpose'[c] = purpose[c]
  PROVE  AnswersKnown(toPage', purpose', Known') /\ Known' = Known
         /\ ReadsKnown(fromWorker', lists')
<1>1. AnswersKnown(toPage, purpose, Known) /\ Once(toPage) /\ Answered(ToSet(toPage), purpose)
  BY WhereCallsAre DEF SavedInv
<1> DEFINE k == Known
           rest == toPage'
<1>2. AnswersKnown(toPage, purpose, k)
  BY <1>1
<1> HIDE DEF k
<1>3. AnswersKnown(rest, purpose, k)
  BY <1>1, <1>2, AnswersTail
<1>4. Answered(ToSet(rest), purpose)
  BY <1>1, Tails, Fewer
<1>5. \A c \in Ids(rest) : purpose'[c] = purpose[c]
  OBVIOUS
<1> HIDE DEF rest
<1>6. AnswersKnown(rest, purpose', k)
  BY <1>3, <1>4, <1>5, AnswersSame
<1>7. Known' = Known
  BY DEF Known, settingsVars, workerVars
<1>8. ReadsKnown(fromWorker', lists')
  BY DEF SavedInv, workerVars
<1> QED
  BY <1>6, <1>7, <1>8 DEF k, rest

\* An event: the page asks for the state.
LEMMA EventIsTaken ==
  ASSUME PageInv, toPage # <<>>, toPage' = Tail(toPage), SettingsChanged,
         UNCHANGED <<settingsVars, parsing, flight, waiting, workerVars>>
  PROVE  PageInv'
<1>1. CallsInv /\ SavedInv /\ ImportIsShown
  BY DEF PageInv
<1> DEFINE what == [do |-> "get"]
<1>2. PICK id \in Calls : Call(id, what, "refresh") /\ latest' = id
  BY DEF SettingsChanged
<1>3. Head(toPage).event /\ UNCHANGED <<shown, flags, preview>>
  BY DEF SettingsChanged
<1>4. "refresh" \in DOMAIN Flags /\ Flags["refresh"] = {}
  BY DEF Flags
<1>5. what.do = "get" /\ what.do \in DOMAIN Wants /\ "refresh" \in Wants[what.do]
  BY DEF Wants
<1> HIDE DEF what
<1>6. UNCHANGED <<parsing, worker, fromWorker, waiting, flight>>
  BY DEF workerVars
<1>7. flags' = flags \cup Flags["refresh"] /\ Flags["refresh"] \cap flags = {}
  BY <1>3, <1>4
<1> DEFINE m == [id |-> id, what |-> what]
<1>8. /\ CallsInv' /\ purpose'[id] = "refresh" /\ (\A c \in Calls \ {id} : purpose'[c] = purpose[c])
      /\ id \notin Asking /\ ToSet(toBrowser') = ToSet(toBrowser) \cup {m}
  BY <1>1, <1>2, <1>3, <1>4, <1>5, <1>6, <1>7, CallMade
<1>9. m.what.do # "import"
  BY <1>5
<1> HIDE DEF m
<1>10. ImportIsShown'
  BY <1>1, <1>3, <1>8, <1>9, ImportsKept
<1>11. \A c \in Ids(toPage') : purpose'[c] = purpose[c]
  <2>1. Ids(toPage) \subseteq Asking
    BY <1>1, WhereCallsAre DEF Placed
  <2>2. ToSet(Tail(toPage)) \subseteq ToSet(toPage)
    BY <1>1, WhereCallsAre, Tails
  <2>3. Ids(toPage') \subseteq Ids(toPage)
    BY <2>2 DEF Ids
  <2> QED
    BY <1>8, <2>1, <2>3 DEF Asking
<1>12. /\ AnswersKnown(toPage', purpose', Known') /\ Known' = Known
       /\ ReadsKnown(fromWorker', lists')
  BY <1>1, <1>8, <1>11, RestIsKnown
<1>13. ShownKnown'
  BY <1>2, <1>8 DEF ShownKnown
<1> QED
  BY <1>8, <1>10, <1>12, <1>13 DEF PageInv, SavedInv

\* An answer: what the page shows next is saved, or the page asks again.
LEMMA ShownNext ==
  ASSUME CallsInv, SavedInv, toPage # <<>>, toPage' = Tail(toPage), ~Head(toPage).event,
         Known' = Known,
         NEW id, id = Head(toPage).id, \A c \in Asking \ {id} : purpose'[c] = purpose[c],
         \/ /\ shown' = Head(toPage).value /\ Head(toPage).ok /\ purpose[id] \in StateCalls
         \/ /\ shown' = shown /\ latest' = latest
            /\ latest = id => purpose[id] \notin {"refresh", "imported"}
         \/ latest' \in Calls /\ purpose'[latest'] \in {"refresh", "imported"}
  PROVE  ShownKnown'
<1> DEFINE k == Known
<1>1. Once(toPage) /\ AnswersKnown(toPage, purpose, k) /\ ShownKnown
  BY WhereCallsAre DEF SavedInv
<1> HIDE DEF k
<1>2. /\ EventAfter(toPage, 0) => EventAfter(toPage', 0)
      /\ Head(toPage).ok /\ purpose[id] \in StateCalls =>
           Saved(Head(toPage).value, k) \/ EventAfter(toPage', 0)
  BY <1>1, AnswersTail
<1>3. CASE shown' = Head(toPage).value /\ Head(toPage).ok /\ purpose[id] \in StateCalls
  <2>1. Saved(shown', Known') \/ EventAfter(toPage', 0)
    BY <1>2, <1>3 DEF k
  <2> QED
    BY <2>1 DEF ShownKnown
<1>4. CASE /\ shown' = shown /\ latest' = latest
           /\ latest = id => purpose[id] \notin {"refresh", "imported"}
  <2>1. CASE latest \in Calls /\ purpose[latest] \in {"refresh", "imported"}
    <3>1. latest \in Asking /\ latest # id
      BY <1>4, <2>1, FlagsAssumption DEF Asking, Flags
    <3>2. latest' \in Calls /\ purpose'[latest'] \in {"refresh", "imported"}
      BY <1>4, <2>1, <3>1
    <3> QED
      BY <3>2 DEF ShownKnown
  <2>2. CASE EventAfter(toPage, 0)
    BY <1>2, <2>2 DEF ShownKnown
  <2>3. CASE Saved(shown, Known)
    <3>1. Saved(shown', Known')
      BY <1>4, <2>3
    <3> QED
      BY <3>1 DEF ShownKnown
  <2> QED
    BY <1>1, <2>1, <2>2, <2>3 DEF ShownKnown
<1>5. CASE latest' \in Calls /\ purpose'[latest'] \in {"refresh", "imported"}
  BY <1>5 DEF ShownKnown
<1> QED
  BY <1>3, <1>4, <1>5

LEMMA StaysOfImports ==
  ASSUME ImportIsShown, ToSet(toBrowser') \cup parsing' \subseteq ToSet(toBrowser) \cup parsing,
         \/ preview' = preview
         \/ \A m \in ToSet(toBrowser) \cup parsing : m.what.do # "import"
  PROVE  ImportIsShown'
BY DEF ImportIsShown

\* What an answer leaves of the others.
LEMMA OverKeeps ==
  ASSUME CallsInv, SavedInv, toPage # <<>>, ~Head(toPage).event, toPage' = Tail(toPage),
         NEW id, id = Head(toPage).id, Over(id),
         UNCHANGED <<settingsVars, parsing, flight, waiting, workerVars>>
  PROVE  /\ CallsInv' /\ (\A c \in Asking \ {id} : purpose'[c] = purpose[c])
         /\ AnswersKnown(toPage', purpose', Known') /\ Known' = Known
         /\ ReadsKnown(fromWorker', lists') /\ toBrowser' = toBrowser
<1>1. UNCHANGED <<parsing, worker, fromWorker, waiting, flight>> /\ toBrowser' = toBrowser
  BY DEF workerVars, Over
<1>2. CallsInv' /\ \A c \in Calls \ {id} : purpose'[c] = purpose[c]
  BY <1>1, CallOver
<1>3. HasId(Head(toPage))
  BY AnswerIs
<1>4. Ids(toPage') = Ids(toPage) \ {id}
  BY <1>3, WhereCallsAre, Tails
<1>5. Ids(toPage) \subseteq Asking
  BY WhereCallsAre DEF Placed
<1>6. \A c \in Ids(toPage') : purpose'[c] = purpose[c]
  BY <1>2, <1>4, <1>5 DEF Asking
<1>7. /\ AnswersKnown(toPage', purpose', Known') /\ Known' = Known
      /\ ReadsKnown(fromWorker', lists')
  BY <1>2, <1>6, RestIsKnown
<1> QED
  BY <1>1, <1>2, <1>7 DEF Asking

LEMMA RefreshKeeps ==
  ASSUME PageInv, toPage # <<>>, ~Head(toPage).event, toPage' = Tail(toPage),
         NEW m, m = Head(toPage), RefreshEnds(m),
         UNCHANGED <<settingsVars, parsing, flight, waiting, workerVars>>
  PROVE  PageInv'
<1>1. CallsInv /\ SavedInv /\ ImportIsShown
  BY DEF PageInv
<1>2. purpose[m.id] \in {"refresh", "imported"} /\ Over(m.id)
  BY DEF RefreshEnds
<1>3. /\ CallsInv' /\ (\A c \in Asking \ {m.id} : purpose'[c] = purpose[c])
      /\ AnswersKnown(toPage', purpose', Known') /\ Known' = Known
      /\ ReadsKnown(fromWorker', lists') /\ toBrowser' = toBrowser
  BY <1>1, <1>2, OverKeeps
<1>4. m.ok /\ purpose[m.id] \in StateCalls /\ m.id \in Asking
  <2>1. HasId(m) /\ m \in ToSet(toPage) /\ m.id \in Asking
    BY <1>1, AnswerIs
  <2> QED
    BY <1>1, <1>2, <2>1, WhereCallsAre DEF Answered, StateCalls
<1>5. \/ shown' = m.value
      \/ shown' = shown /\ latest' = latest /\ m.id # latest
  BY DEF RefreshEnds
<1>6. ShownKnown'
  BY <1>1, <1>3, <1>4, <1>5, ShownNext
<1>7. ImportIsShown'
  <2>1. CASE purpose[m.id] = "imported"
    <3>1. \A n \in ToSet(toBrowser) \cup parsing : n.what.do # "import"
      BY <1>1, <1>4, <2>1, ImportsAlone
    <3> QED
      BY <1>1, <1>3, <3>1, StaysOfImports
  <2>2. CASE purpose[m.id] # "imported"
    <3>1. preview' = preview
      BY <2>2 DEF RefreshEnds
    <3> QED
      BY <1>1, <1>3, <3>1, StaysOfImports
  <2> QED
    BY <2>1, <2>2
<1> QED
  BY <1>3, <1>6, <1>7 DEF PageInv, SavedInv

LEMMA DoneKeeps ==
  ASSUME PageInv, toPage # <<>>, ~Head(toPage).event, toPage' = Tail(toPage),
         NEW m, m = Head(toPage), Done(m),
         UNCHANGED <<settingsVars, parsing, flight, waiting, workerVars>>
  PROVE  PageInv'
<1>1. CallsInv /\ SavedInv /\ ImportIsShown
  BY DEF PageInv
<1>2. /\ purpose[m.id] \in {"exception", "domains", "lists", "subscription"} /\ Over(m.id)
      /\ preview' = preview
  BY DEF Done
<1>3. /\ CallsInv' /\ (\A c \in Asking \ {m.id} : purpose'[c] = purpose[c])
      /\ AnswersKnown(toPage', purpose', Known') /\ Known' = Known
      /\ ReadsKnown(fromWorker', lists') /\ toBrowser' = toBrowser
  BY <1>1, <1>2, OverKeeps
<1>4. purpose[m.id] \in StateCalls /\ purpose[m.id] \notin {"refresh", "imported"}
  BY <1>2 DEF StateCalls
<1>5. \/ shown' = m.value /\ m.ok
      \/ shown' = shown /\ latest' = latest
  BY DEF Done
<1>6. ShownKnown'
  BY <1>1, <1>3, <1>4, <1>5, ShownNext
<1>7. ImportIsShown'
  BY <1>1, <1>2, <1>3, StaysOfImports
<1> QED
  BY <1>3, <1>6, <1>7 DEF PageInv, SavedInv

LEMMA PreviewKeeps ==
  ASSUME PageInv, toPage # <<>>, ~Head(toPage).event, toPage' = Tail(toPage),
         NEW m, m = Head(toPage), Previewed(m),
         UNCHANGED <<settingsVars, parsing, flight, waiting, workerVars>>
  PROVE  PageInv'
<1>1. CallsInv /\ SavedInv /\ ImportIsShown
  BY DEF PageInv
<1>2. purpose[m.id] = "preview" /\ Over(m.id) /\ shown' = shown /\ latest' = latest
  BY DEF Previewed
<1>3. /\ CallsInv' /\ (\A c \in Asking \ {m.id} : purpose'[c] = purpose[c])
      /\ AnswersKnown(toPage', purpose', Known') /\ Known' = Known
      /\ ReadsKnown(fromWorker', lists') /\ toBrowser' = toBrowser
  BY <1>1, <1>2, OverKeeps
<1>4. m.id \in Asking
  BY <1>1, AnswerIs
<1>5. ShownKnown'
  BY <1>1, <1>2, <1>3, ShownNext
<1>6. \A n \in ToSet(toBrowser) \cup parsing : n.what.do # "import"
  BY <1>1, <1>2, <1>4, ImportsAlone
<1>7. ImportIsShown'
  BY <1>1, <1>3, <1>6, StaysOfImports
<1> QED
  BY <1>3, <1>5, <1>7 DEF PageInv, SavedInv

LEMMA ImportedKeeps ==
  ASSUME PageInv, toPage # <<>>, ~Head(toPage).event, toPage' = Tail(toPage),
         NEW m, m = Head(toPage), Imported(m),
         UNCHANGED <<settingsVars, parsing, flight, waiting, workerVars>>
  PROVE  PageInv'
<1>1. CallsInv /\ SavedInv /\ ImportIsShown
  BY DEF PageInv
<1>2. purpose[m.id] = "import" /\ shown' = shown /\ preview' = preview
  BY DEF Imported
<1>3. CASE Over(m.id) /\ UNCHANGED latest
  <2>1. /\ CallsInv' /\ (\A c \in Asking \ {m.id} : purpose'[c] = purpose[c])
        /\ AnswersKnown(toPage', purpose', Known') /\ Known' = Known
        /\ ReadsKnown(fromWorker', lists') /\ toBrowser' = toBrowser
    BY <1>1, <1>3, OverKeeps
  <2>2. ShownKnown'
    BY <1>1, <1>2, <1>3, <2>1, ShownNext
  <2>3. ImportIsShown'
    BY <1>1, <1>2, <2>1, StaysOfImports
  <2> QED
    BY <2>1, <2>2, <2>3 DEF PageInv, SavedInv
<1>4. ASSUME NEW next \in Calls, CallAgain(m.id, next, "imported"), flags' = flags
      PROVE  PageInv'
  <2>1. UNCHANGED <<parsing, worker, fromWorker, waiting, flight>>
    BY DEF workerVars
  <2> DEFINE n == [id |-> next, what |-> [do |-> "get"]]
  <2>2. /\ CallsInv' /\ purpose'[next] = "imported" /\ next # m.id
        /\ \A c \in Calls \ {m.id, next} : purpose'[c] = purpose[c]
        /\ ToSet(toBrowser') = ToSet(toBrowser) \cup {n}
    BY <1>1, <1>2, <1>4, <2>1, CallAgainMade
  <2>3. n.what.do # "import"
    OBVIOUS
  <2> HIDE DEF n
  <2>4. ImportIsShown'
    BY <1>1, <1>2, <2>2, <2>3, ImportsKept
  <2>5. next \notin Asking /\ latest' = next
    BY <1>4 DEF CallAgain, NextCall, Asking
  <2>6. \A c \in Asking \ {m.id} : purpose'[c] = purpose[c]
    BY <2>2, <2>5 DEF Asking
  <2>7. \A c \in Ids(toPage') : purpose'[c] = purpose[c]
    <3>1. HasId(Head(toPage))
      BY <1>1, AnswerIs
    <3>2. Ids(toPage') = Ids(toPage) \ {m.id}
      BY <1>1, <3>1, WhereCallsAre, Tails
    <3>3. Ids(toPage) \subseteq Asking
      BY <1>1, WhereCallsAre DEF Placed
    <3> QED
      BY <2>6, <3>2, <3>3
  <2>8. /\ AnswersKnown(toPage', purpose', Known') /\ Known' = Known
        /\ ReadsKnown(fromWorker', lists')
    BY <1>1, <2>2, <2>7, RestIsKnown
  <2>9. ShownKnown'
    <3>1. latest' \in Calls /\ purpose'[latest'] \in {"refresh", "imported"}
      BY <2>2, <2>5
    <3> QED
      BY <3>1 DEF ShownKnown
  <2> QED
    BY <2>2, <2>4, <2>8, <2>9 DEF PageInv, SavedInv
<1> QED
  BY <1>3, <1>4 DEF Imported

LEMMA ReceivedKeeps == ASSUME PageInv, PageReceives PROVE PageInv'
<1> DEFINE m == Head(toPage)
<1>1. /\ toPage # <<>> /\ toPage' = Tail(toPage)
      /\ UNCHANGED <<settingsVars, parsing, flight, waiting, workerVars>>
      /\ \/ SettingsChanged
         \/ ~m.event /\ (RefreshEnds(m) \/ Done(m) \/ Previewed(m) \/ Imported(m))
  BY DEF PageReceives
<1>2. m = Head(toPage)
  OBVIOUS
<1>3. CASE SettingsChanged
  BY <1>1, <1>3, EventIsTaken
<1> HIDE DEF m
<1>4. CASE ~m.event /\ RefreshEnds(m)
  BY <1>1, <1>2, <1>4, RefreshKeeps
<1>5. CASE ~m.event /\ Done(m)
  BY <1>1, <1>2, <1>5, DoneKeeps
<1>6. CASE ~m.event /\ Previewed(m)
  BY <1>1, <1>2, <1>6, PreviewKeeps
<1>7. CASE ~m.event /\ Imported(m)
  BY <1>1, <1>2, <1>7, ImportedKeeps
<1> QED
  BY <1>1, <1>3, <1>4, <1>5, <1>6, <1>7

-----------------------------------------------------------------------------
(* All steps together *)

LEMMA FirstCall == SettingsPageInit => PageInv
<1>1. SUFFICES ASSUME SettingsPageInit PROVE PageInv
  OBVIOUS
<1>2. PICK id \in Calls :
        /\ latest = id
        /\ purpose = [c \in Calls |-> IF c = id THEN "refresh" ELSE Nothing]
        /\ worker = <<[do |-> "read", id |-> id, updating |-> FALSE]>>
  BY <1>1 DEF SettingsPageInit
<1>3. /\ flags = {} /\ toBrowser = <<>> /\ toPage = <<>> /\ parsing = {} /\ flight = "idle"
      /\ waiting = Nothing /\ lists = 0 /\ fromWorker = <<>> /\ shown = Nothing
  BY <1>1 DEF SettingsPageInit
<1>4. "refresh" \in DOMAIN Flags /\ Flags["refresh"] = {} /\ "refresh" # Nothing
  BY FlagsAssumption DEF Flags
<1> DEFINE t == [do |-> "read", id |-> id, updating |-> FALSE]
           e == <<>>
<1>5. HasId(t) /\ t.id = id /\ t.do = "read"
  BY DEF HasId
<1>6. Once(e) /\ ToSet(e) = {} /\ Ids(e) = {} /\ DOMAIN e = {} /\ Append(e, t) = <<t>>
  <2>1. e \in Seq({}) /\ DOMAIN e = {} /\ Append(e, t) = <<t>>
    OBVIOUS
  <2>2. ToSet(e) = {}
    BY <2>1 DEF ToSet
  <2>3. \E S : e \in Seq(S)
    BY <2>1
  <2> HIDE DEF e
  <2> QED
    BY <2>1, <2>2, <2>3 DEF Ids, Once
<1>7. Once(worker) /\ Ids(worker) = {id} /\ ToSet(worker) = {t}
  <2> HIDE DEF t
  <2>1. worker = Append(e, t)
    BY <1>2, <1>6 DEF t
  <2> HIDE DEF e
  <2> QED
    BY <1>5, <1>6, <2>1, Appends
<1>8. Asking = {id}
  BY <1>2, <1>4 DEF Asking
<1>9. /\ Ids(toBrowser) = {} /\ Ids(fromWorker) = {} /\ Ids(toPage) = {} /\ Parsed = {}
      /\ Awaited = {}
  BY <1>3, <1>6 DEF Parsed, Awaited
<1>10. Placed(Asking, Ids(toBrowser), Parsed, Ids(worker), Ids(fromWorker), Ids(toPage), Awaited)
  BY <1>7, <1>8, <1>9 DEF Placed
<1>11. purpose \in [Calls -> DOMAIN Flags \cup {Nothing}] /\ purpose[id] = "refresh"
  BY <1>2, <1>4
<1>12. Composed(ToSet(worker), purpose)
  BY <1>5, <1>7, <1>11 DEF Composed, StateCalls
<1>13. /\ Once(toBrowser) /\ Once(fromWorker) /\ Once(toPage)
       /\ ToSet(toBrowser) = {} /\ ToSet(fromWorker) = {} /\ ToSet(toPage) = {}
       /\ DOMAIN fromWorker = {} /\ DOMAIN toPage = {}
  BY <1>3, <1>6
<1>14. /\ Asked(ToSet(toBrowser), purpose) /\ Asked(parsing, purpose)
       /\ Composed(ToSet(fromWorker), purpose) /\ Answered(ToSet(toPage), purpose)
  BY <1>3, <1>13 DEF Asked, Composed, Answered
<1>15. FlightOK
  BY <1>3 DEF FlightOK
<1>16. FlagsOK(purpose, flags)
  <2>1. \A c \in Calls : purpose[c] # Nothing => c = id
    BY <1>2
  <2> QED
    BY <1>3, <1>4, <1>11, <2>1 DEF FlagsOK
<1>17. CallsInv
  BY <1>3, <1>7, <1>10, <1>11, <1>12, <1>13, <1>14, <1>15, <1>16 DEF CallsInv
<1>18. SavedInv
  BY <1>2, <1>11, <1>13 DEF SavedInv, ReadsKnown, AnswersKnown, ShownKnown
<1>19. ImportIsShown
  BY <1>3, <1>13 DEF ImportIsShown
<1> QED
  BY <1>17, <1>18, <1>19 DEF PageInv

\* The browser does not touch the list the user approved.
LEMMA BrowserKeepsImports ==
  ASSUME CallsInv, ImportIsShown,
         \/ Receives \/ (\E m \in parsing : FileIsParsed(m)) \/ FlightStarts \/ FlightWrites
         \/ DownloadFails \/ WorkerRuns \/ ReplyRuns \/ OtherPageChanges
  PROVE  ImportIsShown'
<1>1. CASE Receives
  <2> DEFINE m == Head(toBrowser)
  <2>1. toBrowser # <<>> /\ toBrowser' = Tail(toBrowser) /\ preview' = preview
    BY <1>1 DEF Receives, pageVars
  <2>2. parsing' \subseteq parsing \cup {m}
    BY <1>1 DEF Receives, GetState, ChangeSettings, RefuseDomain, CheckWaits, CheckEnds,
                ChangeSubscription, ReadFileOf
  <2>3. m \in ToSet(toBrowser) /\ ToSet(toBrowser') \subseteq ToSet(toBrowser)
    BY <2>1, WhereCallsAre, Tails
  <2> HIDE DEF m
  <2> QED
    BY <2>1, <2>2, <2>3, StaysOfImports
<1>2. CASE \E m \in parsing : FileIsParsed(m)
  <2>1. parsing' \subseteq parsing /\ toBrowser' = toBrowser /\ preview' = preview
    BY <1>2 DEF FileIsParsed, pageVars
  <2> QED
    BY <2>1, StaysOfImports
<1>3. CASE FlightStarts \/ FlightWrites
  <2>1. parsing' = parsing /\ toBrowser' = toBrowser /\ preview' = preview
    BY <1>3 DEF FlightStarts, FlightWrites, pageVars
  <2> QED
    BY <2>1, StaysOfImports
<1>4. CASE DownloadFails \/ ReplyRuns
  <2>1. parsing' = parsing /\ toBrowser' = toBrowser /\ preview' = preview
    BY <1>4 DEF DownloadFails, ReplyRuns, FlightEnds, pageVars
  <2> QED
    BY <2>1, StaysOfImports
<1>5. CASE WorkerRuns \/ OtherPageChanges
  <2>1. parsing' = parsing /\ toBrowser' = toBrowser /\ preview' = preview
    BY <1>5 DEF WorkerRuns, OtherPageChanges, pageVars
  <2> QED
    BY <2>1, StaysOfImports
<1> QED
  BY <1>1, <1>2, <1>3, <1>4, <1>5

LEMMA StillKeeps == ASSUME PageInv, UNCHANGED settingsPageVars PROVE PageInv'
<1>1. UNCHANGED <<disabled, blocked, shown, latest, flags, purpose, preview, toBrowser, toPage,
                  parsing, flight, waiting, lists, worker, fromWorker>>
  BY DEF settingsPageVars, settingsVars, ownPageVars, pageVars, workerVars
<1>2. CallsInv /\ SavedInv /\ ImportIsShown
  BY DEF PageInv
<1>3. Once(toPage') /\ Ids(toPage') = Ids(toPage) /\ Answered(ToSet(toPage'), purpose)
  BY <1>1, <1>2, WhereCallsAre
<1>4. FlightOK'
  BY <1>1, <1>2, WhereCallsAre DEF FlightOK
<1>5. CallsInv'
  BY <1>1, <1>2, <1>3, <1>4, EventKeepsCalls
<1>6. ReadsKnown(fromWorker', lists')
  BY <1>1, <1>2 DEF SavedInv
<1>7. SavedInv'
  BY <1>1, <1>2, <1>6, QuietKeepsSaved
<1>8. ImportIsShown'
  BY <1>1, <1>2, StaysOfImports
<1> QED
  BY <1>5, <1>7, <1>8 DEF PageInv

LEMMA PageSteps == PageInv /\ [SettingsPageNext]_settingsPageVars => PageInv'
<1>1. SUFFICES ASSUME PageInv, [SettingsPageNext]_settingsPageVars PROVE PageInv'
  OBVIOUS
<1>2. CallsInv /\ SavedInv /\ ImportIsShown
  BY <1>1 DEF PageInv
<1>3. CASE UNCHANGED settingsPageVars
  BY <1>1, <1>3, StillKeeps
<1>4. CASE UserActs
  BY <1>1, <1>4, UserKeeps
<1>5. CASE PageRunsEffect
  BY <1>1, <1>5, EffectKeeps
<1>6. CASE PageReceives
  BY <1>1, <1>6, ReceivedKeeps
<1>7. CASE Receives
  BY <1>2, <1>7, ReceivesKeepsCalls, ReceivesKeepsSaved, BrowserKeepsImports DEF PageInv
<1>8. CASE \E m \in parsing : FileIsParsed(m)
  BY <1>2, <1>8, ParsedKeepsCalls, ParsedKeepsSaved, BrowserKeepsImports DEF PageInv
<1>9. CASE FlightStarts
  BY <1>2, <1>9, StartsKeepsCalls, StartsKeepsSaved, BrowserKeepsImports DEF PageInv
<1>10. CASE FlightWrites
  BY <1>2, <1>10, WritesKeepsCalls, WritesKeepsSaved, BrowserKeepsImports DEF PageInv
<1>11. CASE DownloadFails
  BY <1>2, <1>11, FailsKeepsCalls, FailsKeepsSaved, BrowserKeepsImports DEF PageInv
<1>12. CASE WorkerRuns
  BY <1>2, <1>12, WorkerKeepsCalls, WorkerKeepsSaved, BrowserKeepsImports DEF PageInv
<1>13. CASE ReplyRuns
  BY <1>2, <1>13, ReplyKeepsCalls, ReplyKeepsSaved, BrowserKeepsImports DEF PageInv
<1>14. CASE OtherPageChanges
  BY <1>2, <1>14, OtherKeepsCalls, OtherKeepsSaved, BrowserKeepsImports DEF PageInv
<1> QED
  BY <1>1, <1>3, <1>4, <1>5, <1>6, <1>7, <1>8, <1>9, <1>10, <1>11, <1>12, <1>13, <1>14
     DEF SettingsPageNext

\* What carries the proofs about the settings page (settings.svelte.ts,
\* DomainImport.svelte and content_blocking_settings_handler.cc): each call is in
\* one place, two calls never clear the same flag, and what the page shows is
\* saved, or it is going to ask again.
THEOREM PageInductive == SettingsPageSpec => []PageInv
<1>1. SettingsPageInit => PageInv
  BY FirstCall
<1>2. PageInv /\ [SettingsPageNext]_settingsPageVars => PageInv'
  BY PageSteps
<1> QED
  BY <1>1, <1>2, PTL DEF SettingsPageSpec

\* Once nothing is on its way the settings page shows what is saved: an answer
\* composed before a change never replaces a later one (refreshEpoch in
\* settings.svelte.ts, OnContentBlockingChanged in
\* content_blocking_settings_handler.cc).
THEOREM SettingsShown == SettingsPageSpec => []ShownIsSaved
<1>1. PageInv => ShownIsSaved
  <2>1. SUFFICES ASSUME PageInv, PageAtRest
                 PROVE  shown.sites = disabled /\ shown.blocked = blocked /\ shown.lists = lists
    BY DEF ShownIsSaved
  <2>2. CallsInv /\ ShownKnown
    BY <2>1 DEF PageInv, SavedInv
  <2>3. /\ toBrowser = <<>> /\ toPage = <<>> /\ parsing = {} /\ flight = "idle"
        /\ worker = <<>> /\ fromWorker = <<>>
    BY <2>1 DEF PageAtRest
  <2>4. waiting = Nothing
    BY <2>2, <2>3, WhereCallsAre DEF FlightOK
  <2> DEFINE e == <<>>
  <2>5. DOMAIN e = {} /\ ToSet(e) = {}
    <3>1. DOMAIN e = {}
      OBVIOUS
    <3> QED
      BY <3>1 DEF ToSet
  <2>6. DOMAIN toPage = {} /\ DOMAIN fromWorker = {} /\ ToSet(toBrowser) = {} /\ ToSet(toPage) = {}
        /\ ToSet(worker) = {} /\ ToSet(fromWorker) = {}
    BY <2>3, <2>5
  <2>7. /\ Ids(toBrowser) = {} /\ Ids(worker) = {} /\ Ids(fromWorker) = {} /\ Ids(toPage) = {}
        /\ Parsed = {} /\ Awaited = {}
    BY <2>3, <2>4, <2>6 DEF Ids, Parsed, Awaited
  <2>8. Asking = {}
    BY <2>2, <2>7, WhereCallsAre DEF Placed
  <2>9. ~(latest \in Calls /\ purpose[latest] \in {"refresh", "imported"})
    BY <2>8, FlagsAssumption DEF Asking, Flags
  <2>10. ~EventAfter(toPage, 0) /\ ~ListsChanged(fromWorker)
    BY <2>6 DEF EventAfter, ListsChanged
  <2>11. Saved(shown, Known)
    BY <2>2, <2>9, <2>10 DEF ShownKnown
  <2> QED
    BY <2>10, <2>11 DEF Saved, Known
<1> QED
  BY <1>1, PageInductive, PTL

\* One message of a queue has a call.
LEMMA OnceOf ==
  ASSUME NEW s, Once(s), NEW m \in ToSet(s), NEW n \in ToSet(s), HasId(m), HasId(n), m.id = n.id
  PROVE  m = n
<1>1. PICK i \in DOMAIN s : m = s[i]
  BY DEF ToSet
<1>2. PICK j \in DOMAIN s : n = s[j]
  BY DEF ToSet
<1> QED
  BY <1>1, <1>2 DEF Once

LEMMA OneCarries ==
  ASSUME CallsInv, NEW id \in Calls
  PROVE  purpose[id] # Nothing <=> Carried(id)
<1> DEFINE calls == ToSet(toBrowser) \cup parsing
           tasks == {t \in ToSet(worker) \cup ToSet(fromWorker) : t.do = "read"}
           resolved == {m \in ToSet(toPage) : ~m.event}
           all == calls \cup tasks \cup resolved
           mine == {m \in all : m.id = id}
<1>1. /\ \A m \in ToSet(toBrowser) : HasId(m) /\ m.id \in Ids(toBrowser)
      /\ \A m \in parsing : HasId(m) /\ m.id \in Parsed
  <2>1. /\ \A m \in ToSet(toBrowser) : HasId(m)
        /\ \A m \in parsing : HasId(m)
    BY WhereCallsAre DEF Asked
  <2> QED
    BY <2>1 DEF Ids, Parsed
<1>2. /\ \A m \in ToSet(worker) : (HasId(m) <=> m.do = "read") /\ (HasId(m) => m.id \in Ids(worker))
      /\ \A m \in ToSet(fromWorker) :
           (HasId(m) <=> m.do = "read") /\ (HasId(m) => m.id \in Ids(fromWorker))
      /\ \A m \in ToSet(toPage) : (HasId(m) <=> ~m.event) /\ (HasId(m) => m.id \in Ids(toPage))
  <2>1. /\ \A m \in ToSet(worker) : HasId(m) <=> m.do = "read"
        /\ \A m \in ToSet(fromWorker) : HasId(m) <=> m.do = "read"
        /\ \A m \in ToSet(toPage) : HasId(m) <=> ~m.event
    BY WhereCallsAre DEF Composed, Answered
  <2> QED
    BY <2>1 DEF Ids
<1>3. Placed(Asking, Ids(toBrowser), Parsed, Ids(worker), Ids(fromWorker), Ids(toPage), Awaited)
  BY WhereCallsAre
<1>4. id \in Ids(toBrowser) \cup Parsed \cup Ids(worker) \cup Ids(fromWorker) \cup Ids(toPage) <=>
        \E m \in all : m.id = id
  <2>1. ASSUME NEW m \in all, m.id = id
        PROVE  id \in Ids(toBrowser) \cup Parsed \cup Ids(worker) \cup Ids(fromWorker) \cup Ids(toPage)
    BY <1>1, <1>2, <2>1
  <2>2. id \in Ids(toBrowser) \cup Parsed => \E m \in calls : m.id = id
    BY DEF Ids, Parsed
  <2>3. id \in Ids(worker) \cup Ids(fromWorker) => \E m \in tasks : m.id = id
    BY <1>2 DEF Ids
  <2>4. id \in Ids(toPage) => \E m \in resolved : m.id = id
    BY <1>2 DEF Ids
  <2> QED
    BY <2>1, <2>2, <2>3, <2>4
<1>5. id \in Awaited <=> waiting = id
  BY SettingsPageAssumption DEF Awaited
<1>6. \A m, n \in mine : m = n
  <2>1. SUFFICES ASSUME NEW m \in mine, NEW n \in mine PROVE m = n
    OBVIOUS
  <2>2. /\ m.id = id /\ n.id = id
        /\ m \in ToSet(toBrowser) \/ m \in parsing \/ (m \in ToSet(worker) /\ HasId(m))
             \/ (m \in ToSet(fromWorker) /\ HasId(m)) \/ (m \in ToSet(toPage) /\ HasId(m))
        /\ n \in ToSet(toBrowser) \/ n \in parsing \/ (n \in ToSet(worker) /\ HasId(n))
             \/ (n \in ToSet(fromWorker) /\ HasId(n)) \/ (n \in ToSet(toPage) /\ HasId(n))
    BY <1>2
  <2>3. HasId(m) /\ HasId(n)
    BY <1>1, <2>2
  <2>4. CASE m \in ToSet(toBrowser)
    <3>1. n \in ToSet(toBrowser)
      BY <1>1, <1>2, <1>3, <2>2, <2>4 DEF Placed
    <3> QED
      BY <2>2, <2>3, <2>4, <3>1, WhereCallsAre, OnceOf
  <2>5. CASE m \in parsing
    <3>1. n \in parsing
      BY <1>1, <1>2, <1>3, <2>2, <2>5 DEF Placed
    <3> QED
      BY <2>2, <2>5, <3>1, WhereCallsAre
  <2>6. CASE m \in ToSet(worker)
    <3>1. n \in ToSet(worker)
      BY <1>1, <1>2, <1>3, <2>2, <2>3, <2>6 DEF Placed
    <3> QED
      BY <2>2, <2>3, <2>6, <3>1, WhereCallsAre, OnceOf
  <2>7. CASE m \in ToSet(fromWorker)
    <3>1. n \in ToSet(fromWorker)
      BY <1>1, <1>2, <1>3, <2>2, <2>3, <2>7 DEF Placed
    <3> QED
      BY <2>2, <2>3, <2>7, <3>1, WhereCallsAre, OnceOf
  <2>8. CASE m \in ToSet(toPage)
    <3>1. n \in ToSet(toPage)
      BY <1>1, <1>2, <1>3, <2>2, <2>3, <2>8 DEF Placed
    <3> QED
      BY <2>2, <2>3, <2>8, <3>1, WhereCallsAre, OnceOf
  <2> QED
    BY <2>2, <2>4, <2>5, <2>6, <2>7, <2>8
<1> HIDE DEF all
<1>7. Cardinality(mine) <= 1
  <2> HIDE DEF mine
  <2>1. CASE mine = {}
    BY <2>1, FS_EmptySet
  <2>2. CASE mine # {}
    <3>1. PICK m : m \in mine
      BY <2>2
    <3>2. mine = {m}
      BY <1>6, <3>1
    <3>3. Cardinality(mine) = 1
      BY <3>2, FS_Singleton
    <3> QED
      BY <3>3
  <2> QED
    BY <2>1, <2>2
<1>8. purpose[id] # Nothing <=> id \in Asking
  BY DEF Asking
<1>9. (\E m \in all \cup {[id |-> waiting]} : m.id = id) <=>
        (\E m \in all : m.id = id) \/ waiting = id
  <2> DEFINE w == [id |-> waiting]
  <2>1. w.id = waiting
    OBVIOUS
  <2> HIDE DEF w, mine
  <2>2. (\E m \in all \cup {w} : m.id = id) <=> (\E m \in all : m.id = id) \/ waiting = id
    BY <2>1
  <2> QED
    BY <2>2 DEF w
<1>10. purpose[id] # Nothing <=> \E m \in all \cup {[id |-> waiting]} : m.id = id
  BY <1>3, <1>4, <1>5, <1>8, <1>9 DEF Placed
<1> QED
  BY <1>7, <1>10 DEF Carried, all

\* No call of the settings page is forgotten or answered twice, each control that
\* is disabled waits for an answer, and an import adds what the page still lists
\* (content_blocking_settings_handler.cc, settings.svelte.ts, DomainImport.svelte).
THEOREM WordKept == SettingsPageSpec => []PageKeepsItsWord
<1>1. PageInv => PageKeepsItsWord
  <2>1. SUFFICES ASSUME PageInv PROVE FlagIsAnswered
    BY DEF PageInv, PageKeepsItsWord
  <2>2. CallsInv
    BY <2>1 DEF PageInv
  <2>3. \A id \in Calls : purpose[id] # Nothing <=> Carried(id)
    BY <2>2, OneCarries
  <2>4. \A f \in flags : \E id \in Calls : purpose[id] # Nothing /\ f \in Flags[purpose[id]]
    BY <2>2 DEF CallsInv, FlagsOK
  <2> QED
    BY <2>3, <2>4 DEF FlagIsAnswered
<1> QED
  BY <1>1, PageInductive, PTL

-----------------------------------------------------------------------------
(* The settings page: the kinds of what it has, sends and is told          *)

LEMMA RulesAre ==
  ASSUME NEW f \in Rules
  PROVE  /\ DOMAIN f \subseteq Hosts /\ IsFiniteSet(DOMAIN f)
         /\ Cardinality(DOMAIN f) \in Nat
         /\ f = [d \in DOMAIN f |-> f[d]] /\ \A d \in DOMAIN f : f[d] \in BOOLEAN
<1>1. PICK S \in SUBSET Hosts : f \in [S -> BOOLEAN]
  BY DEF Rules
<1>2. IsFiniteSet(S)
  BY FiniteHosts, FS_Subset
<1> QED
  BY <1>1, <1>2, FS_CardinalityType

LEMMA AreRules ==
  ASSUME NEW S, S \subseteq Hosts, NEW f \in [S -> BOOLEAN]
  PROVE  f \in Rules
BY DEF Rules

LEMMA SettingsStart ==
  ASSUME SettingsInit
  PROVE  SettingsTypeOK
<1>1. blocked \in [{} -> BOOLEAN] /\ DOMAIN blocked = {}
  BY DEF SettingsInit
<1>2. blocked \in Rules /\ Cardinality(DOMAIN blocked) = 0
  BY <1>1, AreRules, FS_EmptySet
<1> QED
  BY <1>2, SettingsAssumption DEF SettingsInit, SettingsTypeOK

LEMMA SiteIsSet ==
  ASSUME SettingsTypeOK, NEW h \in Hosts, NEW on \in BOOLEAN,
         SetEnabledForSite(h, on)
  PROVE  SettingsTypeOK'
BY DEF SettingsTypeOK, SetEnabledForSite

\* An added domain finds room, a changed one takes none.
LEMMA DomainIsSet ==
  ASSUME SettingsTypeOK, NEW h \in Hosts, NEW on \in BOOLEAN,
         NEW replace \in BOOLEAN, SetBlockedDomain(h, on, replace)
  PROVE  SettingsTypeOK'
<1> DEFINE D == DOMAIN blocked
<1>1. /\ D \subseteq Hosts /\ IsFiniteSet(D) /\ Cardinality(D) \in Nat
      /\ \A d \in D : blocked[d] \in BOOLEAN
  BY RulesAre DEF SettingsTypeOK
<1>2. blocked' \in [D \cup {h} -> BOOLEAN]
  BY <1>1 DEF SetBlockedDomain
<1>3. blocked' \in Rules
  BY <1>1, <1>2, AreRules
<1>4. Cardinality(D \cup {h}) <= MaxBlockedDomains
  <2>1. Cardinality(D \cup {h}) = IF h \in D THEN Cardinality(D)
                                  ELSE Cardinality(D) + 1
    BY <1>1, FS_AddElement
  <2>2. Cardinality(D) <= MaxBlockedDomains
    BY DEF SettingsTypeOK
  <2>3. h \in D \/ Cardinality(D) # MaxBlockedDomains
    BY DEF SetBlockedDomain
  <2> QED
    BY <1>1, <2>1, <2>2, <2>3, SettingsAssumption
<1>5. DOMAIN blocked' = D \cup {h}
  BY <1>2
<1> QED
  BY <1>3, <1>4, <1>5 DEF SetBlockedDomain, SettingsTypeOK

LEMMA DomainsAreRemoved ==
  ASSUME SettingsTypeOK, NEW H, RemoveBlockedDomains(H)
  PROVE  SettingsTypeOK'
<1> DEFINE D == DOMAIN blocked
<1>1. /\ D \subseteq Hosts /\ IsFiniteSet(D)
      /\ Cardinality(D) \in Nat /\ Cardinality(D) <= MaxBlockedDomains
      /\ \A d \in D : blocked[d] \in BOOLEAN
  BY RulesAre DEF SettingsTypeOK
<1>2. blocked' \in [D \ H -> BOOLEAN] /\ DOMAIN blocked' = D \ H
  BY <1>1 DEF RemoveBlockedDomains, Restrict
<1>3. blocked' \in Rules
  BY <1>1, <1>2, AreRules
<1>4. /\ IsFiniteSet(D \ H) /\ Cardinality(D \ H) <= Cardinality(D)
  BY <1>1, FS_Subset
<1>5. Cardinality(D \ H) \in Nat
  BY <1>4, FS_CardinalityType
<1>6. Cardinality(D \ H) <= MaxBlockedDomains
  BY <1>1, <1>4, <1>5, SettingsAssumption
<1> QED
  BY <1>2, <1>3, <1>6 DEF RemoveBlockedDomains, SettingsTypeOK

\* An import that would be too long changes nothing.
LEMMA FileIsImported ==
  ASSUME SettingsTypeOK, ImportBlockedDomains
  PROVE  SettingsTypeOK'
<1> DEFINE D == DOMAIN blocked \cup DOMAIN file
<1>1. file \in Rules
  BY DEF SettingsTypeOK, ImportBlockedDomains
<1>2. /\ D \subseteq Hosts /\ IsFiniteSet(D)
      /\ \A d \in DOMAIN blocked : blocked[d] \in BOOLEAN
      /\ \A d \in DOMAIN file : file[d] \in BOOLEAN
  BY <1>1, RulesAre, FS_Union DEF SettingsTypeOK
<1>3. Merged \in [D -> BOOLEAN] /\ DOMAIN Merged = D
  BY <1>2 DEF Merged
<1>4. Merged \in Rules
  BY <1>2, <1>3, AreRules
<1>5. Cardinality(D) \in Nat
  BY <1>2, FS_CardinalityType
<1>6. ~TooMany(Merged) => Cardinality(DOMAIN Merged) <= MaxBlockedDomains
  BY <1>3, <1>5, SettingsAssumption DEF TooMany
<1>7. /\ blocked' \in Rules /\ Cardinality(DOMAIN blocked') <= MaxBlockedDomains
  BY <1>4, <1>6 DEF ImportBlockedDomains, SettingsTypeOK
<1> QED
  BY <1>7 DEF ImportBlockedDomains, SettingsTypeOK

PageStates == [sites : SUBSET Hosts, blocked : Rules, lists : Nat,
               updating : BOOLEAN]

\* Calls, tasks of the worker, its replies, and answers.
CallsTyped(S) ==
  \A m \in S :
    /\ m.what.do \in {"exception", "domain"} =>
         m.what.host \in Hosts /\ m.what.on \in BOOLEAN
    /\ m.what.do = "domain" => m.what.replace \in BOOLEAN
    /\ m.what.do \in {"preview", "import"} => m.what.file \in Rules
TasksTyped(S) == \A t \in S : t.do = "read" => t.updating \in BOOLEAN
RepliesTyped(S) ==
  \A t \in S : t.do = "read" => t.updating \in BOOLEAN /\ t.lists \in Nat
AnswerTyped(m, p) ==
  ~m.event => /\ m.ok /\ p[m.id] \in StateCalls => m.value \in PageStates
              /\ p[m.id] = "preview" => m.value \in Rules
AnswersTyped(S, p) == \A m \in S : AnswerTyped(m, p)

\* While a preview is asked for, the page keeps its file and the rules it
\* showed then; one that is shown can be asked for again.
PageTyped ==
  /\ shown \in PageStates \cup {Nothing}
  /\ latest \in Calls \cup {Nothing}
  /\ text \in Rules \cup {Nothing} /\ asked \in Rules \cup {Nothing}
  /\ preview \in [additions : Rules, rules : Rules] \cup {Nothing}
  /\ preview # Nothing => text \in Rules
  /\ \A c \in Calls : purpose[c] = "preview" => text \in Rules /\ asked \in Rules

WayTyped ==
  /\ CallsTyped(ToSet(toBrowser)) /\ CallsTyped(parsing)
  /\ TasksTyped(ToSet(worker)) /\ RepliesTyped(ToSet(fromWorker))
  /\ AnswersTyped(ToSet(toPage), purpose)

TypesInv ==
  /\ SettingsTypeOK /\ PageTyped /\ WayTyped
  /\ lists \in Nat /\ left \in [Kinds -> Nat]

LEMMA Added ==
  ASSUME NEW s, Once(s), NEW x
  PROVE  ToSet(Append(s, x)) \subseteq ToSet(s) \cup {x}
<1>1. PICK S : s \in Seq(S)
  BY DEF Once
<1>2. s \in Seq(S \cup {x})
  BY <1>1
<1>3. \A i \in DOMAIN Append(s, x) :
        (i \in DOMAIN s /\ Append(s, x)[i] = s[i]) \/ Append(s, x)[i] = x
  BY <1>2
<1> QED
  BY <1>3 DEF ToSet

LEMMA AnswerAdded ==
  ASSUME NEW s, Once(s), NEW p, AnswersTyped(ToSet(s), p), NEW m, AnswerTyped(m, p)
  PROVE  AnswersTyped(ToSet(Append(s, m)), p)
BY Added DEF AnswersTyped

LEMMA EventTyped ==
  ASSUME NEW p
  PROVE  AnswerTyped(ChangeEvent, p)
BY EventsAre DEF AnswerTyped

LEMMA RefusalTyped ==
  ASSUME NEW p, NEW id, p[id] # "preview"
  PROVE  AnswerTyped(Rejected(id), p)
BY EventsAre DEF AnswerTyped

\* What a handler sends: the event, an answer, or both.
LEMMA AnswersSent ==
  ASSUME CallsInv, WayTyped, NEW r, AnswerTyped(r, purpose),
         \/ Send(<<>>) \/ Send(<<ChangeEvent>>) \/ Send(Told) \/ Send(<<r>>)
         \/ Send(<<ChangeEvent, r>>) \/ Send(Told \o <<r>>)
  PROVE  AnswersTyped(ToSet(toPage'), purpose)
<1> DEFINE more == Append(toPage, ChangeEvent)
<1>1. Once(toPage) /\ Answered(ToSet(toPage), purpose)
  BY WhereCallsAre
<1>2. AnswersTyped(ToSet(toPage), purpose)
  BY DEF WayTyped
<1>3. Once(more) /\ AnswersTyped(ToSet(more), purpose)
  BY <1>1, <1>2, EventSent, EventTyped, AnswerAdded
<1>4. /\ AnswersTyped(ToSet(Append(toPage, r)), purpose)
      /\ AnswersTyped(ToSet(Append(more, r)), purpose)
  <2> HIDE DEF more
  <2> QED
    BY <1>1, <1>2, <1>3, AnswerAdded
<1>5. Told = <<>> \/ Told = <<ChangeEvent>>
  BY DEF Told
<1>6. \E s \in {<<>>, <<ChangeEvent>>, <<r>>, <<ChangeEvent, r>>, <<>> \o <<r>>,
                <<ChangeEvent>> \o <<r>>} : toPage' = toPage \o s
  <2> HIDE DEF Told
  <2>1. CASE Told = <<>>
    BY <2>1 DEF Send
  <2>2. CASE Told = <<ChangeEvent>>
    BY <2>2 DEF Send
  <2> QED
    BY <1>5, <2>1, <2>2
<1>7. toPage' \in {toPage, more, Append(toPage, r), Append(more, r)}
  <2>1. /\ toPage \o <<>> = toPage /\ toPage \o <<ChangeEvent>> = more
        /\ toPage \o <<r>> = Append(toPage, r)
        /\ toPage \o <<ChangeEvent, r>> = Append(more, r)
        /\ toPage \o (<<>> \o <<r>>) = Append(toPage, r)
        /\ toPage \o (<<ChangeEvent>> \o <<r>>) = Append(more, r)
    <3>1. ASSUME NEW x, NEW y
          PROVE  /\ toPage \o <<>> = toPage /\ toPage \o <<x>> = Append(toPage, x)
                 /\ toPage \o <<x, y>> = Append(Append(toPage, x), y)
                 /\ toPage \o (<<>> \o <<x>>) = Append(toPage, x)
                 /\ toPage \o (<<x>> \o <<y>>) = Append(Append(toPage, x), y)
      BY <1>1, Sends
    <3> QED
      BY <3>1
  <2> QED
    BY <1>6, <2>1
<1> HIDE DEF more
<1> QED
  BY <1>2, <1>3, <1>4, <1>7

LEMMA NewsSent ==
  ASSUME CallsInv, WayTyped, Send(<<>>) \/ Send(<<ChangeEvent>>) \/ Send(Told)
  PROVE  AnswersTyped(ToSet(toPage'), purpose)
BY EventTyped, AnswersSent

LEMMA StillTyped ==
  ASSUME PageTyped, UNCHANGED pageVars
  PROVE  PageTyped'
BY DEF PageTyped, pageVars

LEMMA SettingsStay ==
  ASSUME SettingsTypeOK, UNCHANGED settingsVars
  PROVE  SettingsTypeOK'
BY DEF SettingsTypeOK, settingsVars

LEMMA UsesLeft ==
  ASSUME left \in [Kinds -> Nat], NEW kind \in Kinds, Uses(kind)
  PROVE  left' \in [Kinds -> Nat]
BY DEF Uses

LEMMA TaskSent ==
  ASSUME CallsInv, TasksTyped(ToSet(worker)), NEW id, NEW busy \in BOOLEAN,
         SendState(id, busy)
  PROVE  TasksTyped(ToSet(worker'))
<1> DEFINE t == [do |-> "read", id |-> id, updating |-> busy]
<1>1. t.updating \in BOOLEAN /\ worker' = Append(worker, t)
  BY DEF SendState
<1> HIDE DEF t
<1>2. ToSet(worker') \subseteq ToSet(worker) \cup {t}
  BY <1>1, Added, WhereCallsAre
<1> QED
  BY <1>1, <1>2 DEF TasksTyped

\* The answers that stay on their way.
LEMMA AnswersStay ==
  ASSUME CallsInv, WayTyped, ToSet(toPage') \subseteq ToSet(toPage),
         \A c \in Ids(toPage') : purpose'[c] = purpose[c]
  PROVE  AnswersTyped(ToSet(toPage'), purpose')
<1>1. ASSUME NEW m \in ToSet(toPage'), ~m.event
      PROVE  purpose'[m.id] = purpose[m.id]
  <2>1. HasId(m)
    BY <1>1, WhereCallsAre DEF Answered
  <2> QED
    BY <1>1, <2>1 DEF Ids
<1> QED
  BY <1>1 DEF WayTyped, AnswersTyped, AnswerTyped

\* A call of the page.
LEMMA CallTyped ==
  ASSUME CallsInv, WayTyped, NEW id \in Calls, NEW what, NEW for, Call(id, what, for),
         NEW m, m = [id |-> id, what |-> what], CallsTyped({m}),
         ToSet(toPage') \subseteq ToSet(toPage), Ids(toPage') \subseteq Ids(toPage),
         UNCHANGED <<parsing, worker, fromWorker>>
  PROVE  /\ WayTyped' /\ purpose'[id] = for
         /\ \A c \in Calls \ {id} : purpose'[c] = purpose[c]
<1>1. /\ purpose[id] = Nothing /\ toBrowser' = Append(toBrowser, m)
      /\ purpose' = [purpose EXCEPT ![id] = for]
  BY DEF Call, NextCall
<1>2. purpose'[id] = for /\ \A c \in Calls \ {id} : purpose'[c] = purpose[c]
  BY <1>1 DEF CallsInv
<1>3. ToSet(toBrowser') \subseteq ToSet(toBrowser) \cup {m}
  BY <1>1, Added, WhereCallsAre
<1>4. CallsTyped(ToSet(toBrowser'))
  BY <1>3 DEF CallsTyped, WayTyped
<1>5. Ids(toPage) \subseteq Asking
  BY WhereCallsAre DEF Placed
<1>6. AnswersTyped(ToSet(toPage'), purpose')
  BY <1>1, <1>2, <1>5, AnswersStay DEF Asking
<1> QED
  BY <1>2, <1>4, <1>6 DEF WayTyped

LEMMA FlagsAreSet ==
  ASSUME CallsInv, NEW id \in Calls, purpose[id] # Nothing
  PROVE  Flags[purpose[id]] \subseteq flags
BY DEF CallsInv, FlagsOK

\* No preview is asked for while the file of another call is read.
LEMMA NoPreview ==
  ASSUME CallsInv, "reading" \notin flags
  PROVE  \A c \in Calls : purpose[c] # "preview"
<1>1. ASSUME NEW c \in Calls, purpose[c] = "preview" PROVE FALSE
  <2>1. Flags["preview"] = {"reading"} /\ "preview" # Nothing
    BY FlagsAssumption DEF Flags
  <2> QED
    BY <1>1, <2>1, FlagsAreSet
<1> QED
  BY <1>1

LEMMA AfterImport ==
  ASSUME CallsInv, NEW id \in Asking, purpose[id] = "imported"
  PROVE  \A c \in Calls : purpose[c] # "preview"
<1>1. ASSUME NEW c \in Calls, purpose[c] = "preview" PROVE FALSE
  <2>1. /\ Flags["preview"] = {"reading"} /\ "preview" # Nothing
        /\ Flags["imported"] = {"domains", "reading"}
    BY FlagsAssumption DEF Flags
  <2>2. c \in Asking /\ c # id
    BY <1>1, <2>1 DEF Asking
  <2> QED
    BY <1>1, <2>1, <2>2, CallsDiffer
<1> QED
  BY <1>1

LEMMA EditTyped ==
  ASSUME CallsInv, PageTyped, WayTyped, NEW what, NEW for, Edit(what, for),
         for # "preview", \A id \in Calls : CallsTyped({[id |-> id, what |-> what]}),
         UNCHANGED <<toPage, parsing, worker, fromWorker>>
  PROVE  PageTyped' /\ WayTyped'
<1>1. PICK id \in Calls : Call(id, what, for)
  BY DEF Edit
<1> DEFINE m == [id |-> id, what |-> what]
<1>2. CallsTyped({m})
  OBVIOUS
<1>3. m = [id |-> id, what |-> what]
  OBVIOUS
<1> HIDE DEF m
<1>4. /\ WayTyped' /\ purpose'[id] = for
      /\ \A c \in Calls \ {id} : purpose'[c] = purpose[c]
  BY <1>1, <1>2, <1>3, CallTyped
<1>5. UNCHANGED <<shown, latest, text, asked, preview>>
  BY DEF Edit
<1> QED
  BY <1>4, <1>5 DEF PageTyped

LEMMA EditsTyped ==
  ASSUME CallsInv, PageTyped, WayTyped, EditSettings \/ EditLists,
         UNCHANGED <<toPage, parsing, worker, fromWorker>>
  PROVE  PageTyped' /\ WayTyped'
<1>1. ASSUME NEW h \in Hosts, NEW on \in BOOLEAN,
             Edit([do |-> "exception", host |-> h, on |-> on], "exception")
      PROVE  PageTyped' /\ WayTyped'
  <2> DEFINE what == [do |-> "exception", host |-> h, on |-> on]
  <2>1. \A id \in Calls : CallsTyped({[id |-> id, what |-> what]})
    BY DEF CallsTyped
  <2> HIDE DEF what
  <2> QED
    BY <1>1, <2>1, EditTyped DEF what
<1>2. ASSUME NEW h \in Hosts, NEW on \in BOOLEAN, NEW replace \in BOOLEAN,
             Edit([do |-> "domain", host |-> h, on |-> on, replace |-> replace], "domains")
      PROVE  PageTyped' /\ WayTyped'
  <2> DEFINE what == [do |-> "domain", host |-> h, on |-> on, replace |-> replace]
  <2>1. \A id \in Calls : CallsTyped({[id |-> id, what |-> what]})
    BY DEF CallsTyped
  <2> HIDE DEF what
  <2> QED
    BY <1>2, <2>1, EditTyped DEF what
<1>3. ASSUME NEW H, Edit([do |-> "remove", hosts |-> H], "domains")
      PROVE  PageTyped' /\ WayTyped'
  <2> DEFINE what == [do |-> "remove", hosts |-> H]
  <2>1. \A id \in Calls : CallsTyped({[id |-> id, what |-> what]})
    BY DEF CallsTyped
  <2> HIDE DEF what
  <2> QED
    BY <1>3, <2>1, EditTyped DEF what
<1>4. ASSUME NEW do \in {"check", "subscription"}, NEW for \in {"lists", "subscription"},
             Edit([do |-> do], for)
      PROVE  PageTyped' /\ WayTyped'
  <2> DEFINE what == [do |-> do]
  <2>1. \A id \in Calls : CallsTyped({[id |-> id, what |-> what]})
    BY DEF CallsTyped
  <2> HIDE DEF what
  <2> QED
    BY <1>4, <2>1, EditTyped DEF what
<1> QED
  BY <1>1, <1>2, <1>3, <1>4 DEF EditSettings, EditLists

\* The page asks with a file it has, while it shows what it compares with.
LEMMA AskTyped ==
  ASSUME CallsInv, PageTyped, WayTyped, NEW f \in Rules, ~Disabled, AskPreview(f),
         preview' = preview \/ preview' = Nothing,
         UNCHANGED <<toPage, parsing, worker, fromWorker>>
  PROVE  PageTyped' /\ WayTyped'
<1> DEFINE what == [do |-> "preview", file |-> f]
<1>1. PICK id \in Calls : Call(id, what, "preview")
  BY DEF AskPreview
<1> DEFINE m == [id |-> id, what |-> what]
<1>2. CallsTyped({m})
  BY DEF CallsTyped
<1>3. m = [id |-> id, what |-> what]
  OBVIOUS
<1> HIDE DEF m, what
<1>4. WayTyped'
  BY <1>1, <1>2, <1>3, CallTyped
<1>5. text' = f /\ asked' = shown.blocked /\ UNCHANGED <<shown, latest>>
  BY DEF AskPreview
<1>6. shown \in PageStates
  BY DEF Disabled, PageTyped
<1>7. shown.blocked \in Rules
  BY <1>6 DEF PageStates
<1> QED
  BY <1>4, <1>5, <1>7 DEF PageTyped

LEMMA ApplyTyped ==
  ASSUME CallsInv, PageTyped, WayTyped, Apply,
         UNCHANGED <<toPage, parsing, worker, fromWorker>>
  PROVE  PageTyped' /\ WayTyped'
<1> DEFINE what == [do |-> "import", file |-> Approved]
<1>1. PICK id \in Calls : Call(id, what, "import")
  BY DEF Apply
<1>2. Approved \in Rules
  BY DEF Apply, Approved, PageTyped
<1> DEFINE m == [id |-> id, what |-> what]
<1>3. CallsTyped({m})
  BY <1>2 DEF CallsTyped
<1>4. m = [id |-> id, what |-> what]
  OBVIOUS
<1> HIDE DEF m, what
<1>5. /\ WayTyped' /\ purpose'[id] = "import"
      /\ \A c \in Calls \ {id} : purpose'[c] = purpose[c]
  BY <1>1, <1>3, <1>4, CallTyped
<1>6. UNCHANGED <<shown, latest, text, asked, preview>>
  BY DEF Apply
<1> QED
  BY <1>5, <1>6 DEF PageTyped

LEMMA CancelTyped ==
  ASSUME CallsInv, PageTyped, WayTyped, Cancel,
         UNCHANGED <<toPage, parsing, worker, fromWorker>>
  PROVE  PageTyped' /\ WayTyped'
<1>1. /\ preview' = Nothing /\ text' = Nothing /\ asked' = Nothing
      /\ UNCHANGED <<shown, latest, purpose, toBrowser>> /\ "reading" \notin flags
  BY DEF Cancel, Disabled
<1>2. \A c \in Calls : purpose[c] # "preview"
  BY <1>1, NoPreview
<1>3. PageTyped'
  BY <1>1, <1>2 DEF PageTyped
<1> QED
  BY <1>1, <1>3 DEF WayTyped

LEMMA UserTyped ==
  ASSUME CallsInv, TypesInv, UserActs
  PROVE  TypesInv'
<1>1. /\ SettingsTypeOK' /\ UNCHANGED <<toPage, parsing, worker, fromWorker, lists>>
      /\ PageTyped /\ WayTyped
  BY SettingsStay DEF UserActs, workerVars, TypesInv
<1>2. left' \in [Kinds -> Nat]
  BY UsesLeft DEF UserActs, TypesInv, Kinds
<1>3. \/ EditSettings \/ EditLists \/ Apply \/ Cancel
      \/ \E f \in Rules : ReadFile(f)
  BY DEF UserActs
<1>4. ASSUME NEW f \in Rules, ReadFile(f) PROVE PageTyped' /\ WayTyped'
  BY <1>1, <1>4, AskTyped DEF ReadFile
<1>5. PageTyped' /\ WayTyped'
  BY <1>1, <1>3, <1>4, EditsTyped, ApplyTyped, CancelTyped
<1> QED
  BY <1>1, <1>2, <1>5 DEF TypesInv

LEMMA EffectTyped ==
  ASSUME CallsInv, TypesInv, PageRunsEffect
  PROVE  TypesInv'
<1>1. /\ SettingsTypeOK'
      /\ UNCHANGED <<toPage, parsing, worker, fromWorker, lists, left>>
      /\ PageTyped /\ WayTyped
  BY SettingsStay DEF PageRunsEffect, workerVars, TypesInv
<1>2. ~Disabled /\ AskPreview(text) /\ preview' = preview /\ preview # Nothing
  BY DEF PageRunsEffect, RefreshPreview, EffectDue, Stale
<1>3. text \in Rules
  BY <1>1, <1>2 DEF PageTyped
<1>4. PageTyped' /\ WayTyped'
  BY <1>1, <1>2, <1>3, AskTyped
<1> QED
  BY <1>1, <1>4 DEF TypesInv

\* An answer is taken: the others stay as they are.
LEMMA OverTyped ==
  ASSUME CallsInv, WayTyped, toPage # <<>>, ~Head(toPage).event, toPage' = Tail(toPage),
         NEW id, id = Head(toPage).id, Over(id),
         UNCHANGED <<parsing, worker, fromWorker, waiting, flight>>
  PROVE  /\ WayTyped' /\ purpose'[id] = Nothing
         /\ \A c \in Calls \ {id} : purpose'[c] = purpose[c]
<1>1. /\ CallsInv' /\ purpose'[id] = Nothing
      /\ \A c \in Calls \ {id} : purpose'[c] = purpose[c]
  BY CallOver
<1>2. HasId(Head(toPage))
  BY AnswerIs
<1>3. Ids(toPage') = Ids(toPage) \ {id} /\ ToSet(toPage') \subseteq ToSet(toPage)
  BY <1>2, WhereCallsAre, Tails
<1>4. Ids(toPage) \subseteq Calls
  BY WhereCallsAre DEF Placed, Asking
<1>5. AnswersTyped(ToSet(toPage'), purpose')
  BY <1>1, <1>3, <1>4, AnswersStay
<1> QED
  BY <1>1, <1>5 DEF WayTyped, Over

LEMMA HeadTyped ==
  ASSUME CallsInv, WayTyped, toPage # <<>>, ~Head(toPage).event
  PROVE  /\ AnswerTyped(Head(toPage), purpose)
         /\ Head(toPage).id \in Asking
         /\ purpose[Head(toPage).id] \in {"refresh", "imported"} => Head(toPage).ok
<1>1. /\ Head(toPage) \in ToSet(toPage) /\ HasId(Head(toPage))
      /\ Head(toPage).id \in Asking
  BY AnswerIs
<1> QED
  BY <1>1, WhereCallsAre DEF WayTyped, AnswersTyped, Answered

LEMMA RefreshTyped ==
  ASSUME CallsInv, PageTyped, WayTyped, toPage # <<>>, ~Head(toPage).event,
         toPage' = Tail(toPage), NEW m, m = Head(toPage), RefreshEnds(m),
         UNCHANGED <<parsing, worker, fromWorker, waiting, flight>>
  PROVE  PageTyped' /\ WayTyped'
<1>1. purpose[m.id] \in {"refresh", "imported"} /\ Over(m.id)
  BY DEF RefreshEnds
<1>2. /\ WayTyped' /\ purpose'[m.id] = Nothing
      /\ \A c \in Calls \ {m.id} : purpose'[c] = purpose[c]
  BY <1>1, OverTyped
<1>3. m.value \in PageStates /\ m.id \in Asking
  BY <1>1, HeadTyped DEF AnswerTyped, StateCalls
<1>4. shown' \in PageStates \cup {Nothing} /\ latest' \in Calls \cup {Nothing}
  BY <1>3 DEF RefreshEnds, PageTyped
<1>5. \A c \in Calls : purpose'[c] = "preview" => purpose[c] = "preview"
  BY <1>2, FlagsAssumption DEF Flags
<1>6. CASE purpose[m.id] = "imported"
  <2>1. preview' = Nothing /\ text' = Nothing /\ asked' = Nothing
    BY <1>6 DEF RefreshEnds
  <2>2. \A c \in Calls : purpose'[c] # "preview"
    BY <1>3, <1>5, <1>6, AfterImport
  <2> QED
    BY <1>2, <1>4, <2>1, <2>2 DEF PageTyped
<1>7. CASE purpose[m.id] # "imported"
  <2>1. UNCHANGED <<preview, text, asked>>
    BY <1>7 DEF RefreshEnds
  <2> QED
    BY <1>2, <1>4, <1>5, <2>1 DEF PageTyped
<1> QED
  BY <1>6, <1>7

LEMMA DoneTyped ==
  ASSUME CallsInv, PageTyped, WayTyped, toPage # <<>>, ~Head(toPage).event,
         toPage' = Tail(toPage), NEW m, m = Head(toPage), Done(m),
         UNCHANGED <<parsing, worker, fromWorker, waiting, flight>>
  PROVE  PageTyped' /\ WayTyped'
<1>1. /\ purpose[m.id] \in {"exception", "domains", "lists", "subscription"}
      /\ Over(m.id) /\ UNCHANGED <<text, asked, preview>>
  BY DEF Done
<1>2. /\ WayTyped' /\ purpose'[m.id] = Nothing
      /\ \A c \in Calls \ {m.id} : purpose'[c] = purpose[c]
  BY <1>1, OverTyped
<1>3. m.ok => m.value \in PageStates
  BY <1>1, HeadTyped DEF AnswerTyped, StateCalls
<1>4. shown' \in PageStates \cup {Nothing} /\ latest' \in Calls \cup {Nothing}
  BY <1>3 DEF Done, PageTyped
<1>5. \A c \in Calls : purpose'[c] = "preview" => purpose[c] = "preview"
  BY <1>2, FlagsAssumption DEF Flags
<1> QED
  BY <1>1, <1>2, <1>4, <1>5 DEF PageTyped

LEMMA PreviewTyped ==
  ASSUME CallsInv, PageTyped, WayTyped, toPage # <<>>, ~Head(toPage).event,
         toPage' = Tail(toPage), NEW m, m = Head(toPage), Previewed(m),
         UNCHANGED <<parsing, worker, fromWorker, waiting, flight>>
  PROVE  PageTyped' /\ WayTyped'
<1>1. /\ purpose[m.id] = "preview" /\ Over(m.id) /\ UNCHANGED <<shown, latest, text, asked>>
      /\ preview' = [additions |-> m.value, rules |-> asked]
  BY DEF Previewed
<1>2. /\ WayTyped' /\ purpose'[m.id] = Nothing
      /\ \A c \in Calls \ {m.id} : purpose'[c] = purpose[c]
  BY <1>1, OverTyped
<1>3. m.value \in Rules /\ m.id \in Calls
  BY <1>1, HeadTyped DEF AnswerTyped, Asking
<1>4. text \in Rules /\ asked \in Rules
  BY <1>1, <1>3 DEF PageTyped
<1>5. preview' \in [additions : Rules, rules : Rules]
  BY <1>1, <1>3, <1>4
<1>6. \A c \in Calls : purpose'[c] = "preview" => purpose[c] = "preview"
  BY <1>2, FlagsAssumption DEF Flags
<1> QED
  BY <1>1, <1>2, <1>4, <1>5, <1>6 DEF PageTyped

LEMMA ImportedTyped ==
  ASSUME CallsInv, PageTyped, WayTyped, toPage # <<>>, ~Head(toPage).event,
         toPage' = Tail(toPage), NEW m, m = Head(toPage), Imported(m),
         UNCHANGED <<parsing, worker, fromWorker, waiting, flight>>
  PROVE  PageTyped' /\ WayTyped'
<1>1. purpose[m.id] = "import" /\ UNCHANGED <<shown, text, asked, preview>>
  BY DEF Imported
<1>2. CASE Over(m.id) /\ UNCHANGED latest
  <2>1. /\ WayTyped' /\ purpose'[m.id] = Nothing
        /\ \A c \in Calls \ {m.id} : purpose'[c] = purpose[c]
    BY <1>2, OverTyped
  <2>2. \A c \in Calls : purpose'[c] = "preview" => purpose[c] = "preview"
    BY <2>1, FlagsAssumption DEF Flags
  <2> QED
    BY <1>1, <1>2, <2>1, <2>2 DEF PageTyped
<1>3. ASSUME NEW next \in Calls, CallAgain(m.id, next, "imported"), UNCHANGED flags
      PROVE  PageTyped' /\ WayTyped'
  <2> DEFINE n == [id |-> next, what |-> [do |-> "get"]]
  <2>1. /\ purpose'[m.id] = Nothing /\ purpose'[next] = "imported" /\ next # m.id
        /\ \A c \in Calls \ {m.id, next} : purpose'[c] = purpose[c]
        /\ ToSet(toBrowser') = ToSet(toBrowser) \cup {n}
    BY <1>1, <1>3, CallAgainMade
  <2>2. CallsTyped({n})
    BY DEF CallsTyped
  <2> HIDE DEF n
  <2>3. CallsTyped(ToSet(toBrowser'))
    BY <2>1, <2>2 DEF CallsTyped, WayTyped
  <2>4. purpose[next] = Nothing /\ latest' = next
    BY <1>3 DEF CallAgain, NextCall
  <2>5. HasId(m) /\ Ids(toPage) \subseteq Asking
    BY AnswerIs, WhereCallsAre DEF Placed
  <2>6. Ids(toPage') = Ids(toPage) \ {m.id} /\ ToSet(toPage') \subseteq ToSet(toPage)
    BY <2>5, WhereCallsAre, Tails
  <2>7. AnswersTyped(ToSet(toPage'), purpose')
    BY <2>1, <2>4, <2>5, <2>6, AnswersStay DEF Asking
  <2>8. \A c \in Calls : purpose'[c] = "preview" => purpose[c] = "preview"
    BY <2>1, FlagsAssumption DEF Flags
  <2>9. PageTyped'
    BY <1>1, <2>4, <2>8 DEF PageTyped
  <2> QED
    BY <2>3, <2>7, <2>9 DEF WayTyped
<1> QED
  BY <1>2, <1>3 DEF Imported

LEMMA ChangeTyped ==
  ASSUME CallsInv, PageTyped, WayTyped, toPage # <<>>, toPage' = Tail(toPage), SettingsChanged,
         UNCHANGED <<parsing, worker, fromWorker>>
  PROVE  PageTyped' /\ WayTyped'
<1> DEFINE what == [do |-> "get"]
<1>1. PICK id \in Calls : Call(id, what, "refresh") /\ latest' = id
  BY DEF SettingsChanged
<1> DEFINE m == [id |-> id, what |-> what]
<1>2. CallsTyped({m})
  BY DEF CallsTyped
<1>3. m = [id |-> id, what |-> what]
  OBVIOUS
<1>4. Ids(toPage') \subseteq Ids(toPage) /\ ToSet(toPage') \subseteq ToSet(toPage)
  BY WhereCallsAre, Tails
<1> HIDE DEF m, what
<1>5. /\ WayTyped' /\ purpose'[id] = "refresh"
      /\ \A c \in Calls \ {id} : purpose'[c] = purpose[c]
  BY <1>1, <1>2, <1>3, <1>4, CallTyped
<1>6. UNCHANGED <<shown, text, asked, preview>>
  BY DEF SettingsChanged
<1> QED
  BY <1>1, <1>5, <1>6 DEF PageTyped

LEMMA ReceivedTyped ==
  ASSUME CallsInv, TypesInv, PageReceives
  PROVE  TypesInv'
<1> DEFINE m == Head(toPage)
<1>1. /\ toPage # <<>> /\ toPage' = Tail(toPage)
      /\ UNCHANGED <<settingsVars, parsing, flight, waiting, worker, fromWorker, lists, left>>
      /\ \/ SettingsChanged
         \/ ~m.event /\ (RefreshEnds(m) \/ Done(m) \/ Previewed(m) \/ Imported(m))
  BY DEF PageReceives, workerVars
<1>2. m = Head(toPage) /\ PageTyped /\ WayTyped /\ SettingsTypeOK'
  BY <1>1, SettingsStay DEF TypesInv
<1> HIDE DEF m
<1>3. PageTyped' /\ WayTyped'
  BY <1>1, <1>2, ChangeTyped, RefreshTyped, DoneTyped, PreviewTyped, ImportedTyped
<1> QED
  BY <1>1, <1>2, <1>3 DEF TypesInv

\* What a call asks of the browser.
LEMMA TakenTyped ==
  ASSUME CallsInv, WayTyped, toBrowser # <<>>, toBrowser' = Tail(toBrowser),
         NEW m, m = Head(toBrowser)
  PROVE  /\ CallsTyped({m}) /\ CallsTyped(ToSet(toBrowser'))
         /\ purpose[m.id] \in Wants[m.what.do] /\ m.what.do \in DOMAIN Wants
BY CallTaken DEF CallsTyped, WayTyped

\* The settings a call or another page changes stay within their kinds.
LEMMA ChangesTyped ==
  ASSUME CallsInv, WayTyped, SettingsTypeOK, NEW m, CallsTyped({m}), ChangeSettings(m)
  PROVE  SettingsTypeOK' /\ AnswersTyped(ToSet(toPage'), purpose) /\ TasksTyped(ToSet(worker'))
<1>1. Send(Told) /\ SendState(m.id, flight # "idle")
  BY DEF ChangeSettings
<1>2. AnswersTyped(ToSet(toPage'), purpose) /\ TasksTyped(ToSet(worker'))
  BY <1>1, NewsSent, TaskSent DEF WayTyped
<1>3. /\ m.what.do \in {"exception", "domain"} => m.what.host \in Hosts /\ m.what.on \in BOOLEAN
      /\ m.what.do = "domain" => m.what.replace \in BOOLEAN
  BY DEF CallsTyped
<1>4. SettingsTypeOK'
  BY <1>3, SiteIsSet, DomainIsSet, DomainsAreRemoved DEF ChangeSettings
<1> QED
  BY <1>2, <1>4

LEMMA CallIsTyped ==
  ASSUME CallsInv, TypesInv, toBrowser # <<>>, toBrowser' = Tail(toBrowser),
         NEW m, m = Head(toBrowser),
         \/ GetState(m) \/ ChangeSettings(m) \/ RefuseDomain(m)
         \/ CheckWaits(m) \/ CheckEnds(m) \/ ChangeSubscription(m)
         \/ ReadFileOf(m)
  PROVE  /\ SettingsTypeOK' /\ AnswersTyped(ToSet(toPage'), purpose)
         /\ TasksTyped(ToSet(worker')) /\ CallsTyped(parsing')
<1>1. /\ SettingsTypeOK /\ WayTyped /\ TasksTyped(ToSet(worker)) /\ CallsTyped(parsing)
      /\ AnswersTyped(ToSet(toPage), purpose)
  BY DEF TypesInv, WayTyped
<1>2. /\ CallsTyped({m})
      /\ purpose[m.id] \in Wants[m.what.do] /\ m.what.do \in DOMAIN Wants
  BY <1>1, TakenTyped
<1>3. CASE GetState(m)
  BY <1>1, <1>3, TaskSent, SettingsStay DEF GetState
<1>4. CASE ChangeSettings(m)
  BY <1>1, <1>2, <1>4, ChangesTyped DEF ChangeSettings
<1>5. CASE RefuseDomain(m)
  <2>1. purpose[m.id] # "preview"
    BY <1>2, <1>5 DEF RefuseDomain, Refused, Wants
  <2>2. AnswersTyped(ToSet(toPage'), purpose)
    BY <1>1, <1>5, <2>1, RefusalTyped, AnswersSent DEF RefuseDomain
  <2> QED
    BY <1>1, <1>5, <2>2, SettingsStay DEF RefuseDomain
<1>6. CASE CheckWaits(m)
  <2>1. AnswersTyped(ToSet(toPage'), purpose)
    BY <1>1, <1>6, NewsSent DEF CheckWaits
  <2> QED
    BY <1>1, <1>6, <2>1, SettingsStay DEF CheckWaits
<1>7. CASE CheckEnds(m)
  BY <1>1, <1>7, TaskSent, SettingsStay DEF CheckEnds
<1>8. CASE ChangeSubscription(m)
  <2>1. purpose[m.id] # "preview"
    BY <1>2, <1>8 DEF ChangeSubscription, Wants
  <2>2. AnswersTyped(ToSet(toPage'), purpose)
    BY <1>1, <1>8, <2>1, RefusalTyped, AnswersSent, NewsSent DEF ChangeSubscription
  <2> QED
    BY <1>1, <1>8, <2>2, SettingsStay DEF ChangeSubscription
<1>9. CASE ReadFileOf(m)
  <2>1. /\ m.what.do \in {"preview", "import"} /\ parsing' = parsing \cup {m}
        /\ UNCHANGED <<toPage, worker>>
        /\ ReadDomainFile(m.what.file) \/ UNCHANGED settingsVars
    BY <1>9 DEF ReadFileOf
  <2>2. m.what.file \in Rules
    BY <1>2, <2>1 DEF CallsTyped
  <2>3. SettingsTypeOK'
    BY <1>1, <2>1, <2>2, SettingsStay DEF ReadDomainFile, SettingsTypeOK
  <2>4. CallsTyped(parsing')
    BY <1>1, <1>2, <2>1 DEF CallsTyped
  <2> QED
    BY <1>1, <2>1, <2>3, <2>4
<1> QED
  BY <1>3, <1>4, <1>5, <1>6, <1>7, <1>8, <1>9

LEMMA ReceivesTyped ==
  ASSUME CallsInv, TypesInv, Receives
  PROVE  TypesInv'
<1> DEFINE m == Head(toBrowser)
<1>1. /\ toBrowser # <<>> /\ toBrowser' = Tail(toBrowser)
      /\ UNCHANGED <<pageVars, lists, fromWorker, left>>
      /\ \/ GetState(m) \/ ChangeSettings(m) \/ RefuseDomain(m)
         \/ CheckWaits(m) \/ CheckEnds(m) \/ ChangeSubscription(m)
         \/ ReadFileOf(m)
  BY DEF Receives
<1>2. m = Head(toBrowser) /\ WayTyped
  BY DEF TypesInv
<1> HIDE DEF m
<1>3. /\ SettingsTypeOK' /\ AnswersTyped(ToSet(toPage'), purpose)
      /\ TasksTyped(ToSet(worker')) /\ CallsTyped(parsing')
  BY <1>1, <1>2, CallIsTyped
<1>4. CallsTyped(ToSet(toBrowser'))
  BY <1>1, <1>2, TakenTyped
<1>5. purpose' = purpose /\ PageTyped'
  BY <1>1, StillTyped DEF pageVars, TypesInv
<1> QED
  BY <1>1, <1>3, <1>4, <1>5 DEF TypesInv, WayTyped

LEMMA ParsedTyped ==
  ASSUME CallsInv, TypesInv, NEW m \in parsing, FileIsParsed(m)
  PROVE  TypesInv'
<1>1. /\ SettingsTypeOK /\ PageTyped /\ WayTyped
      /\ CallsTyped(parsing) /\ UNCHANGED <<pageVars, toBrowser, lists, worker, fromWorker, left>>
      /\ parsing' = parsing \ {m}
  BY DEF TypesInv, WayTyped, FileIsParsed, workerVars
<1>2. m.what.do \in DOMAIN Wants /\ purpose[m.id] \in Wants[m.what.do]
  BY WhereCallsAre DEF Asked
<1>3. CASE m.what.do = "import"
  <2>1. purpose[m.id] = "import"
    BY <1>2, <1>3 DEF Wants
  <2>2. ImportBlockedDomains
    BY <1>3 DEF FileIsParsed
  <2>3. SettingsTypeOK'
    BY <1>1, <2>2, FileIsImported
  <2>4. AnswerTyped(Rejected(m.id), purpose) /\ AnswerTyped(Resolved(m.id, "added"), purpose)
    BY <2>1, EventsAre DEF AnswerTyped, StateCalls
  <2>5. Send(<<Rejected(m.id)>>) \/ Send(Told \o <<Resolved(m.id, "added")>>)
    BY <1>3 DEF FileIsParsed
  <2>6. AnswersTyped(ToSet(toPage'), purpose)
    <3>1. CASE Send(<<Rejected(m.id)>>)
      BY <1>1, <2>4, <3>1, AnswersSent
    <3>2. CASE Send(Told \o <<Resolved(m.id, "added")>>)
      BY <1>1, <2>4, <3>2, AnswersSent
    <3> QED
      BY <2>5, <3>1, <3>2
  <2> QED
    BY <1>1, <2>3, <2>6, StillTyped DEF TypesInv, WayTyped, CallsTyped, pageVars
<1>4. CASE m.what.do = "preview"
  <2>1. purpose[m.id] = "preview" /\ m.what.file \in Rules
    BY <1>1, <1>2, <1>4 DEF Wants, CallsTyped
  <2>2. Additions(m.what.file) \in Rules
    <3> DEFINE f == m.what.file
               D == DOMAIN f \ DOMAIN blocked
    <3>1. DOMAIN f \subseteq Hosts /\ \A d \in DOMAIN f : f[d] \in BOOLEAN
      BY <2>1, RulesAre
    <3> HIDE DEF f
    <3>2. Restrict(f, D) \in [D -> BOOLEAN] /\ D \subseteq Hosts
      BY <3>1 DEF Restrict
    <3>3. Restrict(f, D) \in Rules
      BY <3>2, AreRules
    <3> QED
      BY <3>3 DEF Additions, f
  <2>3. AnswerTyped(Resolved(m.id, Additions(m.what.file)), purpose)
    BY <2>1, <2>2, EventsAre DEF AnswerTyped, StateCalls
  <2>4. Send(<<Resolved(m.id, Additions(m.what.file))>>) /\ UNCHANGED settingsVars
    BY <1>4 DEF FileIsParsed
  <2>5. AnswersTyped(ToSet(toPage'), purpose)
    BY <1>1, <2>3, <2>4, AnswersSent
  <2>6. SettingsTypeOK'
    BY <1>1, <2>4, SettingsStay
  <2> QED
    BY <1>1, <2>5, <2>6, StillTyped DEF TypesInv, WayTyped, CallsTyped, pageVars
<1> QED
  BY <1>3, <1>4 DEF FileIsParsed

\* The coordinator starts, writes and ends; only its last step answers a call.
LEMMA StartsTyped ==
  ASSUME CallsInv, TypesInv, FlightStarts
  PROVE  TypesInv'
<1>1. /\ Send(<<ChangeEvent>>) /\ Uses("flight")
      /\ UNCHANGED <<settingsVars, pageVars, toBrowser, parsing, lists, worker, fromWorker>>
      /\ PageTyped /\ WayTyped /\ SettingsTypeOK /\ left \in [Kinds -> Nat]
  BY DEF FlightStarts, workerVars, TypesInv
<1>2. AnswersTyped(ToSet(toPage'), purpose) /\ left' \in [Kinds -> Nat]
  BY <1>1, NewsSent, UsesLeft DEF Kinds
<1> QED
  BY <1>1, <1>2, StillTyped, SettingsStay DEF TypesInv, WayTyped, pageVars

LEMMA WritesTyped ==
  ASSUME CallsInv, TypesInv, FlightWrites
  PROVE  TypesInv'
<1> DEFINE t == [do |-> "write"]
<1>1. /\ worker' = Append(worker, t) /\ t.do = "write"
      /\ UNCHANGED <<settingsVars, pageVars, toBrowser, toPage, parsing, lists, fromWorker, left>>
      /\ PageTyped /\ WayTyped /\ SettingsTypeOK
  BY DEF FlightWrites, TypesInv
<1> HIDE DEF t
<1>2. ToSet(worker') \subseteq ToSet(worker) \cup {t}
  BY <1>1, Added, WhereCallsAre
<1>3. TasksTyped(ToSet(worker'))
  BY <1>1, <1>2 DEF TasksTyped, WayTyped
<1> QED
  BY <1>1, <1>3, StillTyped, SettingsStay DEF TypesInv, WayTyped, pageVars

LEMMA EndsTyped ==
  ASSUME CallsInv, TypesInv, NEW ok \in BOOLEAN, FlightEnds(ok),
         RepliesTyped(ToSet(fromWorker'))
  PROVE  TypesInv'
<1>1. /\ UNCHANGED <<settingsVars, pageVars, toBrowser, parsing, lists, left>>
      /\ \/ Send(<<ChangeEvent>>)
         \/ waiting # Nothing /\ Send(<<ChangeEvent, Rejected(waiting)>>)
      /\ UNCHANGED worker \/ SendState(waiting, FALSE)
      /\ PageTyped /\ WayTyped /\ SettingsTypeOK
  BY DEF FlightEnds, TypesInv
<1>2. waiting # Nothing => purpose[waiting] # "preview"
  BY WhereCallsAre DEF FlightOK
<1>3. AnswersTyped(ToSet(toPage'), purpose)
  BY <1>1, <1>2, NewsSent, RefusalTyped, AnswersSent
<1>4. TasksTyped(ToSet(worker'))
  BY <1>1, TaskSent DEF WayTyped
<1> QED
  BY <1>1, <1>3, <1>4, StillTyped, SettingsStay DEF TypesInv, WayTyped, pageVars

LEMMA FailsTyped ==
  ASSUME CallsInv, TypesInv, DownloadFails
  PROVE  TypesInv'
<1>1. RepliesTyped(ToSet(fromWorker')) /\ FlightEnds(FALSE)
  BY DEF DownloadFails, TypesInv, WayTyped
<1> QED
  BY <1>1, EndsTyped

\* A task that reads takes the lists as they are now.
LEMMA WorkerTyped ==
  ASSUME CallsInv, TypesInv, WorkerRuns
  PROVE  TypesInv'
<1> DEFINE t == Head(worker)
<1>1. /\ worker # <<>> /\ worker' = Tail(worker)
      /\ UNCHANGED <<settingsVars, pageVars, toBrowser, toPage, parsing, left>>
      /\ \/ /\ t.do = "read"
            /\ fromWorker' = Append(fromWorker, WithLists(t))
            /\ UNCHANGED lists
         \/ \E ok \in BOOLEAN :
              /\ lists' = IF ok THEN lists + 1 ELSE lists
              /\ fromWorker' = Append(fromWorker, [do |-> "write", ok |-> ok])
      /\ PageTyped /\ WayTyped /\ SettingsTypeOK /\ lists \in Nat
  BY DEF WorkerRuns, TypesInv
<1>2. /\ t \in ToSet(worker) /\ ToSet(worker') \subseteq ToSet(worker)
      /\ Once(fromWorker)
  BY <1>1, WhereCallsAre, Tails
<1> HIDE DEF t
<1>3. TasksTyped(ToSet(worker')) /\ lists' \in Nat
  <2>1. TasksTyped(ToSet(worker'))
    BY <1>1, <1>2 DEF TasksTyped, WayTyped
  <2>2. lists' \in {lists, lists + 1}
    BY <1>1
  <2> QED
    BY <1>1, <2>1, <2>2
<1>4. PICK r : fromWorker' = Append(fromWorker, r) /\ RepliesTyped({r})
  <2>1. CASE t.do = "read" /\ fromWorker' = Append(fromWorker, WithLists(t))
    <3>1. t.updating \in BOOLEAN
      BY <1>1, <1>2, <2>1 DEF TasksTyped, WayTyped
    <3>2. RepliesTyped({WithLists(t)})
      BY <1>1, <3>1 DEF RepliesTyped, WithLists
    <3> QED
      BY <2>1, <3>2
  <2>2. ASSUME NEW ok \in BOOLEAN, fromWorker' = Append(fromWorker, [do |-> "write", ok |-> ok])
        PROVE  \E r : fromWorker' = Append(fromWorker, r) /\ RepliesTyped({r})
    <3>1. RepliesTyped({[do |-> "write", ok |-> ok]})
      BY DEF RepliesTyped
    <3> QED
      BY <2>2, <3>1
  <2> QED
    BY <1>1, <2>1, <2>2
<1>5. ToSet(fromWorker') \subseteq ToSet(fromWorker) \cup {r}
  BY <1>2, <1>4, Added
<1>6. RepliesTyped(ToSet(fromWorker'))
  BY <1>1, <1>4, <1>5 DEF RepliesTyped, WayTyped
<1> QED
  BY <1>1, <1>3, <1>6, StillTyped, SettingsStay DEF TypesInv, WayTyped, pageVars

\* An answer with the state: the settings as they are now, the lists as read.
LEMMA ReplyTyped ==
  ASSUME CallsInv, TypesInv, ReplyRuns
  PROVE  TypesInv'
<1> DEFINE r == Head(fromWorker)
<1>1. /\ fromWorker # <<>> /\ fromWorker' = Tail(fromWorker)
      /\ PageTyped /\ WayTyped /\ SettingsTypeOK
      /\ \/ /\ r.do = "read"
            /\ Send(<<Resolved(r.id, State(r))>>)
            /\ UNCHANGED <<settingsVars, pageVars, toBrowser, parsing, flight,
                           waiting, lists, worker, left>>
         \/ r.do = "write" /\ FlightEnds(r.ok)
  BY DEF ReplyRuns, TypesInv
<1>2. r \in ToSet(fromWorker) /\ ToSet(fromWorker') \subseteq ToSet(fromWorker)
  BY <1>1, WhereCallsAre, Tails
<1> HIDE DEF r
<1>3. RepliesTyped(ToSet(fromWorker'))
  BY <1>1, <1>2 DEF RepliesTyped, WayTyped
<1>4. CASE r.do = "write" /\ FlightEnds(r.ok)
  <2>1. FlightEnds(TRUE) \/ FlightEnds(FALSE)
    BY <1>4 DEF FlightEnds
  <2> QED
    BY <1>3, <2>1, EndsTyped
<1>5. CASE /\ r.do = "read" /\ Send(<<Resolved(r.id, State(r))>>)
           /\ UNCHANGED <<settingsVars, pageVars, toBrowser, parsing, lists, worker, left>>
  <2>1. r.updating \in BOOLEAN /\ r.lists \in Nat
    BY <1>1, <1>2, <1>5 DEF RepliesTyped, WayTyped
  <2>2. State(r) \in PageStates
    BY <1>1, <2>1 DEF State, PageStates, SettingsTypeOK
  <2>3. purpose[r.id] \in StateCalls
    BY <1>2, <1>5, WhereCallsAre DEF Composed
  <2>4. AnswerTyped(Resolved(r.id, State(r)), purpose)
    BY <2>2, <2>3, EventsAre DEF AnswerTyped, StateCalls
  <2>5. AnswersTyped(ToSet(toPage'), purpose)
    BY <1>1, <1>5, <2>4, AnswersSent
  <2> QED
    BY <1>1, <1>3, <1>5, <2>5, StillTyped, SettingsStay DEF TypesInv, WayTyped, pageVars
<1> QED
  BY <1>1, <1>4, <1>5

LEMMA OtherTyped ==
  ASSUME CallsInv, TypesInv, OtherPageChanges
  PROVE  TypesInv'
<1>1. /\ Uses("other") /\ Send(Told)
      /\ UNCHANGED <<pageVars, toBrowser, parsing, lists, worker, fromWorker>>
      /\ PageTyped /\ WayTyped /\ SettingsTypeOK /\ left \in [Kinds -> Nat]
  BY DEF OtherPageChanges, workerVars, TypesInv
<1>2. SettingsTypeOK'
  BY <1>1, SiteIsSet, DomainIsSet, DomainsAreRemoved DEF OtherPageChanges
<1>3. AnswersTyped(ToSet(toPage'), purpose) /\ left' \in [Kinds -> Nat]
  BY <1>1, NewsSent, UsesLeft DEF Kinds
<1> QED
  BY <1>1, <1>2, <1>3, StillTyped DEF TypesInv, WayTyped, pageVars

LEMMA TypesStart == SettingsPageInit => TypesInv
<1>1. SUFFICES ASSUME SettingsPageInit PROVE TypesInv
  OBVIOUS
<1>2. SettingsTypeOK /\ lists \in Nat /\ left \in [Kinds -> Nat]
  BY <1>1, SettingsStart, SettingsPageAssumption DEF SettingsPageInit
<1>3. PICK id \in Calls :
        /\ latest = id
        /\ purpose = [c \in Calls |-> IF c = id THEN "refresh" ELSE Nothing]
        /\ worker = <<[do |-> "read", id |-> id, updating |-> FALSE]>>
  BY <1>1 DEF SettingsPageInit
<1>4. \A c \in Calls : purpose[c] # "preview"
  BY <1>3, FlagsAssumption DEF Flags
<1>5. PageTyped
  BY <1>1, <1>3, <1>4 DEF PageTyped, SettingsPageInit
<1>6. TasksTyped(ToSet(worker))
  <2>1. \A i \in DOMAIN worker : worker[i].updating = FALSE
    BY <1>3
  <2> QED
    BY <2>1 DEF TasksTyped, ToSet
<1>7. ToSet(toBrowser) = {} /\ ToSet(fromWorker) = {} /\ ToSet(toPage) = {} /\ parsing = {}
  BY <1>1 DEF SettingsPageInit, ToSet
<1> QED
  BY <1>2, <1>5, <1>6, <1>7
     DEF TypesInv, WayTyped, CallsTyped, RepliesTyped, AnswersTyped

LEMMA TypesStay ==
  ASSUME TypesInv, UNCHANGED settingsPageVars
  PROVE  TypesInv'
<1>1. UNCHANGED <<settingsVars, pageVars, toBrowser, toPage, parsing, lists, worker,
                  fromWorker, left, purpose>>
  BY DEF settingsPageVars, ownPageVars, pageVars, workerVars
<1> QED
  BY <1>1, StillTyped, SettingsStay DEF TypesInv, WayTyped

LEMMA TypesSteps == CallsInv /\ TypesInv /\ [SettingsPageNext]_settingsPageVars => TypesInv'
<1>1. SUFFICES ASSUME CallsInv, TypesInv, [SettingsPageNext]_settingsPageVars PROVE TypesInv'
  OBVIOUS
<1>2. CASE UNCHANGED settingsPageVars
  BY <1>1, <1>2, TypesStay
<1>3. CASE UserActs \/ PageRunsEffect \/ PageReceives
  BY <1>1, <1>3, UserTyped, EffectTyped, ReceivedTyped
<1>4. CASE Receives \/ (\E m \in parsing : FileIsParsed(m)) \/ OtherPageChanges
  BY <1>1, <1>4, ReceivesTyped, ParsedTyped, OtherTyped
<1>5. CASE FlightStarts \/ FlightWrites \/ DownloadFails \/ WorkerRuns \/ ReplyRuns
  BY <1>1, <1>5, StartsTyped, WritesTyped, FailsTyped, WorkerTyped, ReplyTyped
<1> QED
  BY <1>1, <1>2, <1>3, <1>4, <1>5 DEF SettingsPageNext

\* The list of blocked domains stays within its bound whatever is added,
\* imported and answered in whatever order, and page, calls, parser, worker and
\* coordinator keep their kinds: a preview is only ever answered with rules and
\* every other call with the state (content_blocking_settings_handler.cc,
\* settings.svelte.ts).
THEOREM SettingsPageTyped == SettingsPageSpec => []SettingsPageTypeOK
<1>1. SettingsPageInit => TypesInv
  BY TypesStart
<1>2. PageInv /\ TypesInv /\ [SettingsPageNext]_settingsPageVars => TypesInv'
  BY TypesSteps DEF PageInv
<1>3. PageInv /\ TypesInv => SettingsPageTypeOK
  <2>1. SUFFICES ASSUME CallsInv, TypesInv PROVE SettingsPageTypeOK
    BY DEF PageInv
  <2>2. flags \subseteq {"exception", "domains", "lists", "subscription", "reading"}
    <3>1. \A c \in DOMAIN Flags :
            Flags[c] \subseteq {"exception", "domains", "lists", "subscription", "reading"}
      BY DEF Flags
    <3> QED
      BY <2>1, <3>1 DEF CallsInv, FlagsOK
  <2>3. purpose \in [Calls -> DOMAIN Flags \cup {Nothing}] /\ flight \in {"idle", "update", "change"}
    BY <2>1 DEF CallsInv, FlightOK
  <2>4. waiting \in Calls \cup {Nothing}
    BY <2>1, WhereCallsAre DEF Placed, Awaited, Asking
  <2>5. \A m \in parsing : m.what.file \in Rules
    BY <2>1, WhereCallsAre DEF TypesInv, WayTyped, CallsTyped
  <2> QED
    BY <2>1, <2>2, <2>3, <2>4, <2>5 DEF TypesInv, PageTyped, PageStates, SettingsPageTypeOK
<1> QED
  BY PageInductive, <1>1, <1>2, <1>3, PTL DEF SettingsPageSpec
=============================================================================
