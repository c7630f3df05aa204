---------------------------- MODULE ExtensionsPage ----------------------------
(***************************************************************************)
(* The extensions page (extensions.svelte.ts) over Chromium's management   *)
(* of extensions: one read at a time, that is repeated while it is dirty.  *)
(*                                                                         *)
(* What is installed and the profile's configuration are numbers that grow *)
(* with each change.  An operation makes up to two native calls, each of   *)
(* which may change something with an event or without, fail or be         *)
(* cancelled; whether an item allows it and the texts are left out.  The   *)
(* check of profileVersion is left out: every profile event is also dirty. *)
(***************************************************************************)
EXTENDS Naturals, Sequences

CONSTANTS
  NotYet,           \* an answer that is not composed yet
  MaxExtensionTurns \* bound on changes, operations, failures and retries

ASSUME ExtensionsAssumption == NotYet \notin Nat /\ MaxExtensionTurns \in Nat

VARIABLES
  extensions, \* the fields of ExtensionsModel (see PageState)
  managed,    \* what Chromium has: items and profile
  notices,    \* events on their way to the page
  operated,   \* managed.items when the last operation ended
  turns       \* how many of MaxExtensionTurns are over

extensionVars == <<extensions, managed, notices, operated, turns>>

Unread == [items |-> NotYet, profile |-> NotYet]

Turn == turns < MaxExtensionTurns /\ turns' = turns + 1

-----------------------------------------------------------------------------
(* Reading *)

\* One turn of drainRefresh's loop begins.
ReadAgain(p) ==
  [p EXCEPT !.task = TRUE, !.dirty = FALSE, !.timer = FALSE, !.answer = Unread]

RefreshShared(p) == IF p.task THEN p ELSE ReadAgain(p)

Refresh(p) ==
  IF p.task THEN [p EXCEPT !.dirty = TRUE, !.timer = FALSE] ELSE ReadAgain(p)

ScheduleRefresh(p) == [p EXCEPT !.dirty = TRUE, !.timer = ~p.task]

\* refreshTask is over, and an operation that waited for it.
TaskEnds(p) ==
  [p EXCEPT !.task = FALSE, !.answer = Unread,
            !.busy = IF @ = "refreshing" THEN "free" ELSE @]

FailLoading(p) == [p EXCEPT !.loading = FALSE, !.loadFailed = TRUE]

RefreshTimer ==
  /\ extensions.timer
  /\ extensions' = Refresh(extensions)
  /\ UNCHANGED <<managed, notices, operated, turns>>

\* Each of the two answers is composed at a moment of its own.
AnswerIsComposed(of) ==
  /\ extensions.task /\ extensions.answer[of] = NotYet
  /\ extensions' = [extensions EXCEPT !.answer[of] = managed[of]]
  /\ UNCHANGED <<managed, notices, operated, turns>>

ReadEnds ==
  LET p == extensions
  IN  /\ p.task /\ p.answer.items # NotYet /\ p.answer.profile # NotYet
      /\ extensions' =
           IF p.dirty THEN ReadAgain(p)
           ELSE TaskEnds([p EXCEPT !.items = p.answer.items,
                                   !.profile = p.answer.profile,
                                   !.loading = FALSE, !.loadFailed = FALSE])
      /\ UNCHANGED <<managed, notices, operated, turns>>

ReadFails ==
  /\ extensions.task /\ Turn
  /\ extensions' = IF extensions.dirty THEN ReadAgain(extensions)
                   ELSE TaskEnds(FailLoading(extensions))
  /\ UNCHANGED <<managed, notices, operated>>

\* connect, by the button of a page that failed to load
Connect ==
  /\ extensions.loadFailed /\ Turn
  /\ extensions' = Refresh(extensions)
  /\ UNCHANGED <<managed, notices, operated>>

\* onItemStateChanged, onProfileStateChanged; the latter brings the profile.
NoticeArrives ==
  /\ notices # <<>>
  /\ notices' = Tail(notices)
  /\ LET notice == Head(notices)
     IN  extensions' = ScheduleRefresh([extensions EXCEPT
           !.profile = IF notice.of = "items" THEN @ ELSE notice.now])
  /\ UNCHANGED <<managed, operated, turns>>

-----------------------------------------------------------------------------
(* Operations *)

\* perform: without a native call if the item does not allow it.
Perform ==
  /\ extensions.busy = "free" /\ ~extensions.loading /\ ~extensions.loadFailed
  /\ Turn
  /\ \/ extensions' = Refresh([extensions EXCEPT !.busy = "refreshing"])
     \/ \E calls \in 1..2 :
          extensions' = [extensions EXCEPT !.busy = "acting", !.calls = calls]
  /\ UNCHANGED <<managed, notices, operated>>

CallChanges ==
  \/ UNCHANGED <<managed, notices>>
  \/ /\ managed' = [managed EXCEPT !.items = @ + 1]
     /\ notices' \in {notices, Append(notices, [of |-> "items"])}

NextCallBegins ==
  /\ extensions.busy = "acting" /\ extensions.calls = 2
  /\ extensions' = [extensions EXCEPT !.calls = 1]
  /\ CallChanges
  /\ UNCHANGED <<operated, turns>>

\* The last call answers, or any fails or is cancelled.
OperationEnds ==
  /\ extensions.busy = "acting"
  /\ extensions' =
       Refresh([extensions EXCEPT !.busy = "refreshing", !.calls = 0])
  /\ CallChanges /\ operated' = managed'.items
  /\ UNCHANGED turns

Dispose ==
  /\ extensions' =
       [extensions EXCEPT !.disposed = TRUE, !.dirty = FALSE, !.timer = FALSE]
  /\ UNCHANGED <<managed, notices, operated, turns>>

\* Installation, an update, a policy, or another page.
ChangedElsewhere ==
  /\ Turn
  /\ \/ /\ managed' = [managed EXCEPT !.items = @ + 1]
        /\ notices' = Append(notices, [of |-> "items"])
     \/ /\ managed' = [managed EXCEPT !.profile = @ + 1]
        /\ notices' =
             Append(notices, [of |-> "profile", now |-> managed'.profile])
  /\ UNCHANGED <<extensions, operated>>

-----------------------------------------------------------------------------
\* After connect has subscribed and begun to read.
ExtensionsInit ==
  /\ extensions =
       [items |-> 0, profile |-> 0, loading |-> TRUE, loadFailed |-> FALSE,
        busy |-> "free", calls |-> 0, task |-> TRUE, dirty |-> FALSE,
        timer |-> FALSE, answer |-> Unread, disposed |-> FALSE]
  /\ managed = [items |-> 1, profile |-> 1]
  /\ notices = <<>> /\ operated = 0 /\ turns = 0

\* A page that is disposed of hears and does nothing more.
ExtensionsNext ==
  /\ ~extensions.disposed
  /\ \/ RefreshTimer \/ ReadEnds \/ ReadFails \/ Connect \/ NoticeArrives
     \/ AnswerIsComposed("items") \/ AnswerIsComposed("profile")
     \/ Perform \/ NextCallBegins \/ OperationEnds \/ Dispose
     \/ ChangedElsewhere

ExtensionsSpec == ExtensionsInit /\ [][ExtensionsNext]_extensionVars

-----------------------------------------------------------------------------
\* The fields of the page; busy is the id of an item, or "free" for none.
Snapshot == [items : Nat \cup {NotYet}, profile : Nat \cup {NotYet}]
PageState ==
  [items : Nat, profile : Nat, loading : BOOLEAN, loadFailed : BOOLEAN,
   busy : {"free", "acting", "refreshing"}, calls : 0..2, task : BOOLEAN,
   dirty : BOOLEAN, timer : BOOLEAN, answer : Snapshot, disposed : BOOLEAN]
Notice == [of : {"items"}] \cup [of : {"profile"}, now : Nat]

\* The kinds of the page's state; a timer and a read are never both under way.
ExtensionsTypeOK ==
  /\ extensions \in PageState /\ ~(extensions.timer /\ extensions.task)
  /\ managed \in [items : Nat, profile : Nat] /\ notices \in Seq(Notice)
  /\ operated \in Nat /\ turns \in 0..MaxExtensionTurns

\* Nothing is under way for the page.
ExtensionsAtRest ==
  /\ ~extensions.task /\ ~extensions.timer /\ extensions.busy = "free"
  /\ notices = <<>>

\* internal-pages.md:111-113: a change that comes during a read is read again
\* before the controls come back, and none is lost: the list at rest is what is
\* installed, and after an operation that list has what the operation did, even
\* if no event told of it (refreshDirty and refreshTask, and the refresh at the
\* end of perform).
ExtensionsAreShown ==
  ~extensions.disposed /\ ~extensions.loadFailed =>
    /\ extensions.busy = "free" => extensions.items >= operated
    /\ ExtensionsAtRest => [items |-> extensions.items,
                            profile |-> extensions.profile] = managed
=============================================================================
