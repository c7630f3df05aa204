------------------------- MODULE BaselineListUpdater -------------------------
(***************************************************************************)
(* The one coordinator of list updates in the browser process              *)
(* (baseline_list_updater.cc) and the worker that runs its store tasks.    *)
(* The daily timer, a manual check and a change of a subscription share    *)
(* one in-flight flag, one loader and one timer on the UI thread; reads    *)
(* and writes of the store are posted to a sequenced worker, whose replies *)
(* come back as later tasks of the UI thread.                              *)
(***************************************************************************)
EXTENDS FilterListStore, SequencesExt

CONSTANTS
  Retry,    \* the delay after a failed update, in ticks
  Checks,   \* the manual checks of a behaviour
  Limit,    \* how often each thing that is not the program's own happens
  Budget    \* how many of them happen in all

Troubles == {"mutations", "faults", "restarts", "damages", "shifts", "closes"}

ASSUME UpdaterAssumption ==
  /\ Retry \in 1..Interval
  /\ Limit \in [Troubles -> Nat]
  /\ Budget \in Nat

VARIABLES
  alive,         \* a profile holds the coordinator
  timer,         \* timer_: ticks until it fires, None when it is stopped
  task,          \* what timer_ runs: RefreshAndStart or Start
  due,           \* checked_at_, as ticks until the next check is due
  phase,         \* what is in flight; in_flight_ is phase # "idle"
  originals,     \* originals_: the two official texts received
  todo,          \* the subscriptions still to download
  downloads,     \* downloads_: [url -> text received or None]
  catalog,       \* catalog_update_
  catalogFailed, \* catalog_failed_
  catalogActive, \* catalog_downloads_active_
  mutation,      \* mutation_callback_ and what it asks for
  checks,        \* the manual checks; completion_callbacks_ holds the waiting
  queue,         \* tasks posted to the worker, the first one running
  replies,       \* replies posted to the UI thread
  told,          \* what the user was last told of each subscription
  used           \* how much of Limit has happened

uiVars == <<alive, timer, task, due, phase, originals, todo, downloads,
            catalog, catalogFailed, catalogActive, mutation>>
listVars == <<storeVars, uiVars, checks, queue, replies, told, used>>

Phases == {"idle", "plan", "easylist", "easyprivacy", "subscriptions",
           "catalog", "parse", "sources", "install", "fetch", "save"}
Mutations == [kind: {"add", "remove", "enable", "disable"}, url: Urls]
ASSUME MutationAssumption == None \notin Mutations
Status == {"absent", "on", "off"}
NoText == [i \in 1..2 |-> None]
NoDownloads == [u \in {} |-> None]

in_flight == phase # "idle"

Spend(what) ==
  /\ used[what] < Limit[what]
  /\ used' = [used EXCEPT ![what] = @ + 1]
  /\ MapThenSumSet(LAMBDA k : used'[k], DOMAIN used) <= Budget

Smaller(a, b) == IF a < b THEN a ELSE b

\* What the settings page shows of a subscription.
StatusOf(u) ==
  LET subs == ReadFilterListSet.subs
  IN  IF u \notin DOMAIN subs THEN "absent"
      ELSE IF subs[u].enabled THEN "on" ELSE "off"

Post(t) == queue' = Append(queue, t)

-----------------------------------------------------------------------------
(* The coordinator and its timer *)

\* MaybeCreate: the first timer reads the store again before it starts; until
\* then checked_at_ is the time the process read when it began, which has aged.
MaybeCreate ==
  /\ ~alive
  /\ alive' = TRUE
  /\ timer' = 0
  /\ task' = "refresh"
  /\ due' \in IF running = None THEN {0} ELSE 0..Interval
  /\ UNCHANGED <<storeVars, phase, originals, todo, downloads, catalog,
                 catalogFailed, catalogActive, mutation, checks, queue,
                 replies, told, used>>

\* The update begins: its plan is read by the worker.
StartUpdate ==
  /\ phase' = "plan"
  /\ due' = 0
  /\ Post([kind |-> "plan", live |-> TRUE])
  /\ UNCHANGED task

\* Start with checked_at_ = t, when timer_ has `left` to run: wait for the rest
\* of the interval, at most a whole one however far in the future t is, or
\* begin the update that is due.
Start(t, left) ==
  \/ /\ in_flight
     /\ due' = t
     /\ timer' = left
     /\ UNCHANGED <<task, phase, queue>>
  \/ /\ ~in_flight /\ t > 0
     /\ timer' = Smaller(t, Interval)
     /\ task' = "start"
     /\ due' = Smaller(t, Interval)
     /\ UNCHANGED <<phase, queue>>
  \/ /\ ~in_flight /\ t = 0
     /\ timer' = left
     /\ StartUpdate

TimerFires ==
  /\ alive /\ timer = 0
  /\ \/ /\ task = "refresh"
        /\ timer' = None
        /\ Post([kind |-> "refresh", live |-> TRUE])
        /\ UNCHANGED <<task, due, phase>>
     \/ /\ task = "start"
        /\ Start(due, None)
  /\ UNCHANGED <<storeVars, alive, originals, todo, downloads, catalog,
                 catalogFailed, catalogActive, mutation, checks, replies,
                 told, used>>

JoinsAnyFlight == "waiting"

\* A check that meets an update waits for it; one that meets a change of a
\* subscription fails at once.
CheckJoins == IF mutation # None THEN "failed" ELSE "waiting"

CheckNow(c) ==
  /\ alive /\ checks[c] = "unused"
  /\ checks' = [checks EXCEPT ![c] = CheckJoins]
  /\ IF mutation # None \/ in_flight
       THEN UNCHANGED <<timer, task, due, phase, queue>>
       ELSE timer' = None /\ StartUpdate
  /\ UNCHANGED <<storeVars, alive, originals, todo, downloads, catalog,
                 catalogFailed, catalogActive, mutation, replies, told, used>>

\* Completed: the flight ends, the timer is set and every waiting check is
\* answered.
Completed(installed) ==
  /\ phase' = "idle"
  /\ originals' = NoText
  /\ catalog' = None
  /\ catalogActive' = FALSE
  /\ due' = IF installed THEN Interval ELSE due
  /\ timer' = IF installed THEN Interval ELSE Retry
  /\ task' = "start"
  /\ checks' = [c \in Checks |-> IF checks[c] = "waiting"
                  THEN IF installed THEN "ok" ELSE "failed"
                  ELSE checks[c]]

-----------------------------------------------------------------------------
(* An update *)

Download(rest) ==
  /\ todo' = rest
  /\ phase' = IF rest = {} THEN "catalog" ELSE "subscriptions"

\* An official list arrives, or does not: the pair is then given up and the
\* subscriptions are fetched all the same.
Downloaded(text) ==
  /\ \/ /\ phase = "easylist" /\ text # None
        /\ originals' = [originals EXCEPT ![1] = text]
        /\ phase' = "easyprivacy"
        /\ UNCHANGED todo
     \/ /\ phase = "easyprivacy" /\ text # None
        /\ originals' = [originals EXCEPT ![2] = text]
        /\ Download(todo)
     \/ /\ phase \in {"easylist", "easyprivacy"} /\ text = None
        /\ Download(todo)
        /\ UNCHANGED originals
  /\ UNCHANGED <<storeVars, alive, timer, task, due, downloads, catalog,
                 catalogFailed, catalogActive, mutation, checks, queue,
                 replies, told>>

SubscriptionReceived(u, text) ==
  /\ downloads' = [downloads EXCEPT ![u] = text]
  /\ Download(todo \ {u})
  /\ UNCHANGED <<originals, catalog, catalogFailed, catalogActive, queue>>

\* The update task; its time is null when the catalog failed.
InstallUpdates(update, failed) ==
  /\ phase' = "install"
  /\ catalog' = None
  /\ catalogFailed' = failed
  /\ originals' = NoText
  /\ downloads' = NoDownloads
  /\ Post([kind |-> "update", live |-> TRUE, originals |-> originals,
           downloads |-> downloads, catalog |-> update,
           checked |-> IF failed THEN 0 ELSE Interval])

CatalogDownloaded(text) ==
  /\ phase = "catalog"
  /\ \/ /\ text = None
        /\ InstallUpdates(None, TRUE)
     \/ /\ text # None
        /\ catalog' = text
        /\ phase' = "parse"
        /\ Post([kind |-> "parse", live |-> TRUE, text |-> text])
        /\ UNCHANGED <<originals, downloads, catalogFailed>>
  /\ UNCHANGED <<storeVars, alive, timer, task, due, todo, catalogActive,
                 mutation, checks, replies, told>>

\* The catalog's own lists, received or not; one that does not compile spoils
\* the whole catalog when it is prepared.
CatalogSourceDownloaded(text) ==
  /\ catalogActive' = FALSE
  /\ IF text = None THEN InstallUpdates(None, TRUE)
     ELSE InstallUpdates(text, catalogFailed)
  /\ UNCHANGED todo

-----------------------------------------------------------------------------
(* A change of a subscription *)

Rearm == timer' = 0 /\ task' = "start"

\* MutationCompleted: the timer starts again whatever the outcome.
MutationCompleted(error) ==
  /\ phase' = "idle"
  /\ mutation' = None
  /\ Rearm
  /\ told' = IF error # "" THEN told
             ELSE [told EXCEPT ![mutation.url] =
                     CASE mutation.kind = "remove" -> "absent"
                       [] mutation.kind = "disable" -> "off"
                       [] OTHER -> "on"]

\* A change that meets another flight is answered "lists-busy" at once.
BeginMutation(m) ==
  /\ alive /\ ~in_flight
  /\ Spend("mutations")
  /\ timer' = None
  /\ mutation' = m
  /\ IF m.kind = "add"
       THEN phase' = "fetch" /\ UNCHANGED queue
       ELSE /\ phase' = "save"
            /\ Post([kind |-> "change", live |-> TRUE, change |-> m])
  /\ UNCHANGED <<storeVars, alive, task, due, originals, todo, downloads,
                 catalog, catalogFailed, catalogActive, checks, replies, told>>

SubscriptionDownloaded(text) ==
  \/ /\ text = None
     /\ MutationCompleted("download-failed")
     /\ UNCHANGED queue
  \/ /\ text # None
     /\ phase' = "save"
     /\ Post([kind |-> "add", live |-> TRUE, url |-> mutation.url,
              body |-> text])
     /\ UNCHANGED <<timer, task, mutation, told>>

-----------------------------------------------------------------------------
(* The loader of a subscription, a catalog source or an added list *)

Received(text) ==
  \/ /\ phase = "subscriptions"
     /\ \E u \in todo : SubscriptionReceived(u, text)
     /\ UNCHANGED <<timer, task, mutation, told>>
  \/ /\ phase = "sources"
     /\ CatalogSourceDownloaded(text)
     /\ UNCHANGED <<timer, task, mutation, told>>
  \/ /\ phase = "fetch"
     /\ SubscriptionDownloaded(text)
     /\ UNCHANGED <<originals, todo, downloads, catalog, catalogFailed,
                    catalogActive>>

LoaderReplies(text) ==
  /\ Received(text)
  /\ UNCHANGED <<storeVars, alive, due, checks, replies>>

\* A redirect to an address that may not be subscribed to ends the load; whose
\* load it was is told from the flags.
RedirectRefused ==
  /\ phase \in {"subscriptions", "sources", "fetch"}
  /\ Spend("faults")
  /\ \/ /\ catalogActive
        /\ CatalogSourceDownloaded(None)
        /\ UNCHANGED <<timer, task, mutation, told>>
     \/ /\ ~catalogActive /\ mutation # None
        /\ MutationCompleted("download-failed")
        /\ UNCHANGED <<originals, todo, downloads, catalog, catalogFailed,
                       catalogActive, queue>>
     \/ /\ ~catalogActive /\ mutation = None
        /\ \E u \in todo : SubscriptionReceived(u, None)
        /\ UNCHANGED <<timer, task, mutation, told>>
  /\ UNCHANGED <<storeVars, alive, due, checks, replies>>

-----------------------------------------------------------------------------
(* The worker *)

Reply(r) == /\ replies' = Append(replies, r)
            /\ queue' = Tail(queue)

Working(kind) == queue # <<>> /\ Head(queue).kind = kind

WorkerReads ==
  /\ job = None
  /\ \/ /\ Working("refresh")
        /\ \E t \in CheckedTimes :
              Reply([kind |-> "refresh", live |-> Head(queue).live, due |-> t])
     \/ /\ Working("plan")
        /\ LET subs == ReadFilterListSet.subs
           IN  Reply([kind |-> "plan", live |-> Head(queue).live,
                      enabled |-> {u \in DOMAIN subs : subs[u].enabled}])
     \/ /\ Working("parse")
        /\ Reply([kind |-> "parse", live |-> Head(queue).live,
                  ok |-> Head(queue).text \in GoodTexts])
  /\ UNCHANGED <<storeVars, uiVars, checks, told, used>>

\* Each download replaces its subscription's text if it is valid and the
\* whole still fits; the order is the store's.  Those that are taken are the
\* ones that fit with the ones taken before them.
ReplacedBodies(subs, bodies) ==
  LET order == SetToSeq(Urls)
      Before(i) == {order[j] : j \in 1..(i - 1)}
      good == {u \in DOMAIN subs \cap DOMAIN bodies :
                 subs[u].enabled /\ bodies[u] \in GoodTexts}
      With(S) == [u \in DOMAIN subs |->
                    IF u \in S \cap good THEN [subs[u] EXCEPT !.body = bodies[u]]
                    ELSE subs[u]]
      taken == CHOOSE S \in SUBSET Urls :
                 \A i \in DOMAIN order :
                   order[i] \in S <=>
                     TotalBytes(With((S \cap Before(i)) \cup {order[i]}))
                       <= MaxTotalBytes
  IN  With(taken)

UpdateFilterLists(t, checked) ==
  LET lists == ReadFilterListSet
      pair == \A i \in 1..2 : t.originals[i] \in GoodTexts
      prepared == t.catalog \in GoodTexts
      subs == ReplacedBodies(lists.subs, t.downloads)
      taken == {u \in DOMAIN lists.subs \cap DOMAIN t.downloads :
                  /\ lists.subs[u].enabled
                  /\ subs[u].body = t.downloads[u]}
      failed == \/ ~pair /\ ~prepared
                \/ t.catalog # None /\ ~prepared
                \/ \E u \in DOMAIN lists.subs \cap DOMAIN t.downloads :
                      lists.subs[u].enabled /\ u \notin taken
  IN  [lists |-> [baseline |-> IF pair THEN <<t.originals[1], t.originals[2]>>
                               ELSE lists.baseline,
                  downloaded |-> pair \/ lists.downloaded,
                  catalog |-> IF prepared THEN t.catalog ELSE lists.catalog,
                  subs |-> subs],
       checked |-> IF t.catalog # None /\ ~prepared THEN 0
                   ELSE IF pair \/ prepared THEN t.checked
                   ELSE checked,
       changed |-> pair \/ prepared \/ taken # {},
       clean |-> ~failed]

\* AddFilterSubscription's and ChangeFilterSubscription's refusals.
Refusal(t) ==
  LET subs == ReadFilterListSet.subs
  IN  IF t.kind = "change"
        THEN IF t.change.url \notin DOMAIN subs THEN "list-missing" ELSE ""
      ELSE IF t.url \in DOMAIN subs THEN "duplicate-list"
      ELSE IF Cardinality(DOMAIN subs) >= MaxSubscriptions
        THEN "too-many-lists"
      ELSE IF t.body \notin GoodTexts THEN "invalid-list"
      ELSE IF TotalBytes(subs) + Bytes[t.body] > MaxTotalBytes
        THEN "list-storage-limit"
      ELSE ""

Changed(t) ==
  LET lists == ReadFilterListSet
      new == IF t.kind = "add"
               THEN [u \in DOMAIN lists.subs \cup {t.url} |->
                       IF u = t.url THEN [body |-> t.body, enabled |-> TRUE]
                       ELSE lists.subs[u]]
             ELSE IF t.change.kind = "remove"
               THEN [u \in DOMAIN lists.subs \ {t.change.url} |-> lists.subs[u]]
             ELSE [lists.subs EXCEPT ![t.change.url].enabled =
                     (t.change.kind = "enable")]
  IN  [lists EXCEPT !.subs = new]

MutationReply(error) == Reply([kind |-> "mutation", live |-> Head(queue).live,
                               error |-> error])
UpdateReply(ok) == Reply([kind |-> "update", live |-> Head(queue).live,
                          ok |-> ok])

WorkerBegins ==
  /\ job = None
  /\ \/ /\ Working("update")
        /\ \E checked \in CheckedTimes :
           LET u == UpdateFilterLists(Head(queue), checked)
           IN  \/ /\ u.changed
                  /\ BeginWrite(u.lists, u.checked, u.clean)
                  /\ UNCHANGED <<queue, replies>>
               \/ /\ ~u.changed
                  /\ UpdateReply(FALSE)
                  /\ UNCHANGED storeVars
     \/ /\ Working("add") \/ Working("change")
        /\ LET t == Head(queue)
           IN  \/ /\ Refusal(t) = ""
                  /\ \E checked \in CheckedTimes :
                        BeginWrite(Changed(t), checked, TRUE)
                  /\ UNCHANGED <<queue, replies>>
               \/ /\ Refusal(t) # ""
                  /\ MutationReply(Refusal(t))
                  /\ UNCHANGED storeVars
  /\ UNCHANGED <<uiVars, checks, told, used>>

WorkerWrites ==
  /\ \/ WriteStep /\ UNCHANGED used
     \/ WriteFails /\ Spend("faults")
  /\ UNCHANGED <<uiVars, checks, queue, replies, told>>

WorkerReturns ==
  /\ job # None /\ job.at \in {"done", "failed"}
  /\ job' = None
  /\ IF Working("update") THEN UpdateReply(job.at = "done" /\ job.clean)
     ELSE MutationReply(IF job.at = "done" THEN "" ELSE "list-save-failed")
  /\ UNCHANGED <<files, running, uiVars, checks, told, used>>

-----------------------------------------------------------------------------
(* The worker's replies on the UI thread *)

NextReply(kind) ==
  /\ replies # <<>>
  /\ Head(replies).kind = kind
  /\ Head(replies).live
  /\ replies' = Tail(replies)

\* A reply to a coordinator that is gone is dropped by its weak pointer.
ReplyDropped ==
  /\ replies # <<>> /\ ~Head(replies).live
  /\ replies' = Tail(replies)
  /\ UNCHANGED <<storeVars, uiVars, checks, queue, told, used>>

Refreshed ==
  /\ NextReply("refresh")
  /\ Start(Head(replies).due, timer)
  /\ UNCHANGED <<storeVars, alive, originals, todo, downloads, catalog,
                 catalogFailed, catalogActive, mutation, checks, told, used>>

PlanLoaded ==
  /\ NextReply("plan")
  /\ todo' = Head(replies).enabled
  /\ downloads' = [u \in Head(replies).enabled |-> None]
  /\ catalog' = None
  /\ catalogFailed' = FALSE
  /\ phase' = "easylist"
  /\ UNCHANGED <<storeVars, alive, timer, task, due, originals, catalogActive,
                 mutation, checks, queue, told, used>>

CatalogPlanLoaded ==
  /\ NextReply("parse")
  /\ \/ /\ ~Head(replies).ok
        /\ InstallUpdates(None, TRUE)
        /\ UNCHANGED catalogActive
     \/ /\ Head(replies).ok
        /\ catalogActive' = TRUE
        /\ phase' = "sources"
        /\ UNCHANGED <<originals, downloads, catalog, catalogFailed, queue>>
  /\ UNCHANGED <<storeVars, alive, timer, task, due, todo, mutation, checks,
                 told, used>>

UpdatesInstalled ==
  /\ NextReply("update")
  /\ Completed(Head(replies).ok /\ ~catalogFailed)
  /\ UNCHANGED <<storeVars, alive, todo, downloads, catalogFailed, mutation,
                 queue, told, used>>

MutationSaved ==
  /\ NextReply("mutation")
  /\ MutationCompleted(Head(replies).error)
  /\ UNCHANGED <<storeVars, alive, due, originals, todo, downloads, catalog,
                 catalogFailed, catalogActive, checks, queue, used>>

-----------------------------------------------------------------------------
(* What the program does not decide *)

Forget == [u \in Urls |->
             IF mutation # None /\ mutation.url = u THEN None ELSE told[u]]
Orphaned(s) == [i \in DOMAIN s |-> [s[i] EXCEPT !.live = FALSE]]
Abandoned(answer) ==
  [c \in Checks |-> IF checks[c] = "waiting" THEN answer ELSE checks[c]]

Idle ==
  /\ alive' = FALSE
  /\ timer' = None
  /\ phase' = "idle"
  /\ mutation' = None
  /\ originals' = NoText
  /\ todo' = {}
  /\ downloads' = NoDownloads
  /\ catalog' = None
  /\ catalogFailed' = FALSE
  /\ catalogActive' = FALSE
  /\ due' = 0
  /\ task' = "start"
  /\ told' = Forget

\* The profile that owns the coordinator is destroyed: ~BaselineListUpdater
\* answers every callback; the worker's tasks go on.
ProfileDestroyed ==
  /\ alive
  /\ Spend("closes")
  /\ Idle
  /\ checks' = Abandoned("failed")
  /\ queue' = Orphaned(queue)
  /\ replies' = Orphaned(replies)
  /\ UNCHANGED storeVars

ProcessRestarts ==
  /\ Spend("restarts")
  /\ Restart
  /\ Idle
  /\ checks' = Abandoned("gone")
  /\ queue' = <<>>
  /\ replies' = <<>>

Damage ==
  /\ Spend("damages")
  /\ DamageState \/ \E g \in DOMAIN gens : DamageGeneration(g)
  /\ UNCHANGED <<uiVars, checks, queue, replies, told>>

\* A tick is hours and a flight is minutes, so time goes on between flights.
AtRest == ~in_flight /\ queue = <<>> /\ replies = <<>>

Shift(Moved(_)) ==
  /\ AtRest
  /\ ShiftFiles(Moved)
  /\ due' = Moved(due)
  /\ UNCHANGED <<alive, task, phase, originals, todo, downloads, catalog,
                 catalogFailed, catalogActive, mutation, checks, queue,
                 replies, told>>

\* A timer that is due fires before time goes on.
Tick ==
  /\ timer # 0
  /\ timer' = IF timer = None THEN None ELSE timer - 1
  /\ Shift(Older)
  /\ UNCHANGED used

\* The wall clock is set back; a running timer counts its own time.
ClockSetBack ==
  /\ Spend("shifts")
  /\ Shift(Younger)
  /\ UNCHANGED timer

-----------------------------------------------------------------------------
ListsInit ==
  /\ StoreInit
  /\ alive = FALSE
  /\ timer = None
  /\ task = "start"
  /\ due = 0
  /\ phase = "idle"
  /\ originals = NoText
  /\ todo = {}
  /\ downloads = NoDownloads
  /\ catalog = None
  /\ catalogFailed = FALSE
  /\ catalogActive = FALSE
  /\ mutation = None
  /\ checks = [c \in Checks |-> "unused"]
  /\ queue = <<>>
  /\ replies = <<>>
  /\ told = [u \in Urls |-> StatusOf(u)]
  /\ used = [k \in DOMAIN Limit |-> 0]

Network == \E text \in Texts \cup {None} :
  /\ Downloaded(text) \/ CatalogDownloaded(text) \/ LoaderReplies(text)
  /\ IF text \in GoodTexts THEN UNCHANGED used ELSE Spend("faults")

Worker == WorkerReads \/ WorkerBegins \/ WorkerWrites \/ WorkerReturns

Replies == \/ ReplyDropped
           \/ Refreshed
           \/ PlanLoaded
           \/ CatalogPlanLoaded
           \/ UpdatesInstalled
           \/ MutationSaved

ListsNext ==
  \/ MaybeCreate
  \/ TimerFires
  \/ Network
  \/ RedirectRefused
  \/ Worker
  \/ Replies
  \/ \E c \in Checks : CheckNow(c)
  \/ \E m \in Mutations : BeginMutation(m)
  \/ ProfileDestroyed
  \/ ProcessRestarts
  \/ Damage
  \/ Tick
  \/ ClockSetBack

ListsSpec == ListsInit /\ [][ListsNext]_listVars
=============================================================================
