------------------------ MODULE FilterListProperties ------------------------
(***************************************************************************)
(* What makes the lists correct: the files the store leaves at any moment, *)
(* what the user was told of them, and the coordinator that must neither   *)
(* stop nor lose a flight.                                                 *)
(***************************************************************************)
EXTENDS BaselineListUpdater

(* The kinds of the store and the coordinator (filter_list_store.h,        *)
(* baseline_list_updater.h); every kept time is within its bounds.         *)

ListsTypeOK ==
  /\ StoreTypeOK
  /\ alive \in BOOLEAN
  /\ timer \in 0..Interval \cup {None}
  /\ task \in {"refresh", "start"}
  /\ due \in Times
  /\ phase \in Phases
  /\ originals \in [1..2 -> Texts \cup {None}]
  /\ todo \subseteq DOMAIN downloads
  /\ DOMAIN downloads \subseteq Urls
  /\ catalog \in Texts \cup {None}
  /\ mutation \in Mutations \cup {None}
  /\ \A c \in Checks :
        checks[c] \in {"unused", "waiting", "ok", "failed", "gone"}

-----------------------------------------------------------------------------
(* Properties *)

Named(p) == IF p = None THEN {} ELSE {p.current, p.previous} \ {None}

(* Every generation that a pointer file names, or that the running process *)
(* uses, is there and reads, after each single file operation of a write   *)
(* and wherever it failed or the process died (WriteFilterListSet and its  *)
(* pruning).  Damaged files are the exception.                             *)
NoDangling ==
  used.damages = 0 =>
    \A g \in Named(state) \cup Named(backup) \cup ({running} \ {None}) :
      ReadBaselineListGeneration(g)

(* The user is told that a subscription was added, removed, enabled or     *)
(* disabled only when the lists a next start reads say so, and that stays  *)
(* so through later updates, failed writes and restarts                    *)
(* (MutationCompleted after the worker's reply).                           *)
ToldIsSaved ==
  used.damages = 0 =>
    \A u \in Urls :
      \/ told[u] = None
      \/ mutation # None /\ mutation.url = u
      \/ StatusOf(u) = told[u]

Has(s, kind) == \E i \in DOMAIN s : s[i].kind = kind /\ s[i].live

(* A coordinator always has something that will wake it within a day: its  *)
(* timer, the reply of its first read, or a flight.  Every path through    *)
(* timer, manual check, change and failure must start the timer again      *)
(* (Start, Completed, MutationCompleted).                                  *)
NeverIdle ==
  alive => \/ timer # None /\ timer <= Interval
           \/ Has(queue, "refresh") \/ Has(replies, "refresh")
           \/ in_flight

Posted(kinds) ==
  LET Count(s) == Cardinality({i \in DOMAIN s :
                                 s[i].live /\ s[i].kind \in kinds})
  IN  Count(queue) + Count(replies)

WorkerPhase == [plan |-> {"plan"}, parse |-> {"parse"}, install |-> {"update"},
                save |-> {"add", "change", "mutation"}]

(* A flight that waits for the worker has exactly one task or reply of its *)
(* own outstanding, one that does not has none, and a waiting manual check *)
(* waits for an update and never for a change of a subscription; so no     *)
(* flight is lost and no stale reply can be taken for a later flight's.    *)
FlightIsCarried ==
  /\ \A p \in DOMAIN WorkerPhase :
        Posted(WorkerPhase[p]) = IF phase = p THEN 1 ELSE 0
  /\ mutation # None <=> phase \in {"fetch", "save"}
  /\ catalogActive <=> phase = "sources"
  /\ (\E c \in Checks : checks[c] = "waiting") =>
        in_flight /\ phase \notin {"fetch", "save"}

(* Updates neither stop nor get lost or mixed, in whatever order the timer,*)
(* manual checks, changes of subscriptions, failures and the end of the    *)
(* profile come (CheckNow, BeginMutation, Completed, MutationCompleted).   *)
UpdatesGoOn == NeverIdle /\ FlightIsCarried

(* An update that failed runs again when the retry timer fires: the check  *)
(* it waits for is due by then (Completed, Start).  The traffic annotation *)
(* of CreateLoader says: "Failed updates retry after six hours."           *)
RetryIsDue ==
  [][phase = "install" /\ phase' = "idle" /\ alive' => due' <= timer']_listVars

\* What a browser would start with if the selected generation were damaged.
AfterDamage ==
  LET left == [g \in DOMAIN gens \ {ReadBaselineListStore} |-> gens[g]]
      Reads(g) == g \in DOMAIN left /\ left[g] /\ ValidSet(g)
      First(p) == IF p = None THEN None
                  ELSE IF Reads(p.current) THEN p.current
                  ELSE IF Reads(p.previous) THEN p.previous ELSE None
  IN  IF First(state) # None THEN First(state) ELSE First(backup)

WriteInProgress ==
  IF job = None \/ job.at = "failed" THEN None
  ELSE [from |-> job.previous, to |-> job.target]

\* A write in progress is told from none.
ASSUME WriteAssumption ==
  None \notin [from: Generation \cup {None}, to: Generation]

Promise == INSTANCE FilterListPromise WITH
  Sets <- {g \in Generation : ValidSet(g)},
  selected <- ReadBaselineListStore,
  fallback <- AfterDamage,
  write <- WriteInProgress,
  damages <- used.damages

(* The store keeps the promise of FilterListPromise: a write of several    *)
(* files, cut short anywhere, publishes its set as a whole or not at all,  *)
(* and keeps the one before it to fall back to (WriteFilterListSet,        *)
(* ReadBaselineListStore).                                                 *)
ImplementsPromise == Promise!PromiseSpec
=============================================================================
