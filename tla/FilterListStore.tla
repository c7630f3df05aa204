--------------------------- MODULE FilterListStore ---------------------------
(***************************************************************************)
(* The filter lists a profile keeps on disk (filter_list_store.cc).  A set *)
(* of lists is an immutable directory named by the digest of its content,  *)
(* its generation; state.json names the selected generation and the one to *)
(* fall back to, state.previous.json is a second such pointer that is used *)
(* when state.json cannot be read.  One sequenced worker writes, one file  *)
(* at a time, and the process may die between any two writes.              *)
(*                                                                         *)
(* A generation is modelled by the content its digest identifies; its      *)
(* directory is intact while every file has the digest the manifest gives  *)
(* (the compiled data has a digest of its own and is left out).  Times     *)
(* are kept as the number of ticks left until a check made then is a full  *)
(* interval old, 0 for a check that is older or was never made.            *)
(***************************************************************************)
EXTENDS Naturals, FiniteSetsExt

CONSTANTS
  Urls,              \* addresses a user may subscribe to
  Texts,             \* what a server may send for a list
  GoodTexts,         \* the texts that preprocess and compile
  Bundled,           \* the official text built into the browser
  Bytes,             \* [Texts -> Nat], the size of a text
  MaxSubscriptions,  \* kMaxFilterSubscriptions
  MaxTotalBytes,     \* kMaxSubscriptionTotalBytes
  Interval,          \* kUpdateInterval, in ticks
  ClockShift,        \* how far the wall clock may be set back, in ticks
  Installed,         \* the sets of lists an earlier session may have left
  None               \* no generation, no file, a null time

ASSUME StoreAssumption ==
  /\ GoodTexts \subseteq Texts
  /\ Bundled \notin Texts
  /\ Bytes \in [Texts -> Nat]
  /\ MaxSubscriptions \in Nat
  /\ MaxTotalBytes \in Nat
  /\ Interval \in Nat \ {0}
  /\ ClockShift \in Nat
  /\ None \notin Texts \cup Nat
  /\ None # Bundled

VARIABLES
  gens,     \* the generation directories: [content -> every file is intact]
  state,    \* state.json, None when it is missing or unreadable
  backup,   \* state.previous.json
  job,      \* the call of WriteFilterListSet the worker is in, None if none
  running   \* the generation this process loaded before the sandbox

files == <<gens, state, backup>>
storeVars == <<files, job, running>>

Times == 0..(Interval + ClockShift)
OfficialTexts == Texts \cup {Bundled}

Subscription == [body: Texts, enabled: BOOLEAN]
Subscriptions == UNION {[S -> Subscription] : S \in SUBSET Urls}
Generation == [baseline: OfficialTexts \X OfficialTexts, downloaded: BOOLEAN,
               catalog: Texts \cup {None}, subs: Subscriptions]

Pointer == [current: Generation \cup {None}, previous: Generation \cup {None},
            checked: Times \cup {None}]

Steps == {"delete", "fill", "backup", "state", "prune", "done", "failed"}
Job == [target: Generation, checked: Times, previous: Generation \cup {None},
        rollback: Generation \cup {None}, clean: BOOLEAN, at: Steps]

\* None is told from each of them.
ASSUME NoneAssumption == None \notin Generation \cup Pointer \cup Job

-----------------------------------------------------------------------------
(* Reading *)

TotalBytes(subs) == MapThenSumSet(LAMBDA u : Bytes[subs[u].body], DOMAIN subs)

\* What both the writer and the reader require of the content itself.
ValidSet(g) ==
  /\ \A i \in 1..2 : g.baseline[i] \in GoodTexts \cup {Bundled}
  /\ g.catalog \in GoodTexts \cup {None}
  /\ \A u \in DOMAIN g.subs : g.subs[u].body \in GoodTexts
  /\ Cardinality(DOMAIN g.subs) <= MaxSubscriptions
  /\ TotalBytes(g.subs) <= MaxTotalBytes

\* An earlier session published what WriteFilterListSet lets through.
ASSUME InstalledAssumption ==
  \A g \in Installed : g \in Generation /\ ValidSet(g)

ReadBaselineListGeneration(g) ==
  /\ g \in DOMAIN gens
  /\ gens[g]
  /\ ValidSet(g)

\* The generation a pointer file selects.
ReadState(p) ==
  IF p = None THEN None
  ELSE IF ReadBaselineListGeneration(p.current) THEN p.current
  ELSE IF ReadBaselineListGeneration(p.previous) THEN p.previous
  ELSE None

ReadBaselineListStore ==
  IF ReadState(state) # None THEN ReadState(state) ELSE ReadState(backup)

\* The snapshot's checked_at: what the pointer says of its current generation.
\* For one that was fallen back to it is the time the directory was made,
\* which is not kept here and may be any.
CheckedTimes ==
  LET g == ReadBaselineListStore
      p == IF ReadState(state) # None THEN state ELSE backup
  IN  IF g = None THEN {0}
      ELSE IF g = p.current /\ p.checked # None THEN {p.checked}
      ELSE 0..Interval

BundledLists == [baseline |-> <<Bundled, Bundled>>, downloaded |-> FALSE,
                 catalog |-> None, subs |-> [u \in {} |-> None]]

ReadFilterListSet ==
  IF ReadBaselineListStore = None THEN BundledLists ELSE ReadBaselineListStore

-----------------------------------------------------------------------------
(* Writing: WriteFilterListSet, one step per file *)

\* What a write of generation g may fall back to.
Rollback(g) ==
  LET previous == ReadBaselineListStore
  IN  IF previous # g THEN previous
      ELSE IF /\ state # None
              /\ state.previous # g
              /\ ReadBaselineListGeneration(state.previous)
             THEN state.previous
      ELSE None

NewJob(g, checked, clean, at) ==
  [target |-> g, checked |-> checked, previous |-> ReadBaselineListStore,
   rollback |-> Rollback(g), clean |-> clean, at |-> at]

FirstStep(g) ==
  IF ~ValidSet(g) THEN "failed"
  ELSE IF ReadBaselineListGeneration(g) THEN "backup"
  ELSE IF g \in DOMAIN gens THEN "delete"
  ELSE "fill"

\* clean: every part of the call before the write went well.
BeginWrite(g, checked, clean) ==
  /\ job = None
  /\ job' = NewJob(g, checked, clean, FirstStep(g))
  /\ UNCHANGED <<files, running>>

Goto(step) == job' = [job EXCEPT !.at = step]

\* A generation that does not read is removed before it is written again.
DeleteCorrupt ==
  /\ job # None /\ job.at = "delete"
  /\ gens' = [g \in DOMAIN gens \ {job.target} |-> gens[g]]
  /\ Goto("fill")
  /\ UNCHANGED <<state, backup, running>>

\* The lists and the manifest are written to a temporary directory, which is
\* then moved to its name.
MoveDirectory ==
  /\ job # None /\ job.at = "fill"
  /\ gens' = [g \in DOMAIN gens \cup {job.target} |->
                IF g = job.target THEN TRUE ELSE gens[g]]
  /\ Goto("backup")
  /\ UNCHANGED <<state, backup, running>>

\* The last good selection is kept in the second pointer before the first one
\* is replaced.
WriteBackup ==
  /\ job # None /\ job.at = "backup"
  /\ backup' = IF job.previous = None THEN backup
               ELSE [current |-> job.previous, previous |-> job.rollback,
                     checked |-> None]
  /\ Goto("state")
  /\ UNCHANGED <<gens, state, running>>

WriteStateAlone ==
  /\ job # None /\ job.at = "state"
  /\ state' = [current |-> job.target, previous |-> None,
               checked |-> job.checked]
  /\ Goto("prune")
  /\ UNCHANGED <<gens, backup, running>>

WriteState ==
  /\ job # None /\ job.at = "state"
  /\ state' = [current |-> job.target, previous |-> job.rollback,
               checked |-> job.checked]
  /\ Goto("prune")
  /\ UNCHANGED <<gens, backup, running>>

UnusedNow == DOMAIN gens \ {job.target, running}

\* The directories nothing names any more.
Unused == DOMAIN gens \ {job.target, job.rollback, running}

\* Pruning removes directories one by one and ignores a failure.
Prune ==
  /\ job # None /\ job.at = "prune"
  /\ \E gone \in SUBSET Unused :
        gens' = [g \in DOMAIN gens \ gone |-> gens[g]]
  /\ Goto("done")
  /\ UNCHANGED <<state, backup, running>>

WriteIgnored ==
  /\ job # None /\ job.at \in {"delete", "fill", "backup", "state"}
  /\ Goto("done")
  /\ UNCHANGED <<files, running>>

\* A failed write of a list, the manifest or a pointer ends the call; nothing
\* that was written before is undone.
WriteFails ==
  /\ job # None /\ job.at \in {"delete", "fill", "backup", "state"}
  /\ Goto("failed")
  /\ UNCHANGED <<files, running>>

WriteStep ==
  \/ DeleteCorrupt
  \/ MoveDirectory
  \/ WriteBackup
  \/ WriteState
  \/ Prune

-----------------------------------------------------------------------------
(* What happens to the files and to the process *)

\* A file of a generation, or the pointer file, no longer reads.
DamageGeneration(g) ==
  /\ g \in DOMAIN gens /\ gens[g]
  /\ gens' = [gens EXCEPT ![g] = FALSE]
  /\ UNCHANGED <<state, backup, job, running>>

DamageState ==
  /\ state # None
  /\ state' = None
  /\ UNCHANGED <<gens, backup, job, running>>

\* The process ends wherever the worker is (its tasks do not block shutdown)
\* and the next one selects its lists before the sandbox is entered
\* (InitializeBaselineListsBeforeSandbox).
Restart ==
  /\ job' = None
  /\ running' = ReadBaselineListStore
  /\ UNCHANGED files

Older(t) == IF t = None \/ t = 0 THEN t ELSE t - 1
\* A time that is already old is taken to be too old for the shift to matter.
Younger(t) == IF t = None \/ t = 0 THEN t
              ELSE IF t > Interval THEN Interval + ClockShift
              ELSE t + ClockShift

\* Every time on disk, moved by the wall clock.
ShiftFiles(Moved(_)) ==
  /\ state' = IF state = None THEN None
              ELSE [state EXCEPT !.checked = Moved(@)]
  /\ UNCHANGED <<gens, backup, job, running>>

\* A first start, or one after earlier sessions installed a set.
StoreInit ==
  \E g \in Installed \cup {None} :
    /\ gens = [h \in {g} \ {None} |-> TRUE]
    /\ state = IF g = None THEN None
               ELSE [current |-> g, previous |-> None, checked |-> 0]
    /\ running = g
    /\ backup = None
    /\ job = None

StoreTypeOK ==
  /\ DOMAIN gens \subseteq Generation
  /\ \A g \in DOMAIN gens : gens[g] \in BOOLEAN
  /\ state \in Pointer \cup {None}
  /\ backup \in Pointer \cup {None}
  /\ job \in Job \cup {None}
  /\ running \in Generation \cup {None}
=============================================================================
