------------------------- MODULE ContentBlockingProofs -------------------------
(***************************************************************************)
(* Content blocking, for every value of the constants.                     *)
(*                                                                         *)
(* The filter lists: a write of several files leaves, after each of its    *)
(* steps, every generation that is named readable (NoDangling).            *)
(* Their coordinator never sleeps for good, and its flight is carried by   *)
(* one message (UpdatesGoOn): the two queues between it and the worker     *)
(* hold one live task or reply of a flight, or none (UpdatesInv).          *)
(* What its user is told of a subscription is what a next start reads      *)
(* (ToldIsSaved), because a write carries to the disk every other one as   *)
(* it is there, and whatever a coordinator left behind is ahead of what    *)
(* the next one posts (ToldInv).  The store keeps its promise              *)
(* (ImplementsPromise), because what the two pointers name and what a      *)
(* write found and made stay in step (FilesInv).                           *)
(*                                                                         *)
(* A request: what is fetched is allowed at that moment (FetchIsRight),    *)
(* and its page is told one story and its end (StoryIsTold).  Both follow  *)
(* from what is on its way in the pipes at each stage (RequestInv).        *)
(*                                                                         *)
(* A document: the names in it are examined until every one of them was    *)
(* handed to the agent (NamesAreExamined), because every name not handed   *)
(* over yet lies ahead of a queued walk (DocumentInv).                     *)
(***************************************************************************)
EXTENDS FilterListProperties, FilteringRequest, DocumentFilter,
        FiniteSetTheorems, SequenceTheorems, WellFoundedInduction, TLAPS

-----------------------------------------------------------------------------
(* The files of the lists *)

Reads(g) == ReadBaselineListGeneration(g)

IsPointer(p) ==
  \E c, q, t : p = [current |-> c, previous |-> q, checked |-> t]

IsJob(j) ==
  \E g, t, p, r, w, a :
    j = [target |-> g, checked |-> t, previous |-> p, rollback |-> r,
         clean |-> w, at |-> a]

\* What a write in progress relies on, at each of its steps.
WriteOK(j) ==
  /\ j.at = "delete" => ~Reads(j.target)
  /\ j.at \in {"delete", "fill", "backup", "state", "prune"} =>
       /\ ValidSet(j.target)
       /\ j.rollback # None => Reads(j.rollback)
       /\ j.previous # j.target => j.rollback = j.previous
  /\ j.at \in {"delete", "fill", "backup", "state"} /\ j.previous # None =>
       Reads(j.previous)
  /\ j.at \in {"backup", "state", "prune"} => Reads(j.target)
  /\ j.at \in {"delete", "fill", "backup"} /\ j.previous = None =>
       backup = None
  /\ j.at \in {"state", "prune"} => Named(backup) \subseteq {j.target, j.rollback}
  /\ j.at = "prune" => Named(state) \subseteq {j.target, j.rollback}

Needed == Named(state) \cup Named(backup) \cup ({running} \ {None})

Undamaged ==
  /\ \A g \in Needed : Reads(g)
  /\ backup # None => backup.current # None
  /\ job # None => WriteOK(job)

DiskInv ==
  /\ used \in [Troubles -> Nat]
  /\ state = None \/ IsPointer(state)
  /\ backup = None \/ IsPointer(backup)
  /\ job = None \/ IsJob(job)
  /\ used.damages = 0 => Undamaged

\* An event that may be counted, and touches no file.
OtherThanFiles ==
  UNCHANGED storeVars /\ (used' = used \/ \E what \in Troubles : Spend(what))

LEMMA SpendCounts ==
  ASSUME used \in [Troubles -> Nat],
         used' = used \/ \E what \in Troubles : Spend(what)
  PROVE  used' \in [Troubles -> Nat] /\ (used'.damages = 0 => used.damages = 0)
<1>1. CASE used' = used
  BY <1>1
<1>2. ASSUME NEW what \in Troubles, Spend(what)
      PROVE  used' \in [Troubles -> Nat]
             /\ (used'.damages = 0 => used.damages = 0)
  <2>1. used' = [used EXCEPT ![what] = @ + 1]
    BY <1>2 DEF Spend
  <2>2. "damages" \in Troubles /\ used[what] \in Nat /\ used["damages"] \in Nat
    BY DEF Troubles
  <2> QED  BY <2>1, <2>2
<1> QED  BY <1>1, <1>2

LEMMA SameReads ==
  ASSUME UNCHANGED gens
  PROVE  \A g : Reads(g)' <=> Reads(g)
BY DEF Reads, ReadBaselineListGeneration

LEMMA OthersKeepFiles ==
  ASSUME DiskInv, OtherThanFiles
  PROVE  DiskInv'
<1>1. used' \in [Troubles -> Nat] /\ (used'.damages = 0 => used.damages = 0)
  BY SpendCounts DEF DiskInv, OtherThanFiles
<1>2. UNCHANGED <<gens, state, backup, job, running>>
  BY DEF OtherThanFiles, storeVars, files
<1>3. (state = None \/ IsPointer(state))' /\ (backup = None \/ IsPointer(backup))'
      /\ (job = None \/ IsJob(job))'
  BY <1>2 DEF DiskInv
<1>4. Undamaged => Undamaged'
  BY <1>2, SameReads DEF Undamaged, Needed, WriteOK, Named
<1> QED  BY <1>1, <1>3, <1>4 DEF DiskInv

\* What a browser that starts now would run is read, and is nothing only if
\* there is no second pointer.
LEMMA StoreReads ==
  /\ ReadBaselineListStore # None => Reads(ReadBaselineListStore)
  /\ DiskInv /\ used.damages = 0 /\ ReadBaselineListStore = None => backup = None
<1>1. ReadBaselineListStore # None => Reads(ReadBaselineListStore)
  BY DEF ReadBaselineListStore, ReadState, Reads
<1>2. ASSUME DiskInv, used.damages = 0, ReadBaselineListStore = None, backup # None
      PROVE  FALSE
  <2>1. ReadState(backup) = None
    BY <1>2 DEF ReadBaselineListStore
  <2>2. backup.current # None /\ Reads(backup.current)
    BY <1>2 DEF DiskInv, Undamaged, Needed, Named
  <2> QED  BY <1>2, <2>1, <2>2 DEF ReadState, Reads
<1> QED  BY <1>1, <1>2

\* A write begins.
LEMMA BeginKeeps ==
  ASSUME DiskInv, UNCHANGED used, NEW g, NEW t, NEW w, BeginWrite(g, t, w)
  PROVE  DiskInv'
<1>1. /\ UNCHANGED <<gens, state, backup, running>>
      /\ job' = [target |-> g, checked |-> t, previous |-> ReadBaselineListStore,
                 rollback |-> Rollback(g), clean |-> w, at |-> FirstStep(g)]
  BY DEF BeginWrite, NewJob, files
<1> DEFINE previous == ReadBaselineListStore
           rollback == Rollback(g)
           first == FirstStep(g)
<1>2. /\ rollback # None => Reads(rollback)
      /\ previous # g => rollback = previous
  BY StoreReads DEF Rollback, Reads
<1>3. /\ previous # None => Reads(previous)
      /\ used.damages = 0 /\ previous = None => backup = None
  BY StoreReads
<1>4. /\ first \in {"failed", "backup", "delete", "fill"}
      /\ first # "failed" => ValidSet(g)
      /\ first = "backup" => Reads(g)
      /\ first = "delete" => ~Reads(g)
  BY DEF FirstStep, Reads
<1> HIDE DEF previous, rollback, first
<1>5. /\ job'.target = g /\ job'.previous = previous /\ job'.rollback = rollback
      /\ job'.at = first /\ IsJob(job')
  BY <1>1 DEF previous, rollback, first, IsJob
<1>6. used.damages = 0 => WriteOK(job)'
  BY <1>1, <1>2, <1>3, <1>4, <1>5, SameReads DEF WriteOK
<1>7. Undamaged /\ WriteOK(job)' => Undamaged'
  BY <1>1, SameReads DEF Undamaged, Needed, Named
<1> QED  BY <1>1, <1>5, <1>6, <1>7 DEF DiskInv

\* The fields of a write that goes on to its next step.
LEMMA GotoFields ==
  ASSUME NEW step, IsJob(job), Goto(step)
  PROVE  /\ IsJob(job') /\ job'.at = step
         /\ job'.target = job.target /\ job'.previous = job.previous
         /\ job'.rollback = job.rollback
BY DEF IsJob, Goto

LEMMA DeleteKeeps ==
  ASSUME DiskInv, UNCHANGED used, DeleteCorrupt
  PROVE  DiskInv'
<1>1. /\ UNCHANGED <<state, backup, running>> /\ job # None /\ job.at = "delete"
      /\ gens' = [g \in DOMAIN gens \ {job.target} |-> gens[g]]
  BY DEF DeleteCorrupt
<1>2. /\ IsJob(job') /\ job'.at = "fill" /\ job'.target = job.target
      /\ job'.previous = job.previous /\ job'.rollback = job.rollback
  BY <1>1, GotoFields DEF DeleteCorrupt, DiskInv
<1>3. \A g : g # job.target => (Reads(g)' <=> Reads(g))
  BY <1>1 DEF Reads, ReadBaselineListGeneration
<1>4. Undamaged => ~Reads(job.target)
  BY <1>1 DEF Undamaged, WriteOK
<1>5. Undamaged => WriteOK(job)'
  BY <1>1, <1>2, <1>3, <1>4 DEF Undamaged, WriteOK
<1>6. Undamaged => \A g \in Needed : Reads(g)'
  BY <1>3, <1>4 DEF Undamaged
<1>7. Needed' = Needed
  BY <1>1 DEF Needed, Named
<1>8. Undamaged => Undamaged'
  BY <1>1, <1>5, <1>6, <1>7 DEF Undamaged
<1> QED  BY <1>1, <1>2, <1>8 DEF DiskInv

LEMMA MoveKeeps ==
  ASSUME DiskInv, UNCHANGED used, MoveDirectory
  PROVE  DiskInv'
<1>1. /\ UNCHANGED <<state, backup, running>> /\ job # None /\ job.at = "fill"
      /\ gens' = [g \in DOMAIN gens \cup {job.target} |->
                    IF g = job.target THEN TRUE ELSE gens[g]]
  BY DEF MoveDirectory
<1>2. /\ IsJob(job') /\ job'.at = "backup" /\ job'.target = job.target
      /\ job'.previous = job.previous /\ job'.rollback = job.rollback
  BY <1>1, GotoFields DEF MoveDirectory, DiskInv
<1>3. \A g : Reads(g) => Reads(g)'
  BY <1>1 DEF Reads, ReadBaselineListGeneration
<1>4. ValidSet(job.target) => Reads(job.target)'
  BY <1>1, <1>2 DEF Reads, ReadBaselineListGeneration
<1>5. Undamaged => WriteOK(job)'
  BY <1>1, <1>2, <1>3, <1>4 DEF Undamaged, WriteOK
<1>6. Needed' = Needed
  BY <1>1 DEF Needed, Named
<1>7. Undamaged => Undamaged'
  BY <1>1, <1>3, <1>5, <1>6 DEF Undamaged
<1> QED  BY <1>1, <1>2, <1>7 DEF DiskInv

LEMMA BackupKeeps ==
  ASSUME DiskInv, UNCHANGED used, WriteBackup
  PROVE  DiskInv'
<1>1. /\ UNCHANGED <<gens, state, running>> /\ job # None /\ job.at = "backup"
      /\ backup' = IF job.previous = None THEN backup
                   ELSE [current |-> job.previous, previous |-> job.rollback,
                         checked |-> None]
  BY DEF WriteBackup
<1>2. /\ IsJob(job') /\ job'.at = "state" /\ job'.target = job.target
      /\ job'.previous = job.previous /\ job'.rollback = job.rollback
  BY <1>1, GotoFields DEF WriteBackup, DiskInv
<1>3. (backup = None \/ IsPointer(backup))'
  BY <1>1 DEF IsPointer, DiskInv
<1>4. ASSUME Undamaged
      PROVE  /\ Named(backup)' \subseteq {job.target, job.rollback}
             /\ \A g \in Named(backup)' : Reads(g)
             /\ backup' # None => backup'.current # None
  <2>1. WriteOK(job)
    BY <1>1, <1>4 DEF Undamaged
  <2>2. CASE job.previous = None
    <3>1. backup = None /\ backup' = None
      BY <1>1, <2>1, <2>2 DEF WriteOK
    <3> QED  BY <3>1 DEF Named
  <2>3. CASE job.previous # None
    <3>1. /\ backup'.current = job.previous /\ backup'.previous = job.rollback
          /\ Reads(job.previous) /\ (job.rollback # None => Reads(job.rollback))
          /\ job.previous # job.target => job.rollback = job.previous
      BY <1>1, <2>1, <2>3 DEF WriteOK
    <3>2. \A g \in Named(backup)' : g \in {job.previous, job.rollback} /\ g # None
      BY <3>1 DEF Named
    <3> QED  BY <2>3, <3>1, <3>2
  <2> QED  BY <2>2, <2>3
<1>5. Undamaged => WriteOK(job)'
  BY <1>1, <1>2, <1>4, SameReads DEF Undamaged, WriteOK
<1>6. Named(state)' = Named(state)
  BY <1>1 DEF Named
<1>7. Undamaged => Undamaged'
  BY <1>1, <1>4, <1>5, <1>6, SameReads DEF Undamaged, Needed
<1> QED  BY <1>1, <1>2, <1>3, <1>7 DEF DiskInv

LEMMA StateKeeps ==
  ASSUME DiskInv, UNCHANGED used, WriteState
  PROVE  DiskInv'
<1>1. /\ UNCHANGED <<gens, backup, running>> /\ job # None /\ job.at = "state"
      /\ state' = [current |-> job.target, previous |-> job.rollback,
                   checked |-> job.checked]
  BY DEF WriteState
<1>2. /\ IsJob(job') /\ job'.at = "prune" /\ job'.target = job.target
      /\ job'.previous = job.previous /\ job'.rollback = job.rollback
  BY <1>1, GotoFields DEF WriteState, DiskInv
<1>3. IsPointer(state')
  BY <1>1 DEF IsPointer
<1>4. Named(state)' \subseteq {job.target, job.rollback} \ {None}
  <2>1. state'.current = job.target /\ state'.previous = job.rollback
    BY <1>1
  <2> QED  BY <2>1 DEF Named
<1>5. Named(backup)' = Named(backup)
  BY <1>1 DEF Named
<1>6. Undamaged => /\ WriteOK(job)'
                   /\ Reads(job.target)
                   /\ job.rollback # None => Reads(job.rollback)
  BY <1>1, <1>2, <1>4, <1>5, SameReads DEF Undamaged, WriteOK
<1>7. Undamaged => \A g \in Needed' : Reads(g)
  BY <1>1, <1>4, <1>5, <1>6 DEF Undamaged, Needed
<1>8. Undamaged => Undamaged'
  BY <1>1, <1>6, <1>7, SameReads DEF Undamaged
<1> QED  BY <1>1, <1>2, <1>3, <1>8 DEF DiskInv

\* Nothing that a pointer names or the process uses is pruned.
LEMMA PruneKeeps ==
  ASSUME DiskInv, UNCHANGED used, Prune
  PROVE  DiskInv'
<1>1. /\ UNCHANGED <<state, backup, running>> /\ job # None /\ job.at = "prune"
  BY DEF Prune
<1>2. /\ IsJob(job') /\ job'.at = "done" /\ job'.target = job.target
      /\ job'.previous = job.previous /\ job'.rollback = job.rollback
  BY <1>1, GotoFields DEF Prune, DiskInv
<1>3. PICK gone \in SUBSET Unused : gens' = [g \in DOMAIN gens \ gone |-> gens[g]]
  BY DEF Prune
<1>4. \A g : g \in {job.target, job.rollback, running} /\ Reads(g) => Reads(g)'
  BY <1>3 DEF Reads, ReadBaselineListGeneration, Unused
<1>5. Undamaged => Needed \subseteq {job.target, job.rollback, running}
  BY <1>1 DEF Undamaged, WriteOK, Needed
<1>6. Needed' = Needed
  BY <1>1 DEF Needed, Named
<1>7. WriteOK(job)'
  BY <1>2 DEF WriteOK
<1>8. Undamaged => Undamaged'
  BY <1>1, <1>4, <1>5, <1>6, <1>7 DEF Undamaged
<1> QED  BY <1>1, <1>2, <1>8 DEF DiskInv

\* A failed write ends the call.
LEMMA FailsKeeps ==
  ASSUME DiskInv, WriteFails, Spend("faults")
  PROVE  DiskInv'
<1>1. UNCHANGED <<gens, state, backup, running>>
  BY DEF WriteFails, files
<1>2. IsJob(job') /\ job'.at = "failed"
  BY GotoFields DEF WriteFails, DiskInv
<1>3. used' \in [Troubles -> Nat] /\ (used'.damages = 0 => used.damages = 0)
  BY SpendCounts DEF DiskInv, Troubles
<1>4. WriteOK(job)'
  BY <1>2 DEF WriteOK
<1>5. Needed' = Needed
  BY <1>1 DEF Needed, Named
<1>6. Undamaged => Undamaged'
  BY <1>1, <1>4, <1>5, SameReads DEF Undamaged
<1> QED  BY <1>1, <1>2, <1>3, <1>6 DEF DiskInv

\* The call returns, or the process that was in it is gone.
LEMMA NoJobKeeps ==
  ASSUME DiskInv, UNCHANGED files, job' = None,
         running' \in {running, ReadBaselineListStore},
         used' = used \/ \E what \in Troubles : Spend(what)
  PROVE  DiskInv'
<1>1. UNCHANGED <<gens, state, backup>>
  BY DEF files
<1>2. used' \in [Troubles -> Nat] /\ (used'.damages = 0 => used.damages = 0)
  BY SpendCounts DEF DiskInv
<1>3. Undamaged => (running' # None => Reads(running'))
  BY StoreReads DEF Undamaged, Needed
<1>4. Named(state)' = Named(state) /\ Named(backup)' = Named(backup)
  BY <1>1 DEF Named
<1>5. Undamaged => \A g \in Needed' : Reads(g)
  BY <1>3, <1>4 DEF Undamaged, Needed
<1>6. Undamaged => Undamaged'
  BY <1>1, <1>5, SameReads DEF Undamaged
<1> QED  BY <1>1, <1>2, <1>6 DEF DiskInv

LEMMA DamageKeeps ==
  ASSUME DiskInv, Damage
  PROVE  DiskInv'
<1>1. used' = [used EXCEPT !["damages"] = @ + 1]
  BY DEF Damage, Spend
<1>2. used' \in [Troubles -> Nat] /\ used'.damages # 0
  <2>1. "damages" \in Troubles /\ used["damages"] \in Nat
    BY DEF DiskInv, Troubles
  <2> QED  BY <1>1, <2>1 DEF DiskInv
<1>3. /\ UNCHANGED <<backup, job>>
      /\ state' = state \/ state' = None
  BY DEF Damage, DamageState, DamageGeneration
<1> QED  BY <1>2, <1>3 DEF DiskInv

\* The times on disk move with the wall clock, and nothing else does.
LEMMA ShiftKeeps ==
  ASSUME DiskInv, Tick \/ ClockSetBack
  PROVE  DiskInv'
<1>1. /\ UNCHANGED <<gens, backup, job, running>>
      /\ state = None => state' = None
      /\ state # None => \E t : state' = [state EXCEPT !.checked = t]
      /\ used' = used \/ \E what \in Troubles : Spend(what)
  <2>1. CASE Tick
    BY <2>1 DEF Tick, Shift, ShiftFiles
  <2>2. CASE ClockSetBack
    BY <2>2 DEF ClockSetBack, Shift, ShiftFiles, Troubles
  <2> QED  BY <2>1, <2>2
<1>2. used' \in [Troubles -> Nat] /\ (used'.damages = 0 => used.damages = 0)
  BY <1>1, SpendCounts DEF DiskInv
<1>3. /\ state' = None \/ IsPointer(state')
      /\ Named(state') \subseteq Named(state)
  <2>1. CASE state = None
    BY <1>1, <2>1 DEF Named
  <2>2. CASE state # None
    <3>1. PICK t : state' = [state EXCEPT !.checked = t]
      BY <1>1, <2>2
    <3>2. PICK c, q, k : state = [current |-> c, previous |-> q, checked |-> k]
      BY <2>2 DEF DiskInv, IsPointer
    <3>3. state' = [current |-> c, previous |-> q, checked |-> t]
      BY <3>1, <3>2
    <3>4. state'.current = state.current /\ state'.previous = state.previous
      BY <3>2, <3>3
    <3> QED  BY <2>2, <3>3, <3>4 DEF IsPointer, Named
  <2> QED  BY <2>1, <2>2
<1>4. Named(backup)' = Named(backup)
  BY <1>1 DEF Named
<1>5. Undamaged => Undamaged'
  BY <1>1, <1>3, <1>4, SameReads DEF Undamaged, Needed, WriteOK
<1> QED  BY <1>1, <1>2, <1>3, <1>5 DEF DiskInv

LEMMA DiskStarts == ListsInit => DiskInv
<1> SUFFICES ASSUME ListsInit PROVE DiskInv
  OBVIOUS
<1>1. used \in [Troubles -> Nat] /\ used.damages = 0
  <2>1. DOMAIN Limit = Troubles /\ "damages" \in Troubles
    BY UpdaterAssumption DEF Troubles
  <2> QED  BY <2>1 DEF ListsInit
<1>2. PICK g \in Installed \cup {None} :
        /\ gens = [h \in {g} \ {None} |-> TRUE]
        /\ state = IF g = None THEN None
                   ELSE [current |-> g, previous |-> None, checked |-> 0]
        /\ running = g /\ backup = None /\ job = None
  BY DEF ListsInit, StoreInit
<1>3. state = None \/ IsPointer(state)
  BY <1>2 DEF IsPointer
<1>4. Needed = {g} \ {None}
  BY <1>2 DEF Needed, Named
<1>5. g # None => ValidSet(g)
  BY <1>2, InstalledAssumption
<1>6. \A h \in Needed : Reads(h)
  BY <1>2, <1>4, <1>5 DEF Reads, ReadBaselineListGeneration
<1> QED  BY <1>1, <1>2, <1>3, <1>6 DEF DiskInv, Undamaged

\* Of the coordinator's and the worker's steps, those that touch no file.
LEMMA QuietLists ==
  ASSUME \/ MaybeCreate \/ TimerFires \/ Network \/ RedirectRefused
         \/ WorkerReads \/ Replies \/ (\E c \in Checks : CheckNow(c))
         \/ (\E m \in Mutations : BeginMutation(m)) \/ ProfileDestroyed
  PROVE  OtherThanFiles
<1>1. {"faults", "mutations", "closes"} \subseteq Troubles
  BY DEF Troubles
<1>2. CASE MaybeCreate
  BY <1>2 DEF MaybeCreate, OtherThanFiles
<1>3. CASE TimerFires
  BY <1>3 DEF TimerFires, OtherThanFiles
<1>4. CASE Network
  <2>1. PICK text \in Texts \cup {None} :
          /\ Downloaded(text) \/ CatalogDownloaded(text) \/ LoaderReplies(text)
          /\ IF text \in GoodTexts THEN UNCHANGED used ELSE Spend("faults")
    BY <1>4 DEF Network
  <2>2. UNCHANGED storeVars
    BY <2>1 DEF Downloaded, CatalogDownloaded, LoaderReplies
  <2> QED  BY <1>1, <2>1, <2>2 DEF OtherThanFiles
<1>5. CASE RedirectRefused
  BY <1>1, <1>5 DEF RedirectRefused, OtherThanFiles
<1>6. CASE WorkerReads
  BY <1>6 DEF WorkerReads, OtherThanFiles
<1>7. CASE Replies
  BY <1>7 DEF Replies, ReplyDropped, Refreshed, PlanLoaded, CatalogPlanLoaded,
              UpdatesInstalled, MutationSaved, OtherThanFiles
<1>8. CASE \E c \in Checks : CheckNow(c)
  BY <1>8 DEF CheckNow, OtherThanFiles
<1>9. CASE \E m \in Mutations : BeginMutation(m)
  BY <1>1, <1>9 DEF BeginMutation, OtherThanFiles
<1>10. CASE ProfileDestroyed
  BY <1>1, <1>10 DEF ProfileDestroyed, OtherThanFiles
<1> QED
  BY <1>2, <1>3, <1>4, <1>5, <1>6, <1>7, <1>8, <1>9, <1>10

LEMMA WorkerKeeps ==
  ASSUME DiskInv, WorkerBegins \/ WorkerWrites \/ WorkerReturns
  PROVE  DiskInv'
<1>1. CASE WorkerBegins
  <2>1. UNCHANGED used
    BY <1>1 DEF WorkerBegins
  <2>2. UNCHANGED storeVars \/ \E g, t, w : BeginWrite(g, t, w)
    BY <1>1 DEF WorkerBegins
  <2>3. CASE UNCHANGED storeVars
    BY <2>1, <2>3, OthersKeepFiles DEF OtherThanFiles
  <2> QED  BY <2>1, <2>2, <2>3, BeginKeeps
<1>2. CASE WorkerWrites
  <2>1. CASE WriteStep /\ UNCHANGED used
    BY <2>1, DeleteKeeps, MoveKeeps, BackupKeeps, StateKeeps, PruneKeeps
       DEF WriteStep
  <2>2. CASE WriteFails /\ Spend("faults")
    BY <2>2, FailsKeeps
  <2> QED  BY <1>2, <2>1, <2>2 DEF WorkerWrites
<1>3. CASE WorkerReturns
  BY <1>3, NoJobKeeps DEF WorkerReturns
<1> QED  BY <1>1, <1>2, <1>3

LEMMA DiskSteps ==
  ASSUME DiskInv, [ListsNext]_listVars
  PROVE  DiskInv'
<1>1. CASE \/ MaybeCreate \/ TimerFires \/ Network \/ RedirectRefused
           \/ WorkerReads \/ Replies \/ (\E c \in Checks : CheckNow(c))
           \/ (\E m \in Mutations : BeginMutation(m)) \/ ProfileDestroyed
  BY <1>1, QuietLists, OthersKeepFiles
<1>2. CASE WorkerBegins \/ WorkerWrites \/ WorkerReturns
  BY <1>2, WorkerKeeps
<1>3. CASE ProcessRestarts
  <2>1. "restarts" \in Troubles
    BY DEF Troubles
  <2> QED  BY <1>3, <2>1, NoJobKeeps DEF ProcessRestarts, Restart
<1>4. CASE Damage
  BY <1>4, DamageKeeps
<1>5. CASE Tick \/ ClockSetBack
  BY <1>5, ShiftKeeps
<1>6. CASE UNCHANGED listVars
  BY <1>6, OthersKeepFiles DEF listVars, OtherThanFiles
<1> QED
  BY <1>1, <1>2, <1>3, <1>4, <1>5, <1>6 DEF ListsNext, Worker

(* What a write in progress relies on holds at each of its steps, and the  *)
(* files are what it left (WriteFilterListSet).                            *)
THEOREM DiskInductive == ListsSpec => []DiskInv
<1>1. DiskInv /\ [ListsNext]_listVars => DiskInv'
  BY DiskSteps
<1> QED  BY DiskStarts, <1>1, PTL DEF ListsSpec

(* Every generation that a pointer names or the running process uses is    *)
(* there and reads, after every single file operation, wherever it failed  *)
(* or the process ended, for any lists, limits and number of faults        *)
(* (WriteFilterListSet and its pruning).                                   *)
THEOREM FilesHold == ListsSpec => []NoDangling
<1>1. DiskInv => NoDangling
  BY DEF DiskInv, Undamaged, Needed, Reads, NoDangling
<1> QED  BY DiskInductive, <1>1, PTL

-----------------------------------------------------------------------------
(* The coordinator of the lists and its worker *)

\* A queue of messages.
IsQueue(q) ==
  /\ \E S : q \in Seq(S)
  /\ \A i \in DOMAIN q : {"kind", "live"} \subseteq DOMAIN q[i]

\* No message of q, and exactly one, is of a flight of the coordinator's.
Idles(q) == \A i \in DOMAIN q : q[i].live => q[i].kind = "refresh"
Carries(q, kinds) ==
  \E i \in DOMAIN q :
    /\ q[i].live /\ q[i].kind \in kinds
    /\ \A j \in DOMAIN q : q[j].live /\ j # i => q[j].kind = "refresh"

\* A flight that waits for the worker has one task or reply, of its phase.
CarriedOK(p, q, r) ==
  IF p \in DOMAIN WorkerPhase
    THEN \/ Carries(q, WorkerPhase[p]) /\ Idles(r)
         \/ Idles(q) /\ Carries(r, WorkerPhase[p])
    ELSE Idles(q) /\ Idles(r)

\* Whose flight it is.
FlagsOK ==
  /\ mutation # None <=> phase \in {"fetch", "save"}
  /\ catalogActive = (phase = "sources")
  /\ DOMAIN checks = Checks
  /\ \A c \in Checks : checks[c] = "waiting" =>
        phase \notin {"idle", "fetch", "save"}

\* The worker's call is of the task it is at.
JobIsHeads ==
  job # None => /\ queue # <<>>
                /\ Head(queue).kind \in {"update", "add", "change"}

IsTime(t) == t \in Times \cup {None}
TaskOK(m) == m.kind = "update" => "checked" \in DOMAIN m /\ m.checked \in Times
ReplyOK(m) == m.kind = "refresh" => "due" \in DOMAIN m /\ m.due \in Times

TimesOK ==
  /\ due \in Times /\ timer \in 0..Interval \cup {None}
  /\ state # None => IsTime(state.checked)
  /\ backup # None => IsTime(backup.checked)
  /\ job # None => job.checked \in Times
  /\ \A i \in DOMAIN queue : TaskOK(queue[i])
  /\ \A i \in DOMAIN replies : ReplyOK(replies[i])

UpdatesInv ==
  /\ DiskInv
  /\ IsQueue(queue) /\ IsQueue(replies)
  /\ CarriedOK(phase, queue, replies)
  /\ FlagsOK /\ JobIsHeads /\ TimesOK
  /\ NeverIdle

\* A message is taken from a queue.
LEMMA QueueEnds ==
  ASSUME NEW q, IsQueue(q), q # <<>>
  PROVE  /\ IsQueue(Tail(q)) /\ 1 \in DOMAIN q /\ Head(q) = q[1]
         /\ \A i \in DOMAIN Tail(q) : /\ i + 1 \in DOMAIN q /\ i + 1 # 1
                                      /\ Tail(q)[i] = q[i + 1]
         /\ \A i \in DOMAIN q : i # 1 => /\ i - 1 \in DOMAIN Tail(q)
                                         /\ Tail(q)[i - 1] = q[i]
         /\ \A i \in DOMAIN q : i \in Nat
         /\ \A i, j \in DOMAIN Tail(q) : i # j => i + 1 # j + 1
<1>1. PICK S : q \in Seq(S)
  BY DEF IsQueue
<1>2. Len(q) \in Nat /\ Len(q) > 0 /\ DOMAIN q = 1..Len(q) /\ Head(q) = q[1]
  BY <1>1
<1> DEFINE rest == Tail(q)
<1>3. /\ rest \in Seq(S) /\ Len(rest) = Len(q) - 1
      /\ \A i \in 1..Len(rest) : rest[i] = q[i + 1]
  BY <1>1, HeadTailProperties
<1> HIDE DEF rest
<1>4. DOMAIN rest = 1..(Len(q) - 1)
  BY <1>3
<1>5. \A i \in DOMAIN rest : i + 1 \in DOMAIN q /\ i + 1 # 1 /\ rest[i] = q[i + 1]
  BY <1>2, <1>3, <1>4
<1>6. \A i \in DOMAIN q : i # 1 => i - 1 \in DOMAIN rest /\ i - 1 + 1 = i
  BY <1>2, <1>4
<1>7. \A i \in DOMAIN q : i # 1 => i - 1 \in DOMAIN rest /\ rest[i - 1] = q[i]
  BY <1>5, <1>6
<1>8. \A i \in DOMAIN rest : {"kind", "live"} \subseteq DOMAIN rest[i]
  BY <1>5 DEF IsQueue
<1>9. IsQueue(rest)
  BY <1>3, <1>8 DEF IsQueue
<1>10. \A i, j \in DOMAIN rest : i # j => i + 1 # j + 1
  BY <1>2, <1>4
<1>11. \A i \in DOMAIN q : i \in Nat
  BY <1>2
<1> QED
  BY <1>2, <1>5, <1>7, <1>9, <1>10, <1>11 DEF rest

\* A message is put into one.
LEMMA QueueGrows ==
  ASSUME NEW q, IsQueue(q), NEW m, {"kind", "live"} \subseteq DOMAIN m
  PROVE  /\ IsQueue(Append(q, m)) /\ Append(q, m) # <<>>
         /\ DOMAIN Append(q, m) = DOMAIN q \cup {Len(q) + 1}
         /\ Len(q) + 1 \notin DOMAIN q
         /\ \A i \in DOMAIN q : Append(q, m)[i] = q[i]
         /\ Append(q, m)[Len(q) + 1] = m
         /\ q # <<>> => Head(Append(q, m)) = Head(q)
<1>1. PICK R : q \in Seq(R)
  BY DEF IsQueue
<1> DEFINE S == R \cup {m}
           more == Append(q, m)
<1>2. q \in Seq(S) /\ m \in S
  BY <1>1
<1>3. Len(q) \in Nat /\ DOMAIN q = 1..Len(q)
  BY <1>1
<1> HIDE DEF S
<1>4. /\ more \in Seq(S) /\ more # <<>> /\ Len(more) = Len(q) + 1
      /\ \A i \in 1..Len(q) : more[i] = q[i]
      /\ more[Len(q) + 1] = m
  BY <1>2, AppendProperties
<1> HIDE DEF more
<1>5. DOMAIN more = 1..(Len(q) + 1)
  BY <1>4
<1>6. DOMAIN more = DOMAIN q \cup {Len(q) + 1} /\ Len(q) + 1 \notin DOMAIN q
  BY <1>3, <1>5
<1>7. \A i \in DOMAIN more : {"kind", "live"} \subseteq DOMAIN more[i]
  BY <1>3, <1>4, <1>6 DEF IsQueue
<1>8. IsQueue(more)
  BY <1>4, <1>7 DEF IsQueue
<1>9. ASSUME q # <<>> PROVE Head(more) = Head(q)
  <2>1. 1 \in DOMAIN q /\ Head(q) = q[1]
    BY <1>1, <1>9
  <2>2. Head(more) = more[1]
    BY <1>4
  <2> QED
    BY <1>3, <1>4, <2>1, <2>2
<1> QED
  BY <1>3, <1>4, <1>6, <1>8, <1>9 DEF more

LEMMA IdlesGrows ==
  ASSUME NEW q, IsQueue(q), Idles(q), NEW m, {"kind", "live"} \subseteq DOMAIN m
  PROVE  /\ (m.live => m.kind = "refresh") => Idles(Append(q, m))
         /\ \A kinds : m.live /\ m.kind \in kinds => Carries(Append(q, m), kinds)
<1> DEFINE more == Append(q, m)
<1>1. /\ DOMAIN more = DOMAIN q \cup {Len(q) + 1} /\ Len(q) + 1 \notin DOMAIN q
      /\ \A i \in DOMAIN q : more[i] = q[i]
      /\ more[Len(q) + 1] = m
  BY QueueGrows
<1> HIDE DEF more
<1>2. (m.live => m.kind = "refresh") => Idles(more)
  BY <1>1 DEF Idles
<1>3. ASSUME NEW kinds, m.live, m.kind \in kinds PROVE Carries(more, kinds)
  <2>1. \A j \in DOMAIN more : more[j].live /\ j # Len(q) + 1 => more[j].kind = "refresh"
    BY <1>1 DEF Idles
  <2> QED
    BY <1>1, <1>3, <2>1 DEF Carries
<1> QED
  BY <1>2, <1>3 DEF more

LEMMA CarriesGrows ==
  ASSUME NEW q, NEW kinds, IsQueue(q), Carries(q, kinds),
         NEW m, {"kind", "live"} \subseteq DOMAIN m, m.live => m.kind = "refresh"
  PROVE  Carries(Append(q, m), kinds)
<1> DEFINE more == Append(q, m)
<1>1. /\ DOMAIN more = DOMAIN q \cup {Len(q) + 1} /\ Len(q) + 1 \notin DOMAIN q
      /\ \A i \in DOMAIN q : more[i] = q[i]
      /\ more[Len(q) + 1] = m
  BY QueueGrows
<1> HIDE DEF more
<1>2. PICK i \in DOMAIN q :
        /\ q[i].live /\ q[i].kind \in kinds
        /\ \A j \in DOMAIN q : q[j].live /\ j # i => q[j].kind = "refresh"
  BY DEF Carries
<1>3. \A j \in DOMAIN more : more[j].live /\ j # i => more[j].kind = "refresh"
  BY <1>1, <1>2
<1>4. i \in DOMAIN more /\ more[i].live /\ more[i].kind \in kinds
  BY <1>1, <1>2
<1>5. Carries(more, kinds)
  BY <1>3, <1>4 DEF Carries
<1> QED
  BY <1>5 DEF more

LEMMA IdlesEnds ==
  ASSUME NEW q, IsQueue(q), q # <<>>, Idles(q)
  PROVE  Idles(Tail(q)) /\ (Head(q).live => Head(q).kind = "refresh")
<1> DEFINE rest == Tail(q)
<1>1. /\ 1 \in DOMAIN q /\ Head(q) = q[1]
      /\ \A i \in DOMAIN rest : i + 1 \in DOMAIN q /\ rest[i] = q[i + 1]
  BY QueueEnds
<1> HIDE DEF rest
<1>2. Idles(rest)
  BY <1>1 DEF Idles
<1> QED
  BY <1>1, <1>2 DEF Idles, rest

\* The message taken is the one of the flight, or it is not.
LEMMA CarriesEnds ==
  ASSUME NEW q, NEW kinds, IsQueue(q), q # <<>>, Carries(q, kinds), "refresh" \notin kinds
  PROVE  IF Head(q).live /\ Head(q).kind # "refresh"
           THEN Idles(Tail(q)) /\ Head(q).kind \in kinds
           ELSE Carries(Tail(q), kinds)
<1> DEFINE rest == Tail(q)
<1>1. /\ 1 \in DOMAIN q /\ Head(q) = q[1]
      /\ \A i \in DOMAIN rest : i + 1 \in DOMAIN q /\ i + 1 # 1 /\ rest[i] = q[i + 1]
      /\ \A i \in DOMAIN q : i # 1 => i - 1 \in DOMAIN rest /\ rest[i - 1] = q[i]
      /\ \A i \in DOMAIN q : i \in Nat
      /\ \A i, j \in DOMAIN rest : i # j => i + 1 # j + 1
  BY QueueEnds
<1> HIDE DEF rest
<1>2. PICK i \in DOMAIN q :
        /\ q[i].live /\ q[i].kind \in kinds
        /\ \A j \in DOMAIN q : q[j].live /\ j # i => q[j].kind = "refresh"
  BY DEF Carries
<1>3. CASE i = 1
  <2>1. Idles(rest)
    BY <1>1, <1>2, <1>3 DEF Idles
  <2>2. Head(q).live /\ Head(q).kind # "refresh" /\ Head(q).kind \in kinds
    BY <1>1, <1>2, <1>3
  <2> QED
    BY <2>1, <2>2 DEF rest
<1>4. CASE i # 1
  <2>1. ~(Head(q).live /\ Head(q).kind # "refresh")
    BY <1>1, <1>2, <1>4
  <2>2. i - 1 \in DOMAIN rest /\ rest[i - 1] = q[i] /\ i - 1 + 1 = i
    BY <1>1, <1>4
  <2>3. ASSUME NEW j \in DOMAIN rest, rest[j].live, j # i - 1
        PROVE  rest[j].kind = "refresh"
    <3>1. j + 1 # i /\ j + 1 \in DOMAIN q /\ rest[j] = q[j + 1]
      BY <1>1, <2>2, <2>3
    <3> QED
      BY <1>2, <2>3, <3>1
  <2>4. Carries(rest, kinds)
    BY <1>2, <2>2, <2>3 DEF Carries
  <2> QED
    BY <2>1, <2>4 DEF rest
<1> QED
  BY <1>3, <1>4

LEMMA WorkersPhases ==
  /\ DOMAIN WorkerPhase = {"plan", "parse", "install", "save"}
  /\ WorkerPhase["plan"] = {"plan"} /\ WorkerPhase["parse"] = {"parse"}
  /\ WorkerPhase["install"] = {"update"}
  /\ WorkerPhase["save"] = {"add", "change", "mutation"}
  /\ \A p \in DOMAIN WorkerPhase : "refresh" \notin WorkerPhase[p]
BY DEF WorkerPhase

\* A flight comes to the worker.
LEMMA FlightPosts ==
  ASSUME NEW p, NEW q, NEW r, CarriedOK(p, q, r), p \notin DOMAIN WorkerPhase,
         IsQueue(q), NEW n \in DOMAIN WorkerPhase,
         NEW m, {"kind", "live"} \subseteq DOMAIN m, m.live, m.kind \in WorkerPhase[n]
  PROVE  CarriedOK(n, Append(q, m), r)
<1>1. Idles(q) /\ Idles(r)
  BY DEF CarriedOK
<1>2. Carries(Append(q, m), WorkerPhase[n])
  BY <1>1, IdlesGrows
<1> QED
  BY <1>1, <1>2 DEF CarriedOK

\* Something is posted that no flight waits for.
LEMMA OtherPosts ==
  ASSUME NEW p, NEW q, NEW r, CarriedOK(p, q, r), IsQueue(q),
         NEW m, {"kind", "live"} \subseteq DOMAIN m, m.live => m.kind = "refresh"
  PROVE  CarriedOK(p, Append(q, m), r)
<1>1. Idles(q) => Idles(Append(q, m))
  BY IdlesGrows
<1>2. ASSUME p \in DOMAIN WorkerPhase, Carries(q, WorkerPhase[p])
      PROVE  Carries(Append(q, m), WorkerPhase[p])
  BY <1>2, CarriesGrows
<1> QED
  BY <1>1, <1>2 DEF CarriedOK

\* The worker answers the task it is at.
LEMMA WorkerPasses ==
  ASSUME NEW p, NEW q, NEW r, CarriedOK(p, q, r), IsQueue(q), IsQueue(r), q # <<>>,
         NEW m, {"kind", "live"} \subseteq DOMAIN m, m.live = Head(q).live,
         \/ m.kind = Head(q).kind
         \/ m.kind = "mutation" /\ Head(q).kind \in {"add", "change"}
  PROVE  CarriedOK(p, Tail(q), Append(r, m))
<1>1. CASE Head(q).live /\ Head(q).kind # "refresh"
  <2>1. ~Idles(q)
    BY <1>1, IdlesEnds
  <2>2. p \in DOMAIN WorkerPhase /\ Carries(q, WorkerPhase[p]) /\ Idles(r)
    BY <2>1 DEF CarriedOK
  <2>3. Idles(Tail(q)) /\ Head(q).kind \in WorkerPhase[p]
    BY <1>1, <2>2, CarriesEnds, WorkersPhases
  <2>4. m.kind \in WorkerPhase[p]
    <3>1. CASE m.kind = Head(q).kind
      BY <2>3, <3>1
    <3>2. CASE m.kind = "mutation" /\ Head(q).kind \in {"add", "change"}
      BY <2>2, <2>3, <3>2, WorkersPhases
    <3> QED
      BY <3>1, <3>2
  <2>5. Carries(Append(r, m), WorkerPhase[p])
    BY <1>1, <2>2, <2>4, IdlesGrows
  <2> QED
    BY <2>2, <2>3, <2>5 DEF CarriedOK
<1>2. CASE ~(Head(q).live /\ Head(q).kind # "refresh")
  <2>1. m.live => m.kind = "refresh"
    BY <1>2
  <2>2. Idles(q) => Idles(Tail(q))
    BY IdlesEnds
  <2>3. Idles(r) => Idles(Append(r, m))
    BY <2>1, IdlesGrows
  <2>4. ASSUME p \in DOMAIN WorkerPhase, Carries(q, WorkerPhase[p])
        PROVE  Carries(Tail(q), WorkerPhase[p])
    BY <1>2, <2>4, CarriesEnds, WorkersPhases
  <2>5. ASSUME p \in DOMAIN WorkerPhase, Carries(r, WorkerPhase[p])
        PROVE  Carries(Append(r, m), WorkerPhase[p])
    BY <2>1, <2>5, CarriesGrows
  <2> QED
    BY <2>2, <2>3, <2>4, <2>5 DEF CarriedOK
<1> QED
  BY <1>1, <1>2

\* A reply is taken that belongs to a flight.
LEMMA ReplyTaken ==
  ASSUME NEW p, NEW q, NEW r, CarriedOK(p, q, r), IsQueue(r), r # <<>>,
         Head(r).live, Head(r).kind # "refresh"
  PROVE  /\ p \in DOMAIN WorkerPhase /\ Head(r).kind \in WorkerPhase[p]
         /\ \A n : n \notin DOMAIN WorkerPhase => CarriedOK(n, q, Tail(r))
<1>1. ~Idles(r)
  BY IdlesEnds
<1>2. p \in DOMAIN WorkerPhase /\ Carries(r, WorkerPhase[p]) /\ Idles(q)
  BY <1>1 DEF CarriedOK
<1>3. Idles(Tail(r)) /\ Head(r).kind \in WorkerPhase[p]
  BY <1>2, CarriesEnds, WorkersPhases
<1> QED
  BY <1>2, <1>3 DEF CarriedOK

\* One is taken that does not.
LEMMA ReplyPasses ==
  ASSUME NEW p, NEW q, NEW r, CarriedOK(p, q, r), IsQueue(r), r # <<>>,
         Head(r).live => Head(r).kind = "refresh"
  PROVE  CarriedOK(p, q, Tail(r))
<1>1. Idles(r) => Idles(Tail(r))
  BY IdlesEnds
<1>2. ASSUME p \in DOMAIN WorkerPhase, Carries(r, WorkerPhase[p])
      PROVE  Carries(Tail(r), WorkerPhase[p])
  BY <1>2, CarriesEnds, WorkersPhases
<1> QED
  BY <1>1, <1>2 DEF CarriedOK

\* The coordinator is gone.
LEMMA QueueOrphaned ==
  ASSUME NEW q, IsQueue(q)
  PROVE  /\ IsQueue(Orphaned(q)) /\ Idles(Orphaned(q))
         /\ q # <<>> => Orphaned(q) # <<>>
         /\ DOMAIN Orphaned(q) = DOMAIN q
         /\ \A i \in DOMAIN q :
              /\ Orphaned(q)[i].kind = q[i].kind
              /\ DOMAIN Orphaned(q)[i] = DOMAIN q[i]
              /\ \A f \in DOMAIN q[i] : f # "live" => Orphaned(q)[i][f] = q[i][f]
         /\ q # <<>> => Head(Orphaned(q)).kind = Head(q).kind
<1> DEFINE over == Orphaned(q)
<1>1. PICK S : q \in Seq(S)
  BY DEF IsQueue
<1>2. Len(q) \in Nat /\ DOMAIN q = 1..Len(q)
  BY <1>1
<1>3. /\ DOMAIN over = DOMAIN q
      /\ \A i \in DOMAIN q : over[i] = [q[i] EXCEPT !.live = FALSE]
  BY DEF Orphaned
<1>4. over = [i \in 1..Len(q) |-> over[i]]
  BY <1>2 DEF Orphaned
<1> DEFINE T == {over[i] : i \in DOMAIN q}
<1>5. over \in Seq(T) /\ Len(over) = Len(q)
  <2> HIDE DEF over
  <2>1. \A i \in 1..Len(q) : over[i] \in T
    BY <1>2
  <2> HIDE DEF T
  <2>2. over \in [1..Len(q) -> T]
    BY <1>4, <2>1
  <2> QED
    BY <1>2, <2>2
<1> HIDE DEF over, T
<1>6. ASSUME NEW i \in DOMAIN q
      PROVE  /\ DOMAIN over[i] = DOMAIN q[i]
             /\ over[i].live = FALSE /\ over[i].kind = q[i].kind
             /\ \A f \in DOMAIN q[i] : f # "live" => over[i][f] = q[i][f]
  <2>1. over[i] = [q[i] EXCEPT !.live = FALSE] /\ {"kind", "live"} \subseteq DOMAIN q[i]
    BY <1>3 DEF IsQueue
  <2> QED
    BY <2>1
<1>7. IsQueue(over)
  BY <1>3, <1>5, <1>6 DEF IsQueue
<1>8. Idles(over)
  BY <1>3, <1>6 DEF Idles
<1>9. ASSUME q # <<>> PROVE over # <<>> /\ Head(over).kind = Head(q).kind
  <2>1. 1 \in DOMAIN q /\ Head(q) = q[1]
    BY <1>1, <1>9
  <2>2. over # <<>> /\ Head(over) = over[1]
    BY <1>2, <1>5, <2>1
  <2> QED
    BY <1>6, <2>1, <2>2
<1> QED
  BY <1>3, <1>6, <1>7, <1>8, <1>9 DEF over

\* Where a refresh is that will be taken up.
LEMMA HasGrows ==
  ASSUME NEW q, IsQueue(q), NEW m, {"kind", "live"} \subseteq DOMAIN m,
         Has(q, "refresh") \/ (m.kind = "refresh" /\ m.live)
  PROVE  Has(Append(q, m), "refresh")
<1> DEFINE more == Append(q, m)
<1>1. /\ DOMAIN more = DOMAIN q \cup {Len(q) + 1}
      /\ \A i \in DOMAIN q : more[i] = q[i]
      /\ more[Len(q) + 1] = m
  BY QueueGrows
<1> HIDE DEF more
<1>2. Has(more, "refresh")
  BY <1>1 DEF Has
<1> QED
  BY <1>2 DEF more

LEMMA HasPasses ==
  ASSUME NEW q, IsQueue(q), q # <<>>, Has(q, "refresh"),
         ~(Head(q).live /\ Head(q).kind = "refresh")
  PROVE  Has(Tail(q), "refresh")
<1> DEFINE rest == Tail(q)
<1>1. /\ Head(q) = q[1]
      /\ \A i \in DOMAIN q : i # 1 => i - 1 \in DOMAIN rest /\ rest[i - 1] = q[i]
  BY QueueEnds
<1> HIDE DEF rest
<1>2. PICK i \in DOMAIN q : q[i].kind = "refresh" /\ q[i].live
  BY DEF Has
<1>3. i # 1
  BY <1>1, <1>2
<1>4. Has(rest, "refresh")
  BY <1>1, <1>2, <1>3 DEF Has
<1> QED
  BY <1>4 DEF rest

\* A message the coordinator posts.
IsPost(m) ==
  /\ {"kind", "live"} \subseteq DOMAIN m
  /\ TaskOK(m)

\* What is left to show of a step of the coordinator's: it takes at most a
\* reply, posts at most a task, and touches no file.
LEMMA CoordinatorKeeps ==
  ASSUME UpdatesInv, DiskInv', UNCHANGED storeVars,
         queue' = queue \/ \E m : IsPost(m) /\ queue' = Append(queue, m),
         replies' = replies \/ (replies # <<>> /\ replies' = Tail(replies)),
         CarriedOK(phase', queue', replies'), FlagsOK',
         due' \in Times, timer' \in 0..Interval \cup {None}, NeverIdle'
  PROVE  UpdatesInv'
<1>1. UNCHANGED <<state, backup, job>>
  BY DEF storeVars, files
<1>2. /\ IsQueue(queue')
      /\ \A i \in DOMAIN queue' : TaskOK(queue'[i])
      /\ queue # <<>> => queue' # <<>> /\ Head(queue') = Head(queue)
  <2>1. /\ IsQueue(queue)
        /\ \A i \in DOMAIN queue : TaskOK(queue[i])
    BY DEF UpdatesInv, TimesOK
  <2>2. CASE queue' = queue
    BY <2>1, <2>2
  <2>3. CASE \E m : IsPost(m) /\ queue' = Append(queue, m)
    <3>1. PICK m : IsPost(m) /\ queue' = Append(queue, m)
      BY <2>3
    <3>2. {"kind", "live"} \subseteq DOMAIN m /\ TaskOK(m)
      BY <3>1 DEF IsPost
    <3>3. /\ IsQueue(queue') /\ queue' # <<>>
          /\ DOMAIN queue' = DOMAIN queue \cup {Len(queue) + 1}
          /\ \A i \in DOMAIN queue : queue'[i] = queue[i]
          /\ queue'[Len(queue) + 1] = m
          /\ queue # <<>> => Head(queue') = Head(queue)
      BY <2>1, <3>1, <3>2, QueueGrows
    <3> QED
      BY <2>1, <3>2, <3>3
  <2> QED
    BY <2>2, <2>3
<1>3. /\ IsQueue(replies')
      /\ \A i \in DOMAIN replies' : ReplyOK(replies'[i])
  <2>1. /\ IsQueue(replies)
        /\ \A i \in DOMAIN replies : ReplyOK(replies[i])
    BY DEF UpdatesInv, TimesOK
  <2>2. CASE replies' = replies
    BY <2>1, <2>2
  <2>3. CASE replies # <<>> /\ replies' = Tail(replies)
    <3>1. /\ IsQueue(replies')
          /\ \A i \in DOMAIN replies' : i + 1 \in DOMAIN replies /\ replies'[i] = replies[i + 1]
      BY <2>1, <2>3, QueueEnds
    <3> QED
      BY <2>1, <3>1
  <2> QED
    BY <2>2, <2>3
<1>4. JobIsHeads'
  BY <1>1, <1>2 DEF UpdatesInv, JobIsHeads
<1>5. TimesOK'
  BY <1>1, <1>2, <1>3 DEF UpdatesInv, TimesOK
<1> QED
  BY <1>2, <1>3, <1>4, <1>5 DEF UpdatesInv

LEMMA TimesAre ==
  /\ Interval \in Nat \ {0} /\ ClockShift \in Nat
  /\ Retry \in 0..Interval /\ None \notin Nat
  /\ 0..Interval \subseteq Times /\ 0 \in Times /\ Times \subseteq Nat
<1>1. /\ Interval \in Nat \ {0} /\ ClockShift \in Nat
      /\ Retry \in 0..Interval /\ None \notin Nat
  BY StoreAssumption, UpdaterAssumption
<1> QED
  BY <1>1 DEF Times

LEMMA UpdatesFacts ==
  ASSUME UpdatesInv
  PROVE  /\ DiskInv /\ IsQueue(queue) /\ IsQueue(replies)
         /\ CarriedOK(phase, queue, replies)
         /\ FlagsOK /\ JobIsHeads /\ TimesOK /\ NeverIdle
         /\ due \in Times /\ timer \in 0..Interval \cup {None}
         /\ Interval \in Nat \ {0} /\ ClockShift \in Nat
         /\ Retry \in 0..Interval /\ None \notin Nat
         /\ 0..Interval \subseteq Times /\ 0 \in Times /\ Times \subseteq Nat
BY TimesAre DEF UpdatesInv, TimesOK

\* A flight goes on between two phases in which it waits for a download.
LEMMA PhaseKeeps ==
  ASSUME CarriedOK(phase, queue, replies), phase \notin DOMAIN WorkerPhase,
         phase' \notin DOMAIN WorkerPhase, UNCHANGED <<queue, replies>>
  PROVE  CarriedOK(phase', queue', replies')
BY DEF CarriedOK

\* The disk under a step that touches no file.
LEMMA QuietDisk ==
  ASSUME UpdatesInv,
         \/ MaybeCreate \/ TimerFires \/ Network \/ RedirectRefused
         \/ WorkerReads \/ Replies \/ (\E c \in Checks : CheckNow(c))
         \/ (\E m \in Mutations : BeginMutation(m)) \/ ProfileDestroyed
  PROVE  DiskInv' /\ UNCHANGED storeVars
<1>1. OtherThanFiles
  BY QuietLists
<1> QED
  BY <1>1, OthersKeepFiles DEF UpdatesInv, OtherThanFiles

LEMMA CreateKeeps ==
  ASSUME UpdatesInv, MaybeCreate
  PROVE  UpdatesInv'
<1>1. /\ timer' = 0 /\ due' \in Times
      /\ UNCHANGED <<phase, mutation, catalogActive, checks, queue, replies>>
  BY UpdatesFacts DEF MaybeCreate
<1>2. CarriedOK(phase', queue', replies') /\ FlagsOK'
  BY <1>1, UpdatesFacts DEF FlagsOK
<1>3. timer' \in 0..Interval \cup {None} /\ timer' # None /\ timer' <= Interval
  BY <1>1, UpdatesFacts
<1>4. NeverIdle'
  BY <1>3 DEF NeverIdle
<1> QED
  BY <1>1, <1>2, <1>3, <1>4, QuietDisk, CoordinatorKeeps

\* StartUpdate, when nothing is in flight.
LEMMA UpdateStarts ==
  ASSUME UpdatesInv, phase = "idle", StartUpdate
  PROVE  /\ phase' = "plan" /\ due' = 0 /\ in_flight'
         /\ \E m : IsPost(m) /\ queue' = Append(queue, m)
         /\ CarriedOK(phase', queue', replies)
<1> DEFINE m == [kind |-> "plan", live |-> TRUE]
<1>1. phase' = "plan" /\ due' = 0 /\ queue' = Append(queue, m)
  BY DEF StartUpdate, Post
<1>2. IsPost(m) /\ m.live /\ m.kind = "plan" /\ {"kind", "live"} \subseteq DOMAIN m
  BY DEF IsPost, TaskOK
<1> HIDE DEF m
<1>3. CarriedOK("plan", Append(queue, m), replies)
  BY <1>2, UpdatesFacts, WorkersPhases, FlightPosts
<1> QED
  BY <1>1, <1>2, <1>3 DEF in_flight

\* Start(t, left).
LEMMA StartKeeps ==
  ASSUME UpdatesInv, NEW t \in Times, NEW left \in 0..Interval \cup {None}, Start(t, left)
  PROVE  /\ due' \in Times /\ timer' \in 0..Interval \cup {None}
         /\ phase = "idle" \/ (phase' = phase /\ queue' = queue)
         /\ phase' = "idle" => timer' # None /\ timer' <= Interval
         /\ phase' \in {phase, "plan"}
         /\ queue' = queue \/ \E m : IsPost(m) /\ queue' = Append(queue, m)
         /\ CarriedOK(phase', queue', replies)
<1>1. CASE in_flight /\ due' = t /\ timer' = left /\ UNCHANGED <<task, phase, queue>>
  BY <1>1, UpdatesFacts DEF in_flight
<1>2. CASE /\ ~in_flight /\ t > 0
           /\ timer' = Smaller(t, Interval)
           /\ due' = Smaller(t, Interval)
           /\ UNCHANGED <<phase, queue>>
  <2>1. Smaller(t, Interval) \in 0..Interval
    BY UpdatesFacts DEF Smaller
  <2>2. due' \in Times /\ timer' \in 0..Interval /\ timer' # None
    BY <1>2, <2>1, UpdatesFacts
  <2> QED
    BY <1>2, <2>2, UpdatesFacts DEF in_flight
<1>3. CASE ~in_flight /\ t = 0 /\ timer' = left /\ StartUpdate
  BY <1>3, UpdateStarts DEF in_flight
<1> QED
  BY <1>1, <1>2, <1>3 DEF Start

\* A flight that is not a change, and is in no catalog, goes on.
LEMMA FlagsKeep ==
  ASSUME FlagsOK, UNCHANGED <<mutation, catalogActive, checks>>,
         phase \notin {"fetch", "save", "sources"},
         phase' \notin {"idle", "fetch", "save", "sources"} \/ phase' = phase
  PROVE  FlagsOK'
BY DEF FlagsOK

\* A step after which something is in flight, or the timer runs.
LEMMA WakesUp ==
  ASSUME in_flight' \/ (timer' # None /\ timer' <= Interval)
  PROVE  NeverIdle'
BY DEF NeverIdle

\* A step that leaves what will wake the coordinator.
LEMMA StaysAwake ==
  ASSUME UpdatesInv, UNCHANGED <<alive, timer, phase>>,
         queue' = queue \/ (\E m : IsPost(m) /\ queue' = Append(queue, m)),
         replies' = replies \/ /\ replies # <<>> /\ replies' = Tail(replies)
                               /\ ~(Head(replies).live /\ Head(replies).kind = "refresh")
  PROVE  NeverIdle'
<1>1. Has(queue, "refresh") => Has(queue', "refresh")
  <2>1. ASSUME NEW m, IsPost(m), queue' = Append(queue, m), Has(queue, "refresh")
        PROVE  Has(queue', "refresh")
    <3>1. {"kind", "live"} \subseteq DOMAIN m
      BY <2>1 DEF IsPost
    <3> QED
      BY <2>1, <3>1, UpdatesFacts, HasGrows
  <2> QED
    BY <2>1
<1>2. Has(replies, "refresh") => Has(replies', "refresh")
  BY UpdatesFacts, HasPasses
<1>3. in_flight' = in_flight
  BY DEF in_flight
<1> QED
  BY <1>1, <1>2, <1>3, UpdatesFacts DEF NeverIdle

LEMMA TimerKeeps ==
  ASSUME UpdatesInv, TimerFires
  PROVE  UpdatesInv'
<1>1. UNCHANGED <<storeVars, alive, catalogActive, mutation, checks, replies>>
  BY DEF TimerFires
<1>2. CASE /\ task = "refresh" /\ timer' = None
           /\ Post([kind |-> "refresh", live |-> TRUE])
           /\ UNCHANGED <<task, due, phase>>
  <2> DEFINE m == [kind |-> "refresh", live |-> TRUE]
  <2>1. /\ queue' = Append(queue, m) /\ IsPost(m) /\ m.kind = "refresh" /\ m.live
        /\ {"kind", "live"} \subseteq DOMAIN m
    BY <1>2 DEF Post, IsPost, TaskOK
  <2> HIDE DEF m
  <2>2. CarriedOK(phase', queue', replies')
    BY <1>1, <1>2, <2>1, UpdatesFacts, OtherPosts
  <2>3. Has(queue', "refresh")
    BY <2>1, UpdatesFacts, HasGrows
  <2>4. NeverIdle'
    BY <2>3 DEF NeverIdle
  <2>5. FlagsOK'
    BY <1>1, <1>2, UpdatesFacts DEF FlagsOK
  <2>6. due' \in Times /\ timer' \in 0..Interval \cup {None}
    BY <1>2, UpdatesFacts
  <2> QED
    BY <1>1, <2>1, <2>2, <2>4, <2>5, <2>6, QuietDisk, CoordinatorKeeps
<1>3. CASE Start(due, None)
  <2>1. /\ due' \in Times /\ timer' \in 0..Interval \cup {None}
        /\ phase' = "idle" => timer' # None /\ timer' <= Interval
        /\ phase' \in {phase, "plan"} /\ (phase = "idle" \/ phase' = phase)
        /\ queue' = queue \/ \E m : IsPost(m) /\ queue' = Append(queue, m)
        /\ CarriedOK(phase', queue', replies')
    BY <1>1, <1>3, UpdatesFacts, StartKeeps
  <2>2. FlagsOK'
    BY <1>1, <2>1, UpdatesFacts DEF FlagsOK
  <2>3. NeverIdle'
    BY <2>1, WakesUp DEF in_flight
  <2> QED
    BY <1>1, <2>1, <2>2, <2>3, QuietDisk, CoordinatorKeeps
<1> QED
  BY <1>2, <1>3 DEF TimerFires

LEMMA CheckKeeps ==
  ASSUME UpdatesInv, NEW c \in Checks, CheckNow(c)
  PROVE  UpdatesInv'
<1>1. /\ UNCHANGED <<storeVars, alive, catalogActive, mutation, replies>>
      /\ checks' = [checks EXCEPT ![c] = CheckJoins]
  BY DEF CheckNow
<1>2. DiskInv'
  BY QuietDisk
<1>3. /\ DOMAIN checks' = Checks
      /\ \A d \in Checks : checks'[d] = "waiting" =>
            checks[d] = "waiting" \/ (d = c /\ mutation = None)
  BY <1>1, UpdatesFacts DEF FlagsOK, CheckJoins
<1>4. CASE mutation # None \/ in_flight
  <2>1. UNCHANGED <<timer, due, phase, queue>>
    BY <1>4 DEF CheckNow
  <2>2. FlagsOK'
    BY <1>1, <1>3, <1>4, <2>1, UpdatesFacts DEF FlagsOK, in_flight
  <2>3. NeverIdle'
    BY <1>1, <2>1, StaysAwake
  <2> QED
    BY <1>1, <1>2, <2>1, <2>2, <2>3, UpdatesFacts, CoordinatorKeeps
<1>5. CASE ~(mutation # None \/ in_flight)
  <2>1. timer' = None /\ StartUpdate /\ phase = "idle"
    BY <1>5 DEF CheckNow, in_flight
  <2>2. /\ phase' = "plan" /\ due' = 0 /\ in_flight'
        /\ \E m : IsPost(m) /\ queue' = Append(queue, m)
        /\ CarriedOK(phase', queue', replies')
    BY <1>1, <2>1, UpdateStarts
  <2>3. FlagsOK'
    BY <1>1, <1>3, <2>1, <2>2, UpdatesFacts DEF FlagsOK
  <2>4. NeverIdle'
    BY <2>2, WakesUp
  <2>5. due' \in Times /\ timer' \in 0..Interval \cup {None}
    BY <2>1, <2>2, TimesAre
  <2> QED
    BY <1>1, <1>2, <2>2, <2>3, <2>4, <2>5, CoordinatorKeeps
<1> QED
  BY <1>4, <1>5

LEMMA MutationKeeps ==
  ASSUME UpdatesInv, NEW n \in Mutations, BeginMutation(n)
  PROVE  UpdatesInv'
<1>1. /\ UNCHANGED <<storeVars, alive, due, catalogActive, checks, replies>>
      /\ phase = "idle" /\ timer' = None /\ mutation' = n
  BY DEF BeginMutation, in_flight
<1>2. n # None
  BY MutationAssumption
<1>3. DiskInv'
  BY QuietDisk
<1>4. FlagsOK' \/ phase' \notin {"fetch", "save"}
  BY <1>1, <1>2, UpdatesFacts DEF FlagsOK
<1>5. due' \in Times /\ timer' \in 0..Interval \cup {None}
  BY <1>1, UpdatesFacts
<1>6. CASE n.kind = "add"
  <2>1. phase' = "fetch" /\ queue' = queue
    BY <1>6 DEF BeginMutation
  <2>2. CarriedOK(phase', queue', replies')
    BY <1>1, <2>1, UpdatesFacts, PhaseKeeps, WorkersPhases
  <2>3. NeverIdle'
    BY <2>1, WakesUp DEF in_flight
  <2> QED
    BY <1>1, <1>3, <1>4, <1>5, <2>1, <2>2, <2>3, CoordinatorKeeps
<1>7. CASE n.kind # "add"
  <2> DEFINE m == [kind |-> "change", live |-> TRUE, change |-> n]
  <2>1. /\ phase' = "save" /\ queue' = Append(queue, m) /\ IsPost(m)
        /\ m.kind = "change" /\ m.live /\ {"kind", "live"} \subseteq DOMAIN m
    BY <1>7 DEF BeginMutation, Post, IsPost, TaskOK
  <2> HIDE DEF m
  <2>2. CarriedOK(phase', queue', replies')
    BY <1>1, <2>1, UpdatesFacts, FlightPosts, WorkersPhases
  <2>3. NeverIdle'
    BY <2>1, WakesUp DEF in_flight
  <2> QED
    BY <1>1, <1>3, <1>4, <1>5, <2>1, <2>2, <2>3, CoordinatorKeeps
<1> QED
  BY <1>6, <1>7

\* The update task is posted.
LEMMA InstallPosts ==
  ASSUME UpdatesInv, phase \notin DOMAIN WorkerPhase, NEW update, NEW failed,
         InstallUpdates(update, failed), UNCHANGED replies
  PROVE  /\ phase' = "install"
         /\ \E m : IsPost(m) /\ queue' = Append(queue, m)
         /\ CarriedOK(phase', queue', replies')
<1> DEFINE m == [kind |-> "update", live |-> TRUE, originals |-> originals,
                 downloads |-> downloads, catalog |-> update,
                 checked |-> IF failed THEN 0 ELSE Interval]
<1>1. phase' = "install" /\ queue' = Append(queue, m)
  BY DEF InstallUpdates, Post
<1>2. m.checked \in Times
  BY UpdatesFacts
<1>3. /\ IsPost(m) /\ m.kind = "update" /\ m.live
      /\ {"kind", "live"} \subseteq DOMAIN m
  BY <1>2 DEF IsPost, TaskOK
<1> HIDE DEF m
<1>4. CarriedOK("install", Append(queue, m), replies)
  BY <1>3, UpdatesFacts, WorkersPhases, FlightPosts
<1> QED
  BY <1>1, <1>3, <1>4

LEMMA DownloadedKeeps ==
  ASSUME UpdatesInv, DiskInv', UNCHANGED storeVars, NEW text, Downloaded(text)
  PROVE  UpdatesInv'
<1>1. /\ UNCHANGED <<alive, timer, due, catalogActive, mutation, checks, queue, replies>>
      /\ phase \in {"easylist", "easyprivacy"}
      /\ phase' \in {"easyprivacy", "catalog", "subscriptions"}
  BY DEF Downloaded, Download
<1>2. CarriedOK(phase', queue', replies')
  BY <1>1, UpdatesFacts, PhaseKeeps, WorkersPhases
<1>3. FlagsOK'
  BY <1>1, UpdatesFacts, FlagsKeep
<1>4. NeverIdle'
  BY <1>1, WakesUp DEF in_flight
<1> QED
  BY <1>1, <1>2, <1>3, <1>4, UpdatesFacts, CoordinatorKeeps

LEMMA CatalogKeeps ==
  ASSUME UpdatesInv, DiskInv', UNCHANGED storeVars, NEW text, CatalogDownloaded(text)
  PROVE  UpdatesInv'
<1>1. /\ UNCHANGED <<alive, timer, due, catalogActive, mutation, checks, replies>>
      /\ phase = "catalog"
  BY DEF CatalogDownloaded
<1>2. /\ phase' \in {"install", "parse"}
      /\ \E m : IsPost(m) /\ queue' = Append(queue, m)
      /\ CarriedOK(phase', queue', replies')
  <2>1. CASE InstallUpdates(None, TRUE)
    BY <1>1, <2>1, InstallPosts, WorkersPhases
  <2>2. CASE phase' = "parse" /\ Post([kind |-> "parse", live |-> TRUE, text |-> text])
    <3> DEFINE m == [kind |-> "parse", live |-> TRUE, text |-> text]
    <3>1. /\ queue' = Append(queue, m) /\ IsPost(m) /\ m.kind = "parse" /\ m.live
          /\ {"kind", "live"} \subseteq DOMAIN m
      BY <2>2 DEF Post, IsPost, TaskOK
    <3> HIDE DEF m
    <3>2. CarriedOK("parse", Append(queue, m), replies)
      BY <1>1, <3>1, UpdatesFacts, WorkersPhases, FlightPosts
    <3> QED
      BY <1>1, <2>2, <3>1, <3>2
  <2> QED
    BY <2>1, <2>2 DEF CatalogDownloaded
<1>3. FlagsOK'
  BY <1>1, <1>2, UpdatesFacts, FlagsKeep
<1>4. NeverIdle'
  BY <1>2, WakesUp DEF in_flight
<1> QED
  BY <1>1, <1>2, <1>3, <1>4, UpdatesFacts, CoordinatorKeeps

\* A download of a subscription ends, or one of the catalog's lists.
LEMMA SubscriptionKeeps ==
  ASSUME UpdatesInv, DiskInv', UNCHANGED <<storeVars, alive, due, checks, replies>>,
         phase = "subscriptions", NEW u, NEW text, SubscriptionReceived(u, text),
         UNCHANGED <<timer, task, mutation, told>>
  PROVE  UpdatesInv'
<1>1. /\ UNCHANGED <<catalogActive, queue>>
      /\ phase' \in {"catalog", "subscriptions"}
  BY DEF SubscriptionReceived, Download
<1>2. CarriedOK(phase', queue', replies')
  BY <1>1, UpdatesFacts, PhaseKeeps, WorkersPhases
<1>3. FlagsOK'
  BY <1>1, UpdatesFacts, FlagsKeep
<1>4. NeverIdle'
  BY <1>1, WakesUp DEF in_flight
<1> QED
  BY <1>1, <1>2, <1>3, <1>4, UpdatesFacts, CoordinatorKeeps

LEMMA SourceKeeps ==
  ASSUME UpdatesInv, DiskInv', UNCHANGED <<storeVars, alive, due, checks, replies>>,
         phase = "sources", NEW text, CatalogSourceDownloaded(text),
         UNCHANGED <<timer, task, mutation, told>>
  PROVE  UpdatesInv'
<1>1. catalogActive' = FALSE /\ \E update, failed : InstallUpdates(update, failed)
  BY DEF CatalogSourceDownloaded
<1>2. /\ phase' = "install"
      /\ \E m : IsPost(m) /\ queue' = Append(queue, m)
      /\ CarriedOK(phase', queue', replies')
  BY <1>1, InstallPosts, WorkersPhases
<1>3. FlagsOK'
  BY <1>1, <1>2, UpdatesFacts DEF FlagsOK
<1>4. NeverIdle'
  BY <1>2, WakesUp DEF in_flight
<1> QED
  BY <1>1, <1>2, <1>3, <1>4, UpdatesFacts, CoordinatorKeeps

\* A change of a subscription is over.
LEMMA ChangeEnds ==
  ASSUME UpdatesInv, DiskInv', UNCHANGED <<storeVars, alive, due, checks, catalogActive, queue>>,
         phase \in {"fetch", "save"}, NEW error, MutationCompleted(error),
         replies' = replies \/ (replies # <<>> /\ replies' = Tail(replies)),
         CarriedOK("idle", queue', replies')
  PROVE  UpdatesInv'
<1>1. phase' = "idle" /\ mutation' = None /\ timer' = 0
  BY DEF MutationCompleted, Rearm
<1>2. FlagsOK'
  BY <1>1, UpdatesFacts DEF FlagsOK
<1>3. timer' \in 0..Interval \cup {None} /\ timer' # None /\ timer' <= Interval
  BY <1>1, UpdatesFacts
<1>4. NeverIdle'
  BY <1>3, WakesUp
<1> QED
  BY <1>1, <1>2, <1>3, <1>4, UpdatesFacts, CoordinatorKeeps

LEMMA FetchKeeps ==
  ASSUME UpdatesInv, DiskInv', UNCHANGED <<storeVars, alive, due, checks, replies>>,
         phase = "fetch", NEW text, SubscriptionDownloaded(text),
         UNCHANGED <<originals, todo, downloads, catalog, catalogFailed, catalogActive>>
  PROVE  UpdatesInv'
<1>1. CASE MutationCompleted("download-failed") /\ UNCHANGED queue
  <2>1. CarriedOK("idle", queue', replies')
    BY <1>1, UpdatesFacts, WorkersPhases DEF CarriedOK
  <2> QED
    BY <1>1, <2>1, ChangeEnds
<1>2. CASE /\ phase' = "save"
           /\ Post([kind |-> "add", live |-> TRUE, url |-> mutation.url, body |-> text])
           /\ UNCHANGED <<timer, task, mutation, told>>
  <2> DEFINE m == [kind |-> "add", live |-> TRUE, url |-> mutation.url, body |-> text]
  <2>1. /\ queue' = Append(queue, m) /\ IsPost(m) /\ m.kind = "add" /\ m.live
        /\ {"kind", "live"} \subseteq DOMAIN m
    BY <1>2 DEF Post, IsPost, TaskOK
  <2> HIDE DEF m
  <2>2. CarriedOK("save", Append(queue, m), replies)
    BY <2>1, UpdatesFacts, WorkersPhases, FlightPosts
  <2>3. CarriedOK(phase', queue', replies')
    BY <1>2, <2>1, <2>2
  <2>4. FlagsOK'
    BY <1>2, UpdatesFacts DEF FlagsOK
  <2>5. NeverIdle'
    BY <1>2, WakesUp DEF in_flight
  <2>6. due' \in Times /\ timer' \in 0..Interval \cup {None}
    BY <1>2, UpdatesFacts
  <2> QED
    BY <1>2, <2>1, <2>3, <2>4, <2>5, <2>6, CoordinatorKeeps
<1> QED
  BY <1>1, <1>2 DEF SubscriptionDownloaded

LEMMA NetworkKeeps ==
  ASSUME UpdatesInv, Network
  PROVE  UpdatesInv'
<1>1. DiskInv' /\ UNCHANGED storeVars
  BY QuietDisk
<1>2. PICK text \in Texts \cup {None} :
        Downloaded(text) \/ CatalogDownloaded(text) \/ LoaderReplies(text)
  BY DEF Network
<1>3. CASE Downloaded(text)
  BY <1>1, <1>3, DownloadedKeeps
<1>4. CASE CatalogDownloaded(text)
  BY <1>1, <1>4, CatalogKeeps
<1>5. CASE LoaderReplies(text)
  <2>1. Received(text) /\ UNCHANGED <<storeVars, alive, due, checks, replies>>
    BY <1>5 DEF LoaderReplies
  <2>2. CASE /\ phase = "subscriptions"
             /\ \E u \in todo : SubscriptionReceived(u, text)
             /\ UNCHANGED <<timer, task, mutation, told>>
    BY <1>1, <2>1, <2>2, SubscriptionKeeps
  <2>3. CASE /\ phase = "sources"
             /\ CatalogSourceDownloaded(text)
             /\ UNCHANGED <<timer, task, mutation, told>>
    BY <1>1, <2>1, <2>3, SourceKeeps
  <2>4. CASE /\ phase = "fetch"
             /\ SubscriptionDownloaded(text)
             /\ UNCHANGED <<originals, todo, downloads, catalog, catalogFailed,
                            catalogActive>>
    BY <1>1, <2>1, <2>4, FetchKeeps
  <2> QED
    BY <2>1, <2>2, <2>3, <2>4 DEF Received
<1> QED
  BY <1>2, <1>3, <1>4, <1>5

\* Whose load was redirected is told from the flags.
LEMMA RedirectKeeps ==
  ASSUME UpdatesInv, RedirectRefused
  PROVE  UpdatesInv'
<1>1. DiskInv' /\ UNCHANGED storeVars
  BY QuietDisk
<1>2. /\ UNCHANGED <<alive, due, checks, replies>>
      /\ phase \in {"subscriptions", "sources", "fetch"}
  BY DEF RedirectRefused
<1>3. CASE /\ catalogActive
           /\ CatalogSourceDownloaded(None)
           /\ UNCHANGED <<timer, task, mutation, told>>
  <2>1. phase = "sources"
    BY <1>3, UpdatesFacts DEF FlagsOK
  <2> QED
    BY <1>1, <1>2, <1>3, <2>1, SourceKeeps
<1>4. CASE /\ ~catalogActive /\ mutation # None
           /\ MutationCompleted("download-failed")
           /\ UNCHANGED <<originals, todo, downloads, catalog, catalogFailed,
                          catalogActive, queue>>
  <2>1. phase = "fetch"
    BY <1>2, <1>4, UpdatesFacts DEF FlagsOK
  <2>2. CarriedOK("idle", queue', replies')
    BY <1>2, <1>4, <2>1, UpdatesFacts, WorkersPhases DEF CarriedOK
  <2> QED
    BY <1>1, <1>2, <1>4, <2>1, <2>2, ChangeEnds
<1>5. CASE /\ ~catalogActive /\ mutation = None
           /\ \E u \in todo : SubscriptionReceived(u, None)
           /\ UNCHANGED <<timer, task, mutation, told>>
  <2>1. phase = "subscriptions"
    BY <1>2, <1>5, UpdatesFacts DEF FlagsOK
  <2> QED
    BY <1>1, <1>2, <1>5, <2>1, SubscriptionKeeps
<1> QED
  BY <1>3, <1>4, <1>5 DEF RedirectRefused

LEMMA DroppedKeeps ==
  ASSUME UpdatesInv, ReplyDropped
  PROVE  UpdatesInv'
<1>1. /\ replies # <<>> /\ ~Head(replies).live /\ replies' = Tail(replies)
      /\ UNCHANGED <<storeVars, uiVars, checks, queue>>
  BY DEF ReplyDropped
<1>2. /\ UNCHANGED <<alive, timer, due, phase, catalogActive, mutation>>
      /\ DiskInv'
  BY <1>1, QuietDisk DEF uiVars, Replies
<1>3. CarriedOK(phase', queue', replies')
  BY <1>1, <1>2, UpdatesFacts, ReplyPasses
<1>4. FlagsOK'
  BY <1>1, <1>2, UpdatesFacts DEF FlagsOK
<1>5. NeverIdle'
  BY <1>1, <1>2, StaysAwake
<1> QED
  BY <1>1, <1>2, <1>3, <1>4, <1>5, UpdatesFacts, CoordinatorKeeps

LEMMA RefreshedKeeps ==
  ASSUME UpdatesInv, Refreshed
  PROVE  UpdatesInv'
<1>1. /\ replies # <<>> /\ Head(replies).kind = "refresh" /\ replies' = Tail(replies)
      /\ UNCHANGED <<storeVars, alive, catalogActive, mutation, checks>>
      /\ Start(Head(replies).due, timer)
  BY DEF Refreshed, NextReply
<1>2. DiskInv'
  BY QuietDisk DEF Replies
<1>3. Head(replies).due \in Times
  <2>1. 1 \in DOMAIN replies /\ Head(replies) = replies[1]
    BY <1>1, UpdatesFacts, QueueEnds
  <2> QED
    BY <1>1, <2>1, UpdatesFacts DEF TimesOK, ReplyOK
<1>4. /\ due' \in Times /\ timer' \in 0..Interval \cup {None}
      /\ phase = "idle" \/ (phase' = phase /\ queue' = queue)
      /\ phase' = "idle" => timer' # None /\ timer' <= Interval
      /\ phase' \in {phase, "plan"}
      /\ queue' = queue \/ \E m : IsPost(m) /\ queue' = Append(queue, m)
      /\ CarriedOK(phase', queue', replies)
  BY <1>1, <1>3, UpdatesFacts, StartKeeps
<1>5. CarriedOK(phase', queue', replies')
  BY <1>1, <1>4, UpdatesFacts, ReplyPasses
<1>6. FlagsOK'
  BY <1>1, <1>4, UpdatesFacts DEF FlagsOK
<1>7. NeverIdle'
  BY <1>4, WakesUp DEF in_flight
<1> QED
  BY <1>1, <1>2, <1>4, <1>5, <1>6, <1>7, CoordinatorKeeps

\* The reply of a flight that waited for the worker.
LEMMA FlightsReply ==
  ASSUME UpdatesInv, NEW kind, kind # "refresh", NextReply(kind)
  PROVE  /\ phase \in DOMAIN WorkerPhase /\ kind \in WorkerPhase[phase]
         /\ replies # <<>> /\ replies' = Tail(replies)
         /\ \A n : n \notin DOMAIN WorkerPhase => CarriedOK(n, queue, Tail(replies))
BY UpdatesFacts, ReplyTaken DEF NextReply

LEMMA PlanKeeps ==
  ASSUME UpdatesInv, PlanLoaded
  PROVE  UpdatesInv'
<1>1. /\ NextReply("plan") /\ phase' = "easylist"
      /\ UNCHANGED <<storeVars, alive, timer, due, catalogActive, mutation, checks, queue>>
  BY DEF PlanLoaded
<1>2. DiskInv'
  BY QuietDisk DEF Replies
<1>3. /\ phase = "plan" /\ replies # <<>> /\ replies' = Tail(replies)
      /\ CarriedOK(phase', queue', replies')
  BY <1>1, FlightsReply, WorkersPhases
<1>4. FlagsOK'
  BY <1>1, <1>3, UpdatesFacts, FlagsKeep
<1>5. NeverIdle'
  BY <1>1, WakesUp DEF in_flight
<1> QED
  BY <1>1, <1>2, <1>3, <1>4, <1>5, UpdatesFacts, CoordinatorKeeps

LEMMA CatalogPlanKeeps ==
  ASSUME UpdatesInv, CatalogPlanLoaded
  PROVE  UpdatesInv'
<1>1. /\ NextReply("parse")
      /\ UNCHANGED <<storeVars, alive, timer, due, mutation, checks>>
  BY DEF CatalogPlanLoaded
<1>2. DiskInv'
  BY QuietDisk DEF Replies
<1>3. /\ phase = "parse" /\ replies # <<>> /\ replies' = Tail(replies)
      /\ \A n : n \notin DOMAIN WorkerPhase => CarriedOK(n, queue, replies')
  BY <1>1, FlightsReply, WorkersPhases
<1>4. CASE InstallUpdates(None, TRUE) /\ UNCHANGED catalogActive
  <2> DEFINE m == [kind |-> "update", live |-> TRUE, originals |-> originals,
                   downloads |-> downloads, catalog |-> None, checked |-> 0]
  <2>1. /\ phase' = "install" /\ queue' = Append(queue, m) /\ IsPost(m)
        /\ m.kind = "update" /\ m.live /\ {"kind", "live"} \subseteq DOMAIN m
    BY <1>4, TimesAre DEF InstallUpdates, Post, IsPost, TaskOK
  <2> HIDE DEF m
  <2>2. CarriedOK("idle", queue, replies')
    BY <1>3, WorkersPhases
  <2>3. CarriedOK("install", Append(queue, m), replies')
    BY <2>1, <2>2, UpdatesFacts, WorkersPhases, FlightPosts
  <2>4. FlagsOK'
    BY <1>1, <1>3, <1>4, <2>1, UpdatesFacts, FlagsKeep
  <2>5. NeverIdle'
    BY <2>1, WakesUp DEF in_flight
  <2> QED
    BY <1>1, <1>2, <1>3, <2>1, <2>3, <2>4, <2>5, UpdatesFacts, CoordinatorKeeps
<1>5. CASE catalogActive' = TRUE /\ phase' = "sources" /\ UNCHANGED queue
  <2>1. CarriedOK(phase', queue', replies')
    BY <1>3, <1>5, WorkersPhases
  <2>2. FlagsOK'
    BY <1>1, <1>3, <1>5, UpdatesFacts DEF FlagsOK
  <2>3. NeverIdle'
    BY <1>5, WakesUp DEF in_flight
  <2> QED
    BY <1>1, <1>2, <1>3, <1>5, <2>1, <2>2, <2>3, UpdatesFacts, CoordinatorKeeps
<1> QED
  BY <1>4, <1>5 DEF CatalogPlanLoaded

LEMMA InstalledKeeps ==
  ASSUME UpdatesInv, UpdatesInstalled
  PROVE  UpdatesInv'
<1>1. /\ NextReply("update")
      /\ UNCHANGED <<storeVars, alive, mutation, queue>>
      /\ phase' = "idle" /\ catalogActive' = FALSE
      /\ due' \in {Interval, due} /\ timer' \in {Interval, Retry}
      /\ DOMAIN checks' = Checks /\ \A c \in Checks : checks'[c] # "waiting"
  BY DEF UpdatesInstalled, Completed
<1>2. DiskInv'
  BY QuietDisk DEF Replies
<1>3. /\ phase = "install" /\ replies # <<>> /\ replies' = Tail(replies)
      /\ CarriedOK(phase', queue', replies')
  BY <1>1, FlightsReply, WorkersPhases
<1>4. FlagsOK'
  BY <1>1, <1>3, UpdatesFacts DEF FlagsOK
<1>5. /\ due' \in Times /\ timer' \in 0..Interval \cup {None}
      /\ timer' # None /\ timer' <= Interval
  BY <1>1, UpdatesFacts
<1>6. NeverIdle'
  BY <1>5, WakesUp
<1> QED
  BY <1>1, <1>2, <1>3, <1>4, <1>5, <1>6, CoordinatorKeeps

LEMMA SavedKeeps ==
  ASSUME UpdatesInv, MutationSaved
  PROVE  UpdatesInv'
<1>1. /\ NextReply("mutation") /\ MutationCompleted(Head(replies).error)
      /\ UNCHANGED <<storeVars, alive, due, checks, catalogActive, queue>>
  BY DEF MutationSaved
<1>2. DiskInv'
  BY QuietDisk DEF Replies
<1>3. /\ phase = "save" /\ replies # <<>> /\ replies' = Tail(replies)
      /\ CarriedOK("idle", queue', replies')
  BY <1>1, FlightsReply, WorkersPhases
<1> QED
  BY <1>1, <1>2, <1>3, ChangeEnds

LEMMA RepliesKeep ==
  ASSUME UpdatesInv, Replies
  PROVE  UpdatesInv'
BY DroppedKeeps, RefreshedKeeps, PlanKeeps, CatalogPlanKeeps, InstalledKeeps, SavedKeeps
   DEF Replies

\* The coordinator is gone, with its profile or with the process.
LEMMA GoneFlags ==
  ASSUME UpdatesInv, Idle, NEW answer, answer # "waiting", checks' = Abandoned(answer)
  PROVE  /\ phase' = "idle" /\ due' \in Times /\ timer' \in 0..Interval \cup {None}
         /\ FlagsOK' /\ NeverIdle'
<1>1. /\ alive' = FALSE /\ timer' = None /\ phase' = "idle" /\ mutation' = None
      /\ catalogActive' = FALSE /\ due' = 0
  BY DEF Idle
<1>2. DOMAIN checks' = Checks /\ \A c \in Checks : checks'[c] # "waiting"
  BY DEF Abandoned
<1> QED
  BY <1>1, <1>2, TimesAre DEF FlagsOK, NeverIdle

LEMMA DestroyedKeeps ==
  ASSUME UpdatesInv, ProfileDestroyed
  PROVE  UpdatesInv'
<1>1. /\ UNCHANGED storeVars /\ UNCHANGED <<state, backup, job>> /\ DiskInv'
      /\ queue' = Orphaned(queue) /\ replies' = Orphaned(replies)
  BY QuietDisk DEF ProfileDestroyed, storeVars, files
<1>2. /\ phase' = "idle" /\ due' \in Times /\ timer' \in 0..Interval \cup {None}
      /\ FlagsOK' /\ NeverIdle'
  BY GoneFlags DEF ProfileDestroyed
<1>3. /\ IsQueue(queue') /\ IsQueue(replies') /\ Idles(queue') /\ Idles(replies')
      /\ queue # <<>> => queue' # <<>> /\ Head(queue').kind = Head(queue).kind
      /\ DOMAIN queue' = DOMAIN queue /\ DOMAIN replies' = DOMAIN replies
      /\ \A i \in DOMAIN queue : /\ queue'[i].kind = queue[i].kind
                                 /\ DOMAIN queue'[i] = DOMAIN queue[i]
                                 /\ \A f \in DOMAIN queue[i] :
                                       f # "live" => queue'[i][f] = queue[i][f]
      /\ \A i \in DOMAIN replies : /\ replies'[i].kind = replies[i].kind
                                   /\ DOMAIN replies'[i] = DOMAIN replies[i]
                                   /\ \A f \in DOMAIN replies[i] :
                                         f # "live" => replies'[i][f] = replies[i][f]
  BY <1>1, UpdatesFacts, QueueOrphaned
<1>4. CarriedOK(phase', queue', replies')
  BY <1>2, <1>3, WorkersPhases DEF CarriedOK
<1>5. JobIsHeads'
  BY <1>1, <1>3, UpdatesFacts DEF JobIsHeads
<1>6. TimesOK'
  <2>1. ASSUME NEW i \in DOMAIN queue' PROVE TaskOK(queue'[i])
    <3>1. i \in DOMAIN queue /\ TaskOK(queue[i])
      BY <1>3, UpdatesFacts DEF TimesOK
    <3> QED
      BY <1>3, <3>1 DEF TaskOK
  <2>2. ASSUME NEW i \in DOMAIN replies' PROVE ReplyOK(replies'[i])
    <3>1. i \in DOMAIN replies /\ ReplyOK(replies[i])
      BY <1>3, UpdatesFacts DEF TimesOK
    <3> QED
      BY <1>3, <3>1 DEF ReplyOK
  <2> QED
    BY <1>1, <1>2, <2>1, <2>2, UpdatesFacts DEF TimesOK
<1> QED
  BY <1>1, <1>2, <1>3, <1>4, <1>5, <1>6 DEF UpdatesInv

\* What is left to show of a step that neither takes nor posts a message, and
\* leaves the coordinator alone.
LEMMA QuietCoordinator ==
  ASSUME UpdatesInv, DiskInv', UNCHANGED <<uiVars, checks, queue, replies>>, JobIsHeads',
         job' # None => job'.checked \in Times,
         state' # None => IsTime(state'.checked),
         backup' # None => IsTime(backup'.checked)
  PROVE  UpdatesInv'
<1>1. UNCHANGED <<alive, timer, due, phase, catalogActive, mutation, checks, queue, replies>>
  BY DEF uiVars
<1>2. CarriedOK(phase', queue', replies') /\ FlagsOK'
  BY <1>1, UpdatesFacts DEF FlagsOK
<1>3. TimesOK'
  BY <1>1, UpdatesFacts DEF TimesOK
<1>4. NeverIdle'
  BY <1>1, UpdatesFacts DEF NeverIdle, Has, in_flight
<1> QED
  BY <1>1, <1>2, <1>3, <1>4, UpdatesFacts DEF UpdatesInv

\* The worker answers the task it is at.
LEMMA WorkerAnswers ==
  ASSUME UpdatesInv, DiskInv', UNCHANGED <<uiVars, checks, files>>, job' = None,
         queue # <<>>, NEW m, Reply(m), {"kind", "live"} \subseteq DOMAIN m, ReplyOK(m),
         m.live = Head(queue).live,
         \/ m.kind = Head(queue).kind
         \/ m.kind = "mutation" /\ Head(queue).kind \in {"add", "change"}
  PROVE  UpdatesInv'
<1>1. /\ UNCHANGED <<alive, timer, due, phase, catalogActive, mutation, checks, state, backup>>
      /\ queue' = Tail(queue) /\ replies' = Append(replies, m)
  BY DEF uiVars, files, Reply
<1>2. CarriedOK(phase', queue', replies')
  BY <1>1, UpdatesFacts, WorkerPasses
<1>3. FlagsOK'
  BY <1>1, UpdatesFacts DEF FlagsOK
<1>4. IsQueue(queue') /\ \A i \in DOMAIN queue' : TaskOK(queue'[i])
  <2>1. /\ IsQueue(queue')
        /\ \A i \in DOMAIN queue' : i + 1 \in DOMAIN queue /\ queue'[i] = queue[i + 1]
    BY <1>1, UpdatesFacts, QueueEnds
  <2> QED
    BY <2>1, UpdatesFacts DEF TimesOK
<1>5. IsQueue(replies') /\ \A i \in DOMAIN replies' : ReplyOK(replies'[i])
  <2>1. /\ IsQueue(replies') /\ DOMAIN replies' = DOMAIN replies \cup {Len(replies) + 1}
        /\ \A i \in DOMAIN replies : replies'[i] = replies[i]
        /\ replies'[Len(replies) + 1] = m
    <3>1. IsQueue(replies) /\ replies' = Append(replies, m)
      BY <1>1, UpdatesFacts
    <3> DEFINE more == Append(replies, m)
    <3>2. /\ IsQueue(more) /\ DOMAIN more = DOMAIN replies \cup {Len(replies) + 1}
          /\ \A i \in DOMAIN replies : more[i] = replies[i]
          /\ more[Len(replies) + 1] = m
      BY <3>1, QueueGrows
    <3> HIDE DEF more
    <3>3. replies' = more
      BY <3>1 DEF more
    <3> QED
      BY <3>2, <3>3
  <2> QED
    BY <2>1, UpdatesFacts DEF TimesOK
<1>6. TimesOK' /\ JobIsHeads'
  BY <1>1, <1>4, <1>5, UpdatesFacts DEF TimesOK, JobIsHeads
<1>7. Has(queue, "refresh") => Has(queue', "refresh") \/ Has(replies', "refresh")
  <2>1. CASE Head(queue).live /\ Head(queue).kind = "refresh"
    BY <1>1, <2>1, UpdatesFacts, HasGrows
  <2>2. CASE ~(Head(queue).live /\ Head(queue).kind = "refresh")
    BY <1>1, <2>2, UpdatesFacts, HasPasses
  <2> QED
    BY <2>1, <2>2
<1>8. Has(replies, "refresh") => Has(replies', "refresh")
  BY <1>1, UpdatesFacts, HasGrows
<1>9. NeverIdle'
  BY <1>1, <1>7, <1>8, UpdatesFacts DEF NeverIdle, in_flight
<1> QED
  BY <1>2, <1>3, <1>4, <1>5, <1>6, <1>9 DEF UpdatesInv

\* The times the worker reads from disk.
LEMMA TimesRead ==
  ASSUME UpdatesInv
  PROVE  CheckedTimes \subseteq Times
<1> DEFINE g == ReadBaselineListStore
           p == IF ReadState(state) # None THEN state ELSE backup
<1>1. ReadState(None) = None
  BY DEF ReadState
<1>2. g # None => p # None /\ IsTime(p.checked)
  BY <1>1, UpdatesFacts DEF ReadBaselineListStore, TimesOK
<1>3. /\ CheckedTimes = IF g = None THEN {0}
                         ELSE IF g = p.current /\ p.checked # None THEN {p.checked}
                         ELSE 0..Interval
  BY DEF CheckedTimes
<1> HIDE DEF g, p
<1> QED
  BY <1>2, <1>3, UpdatesFacts DEF IsTime

LEMMA WorkerReadsKeeps ==
  ASSUME UpdatesInv, WorkerReads
  PROVE  UpdatesInv'
<1>1. /\ UNCHANGED storeVars /\ UNCHANGED <<uiVars, checks, files>> /\ job' = None
  BY DEF WorkerReads, storeVars
<1>2. DiskInv'
  BY QuietDisk
<1>3. CASE Working("refresh")
  <2>1. PICK t \in CheckedTimes :
          Reply([kind |-> "refresh", live |-> Head(queue).live, due |-> t])
    BY <1>3 DEF WorkerReads, Working
  <2> DEFINE m == [kind |-> "refresh", live |-> Head(queue).live, due |-> t]
  <2>2. t \in Times
    BY TimesRead
  <2>3. /\ {"kind", "live"} \subseteq DOMAIN m /\ ReplyOK(m)
        /\ m.live = Head(queue).live /\ m.kind = "refresh" /\ Reply(m)
    BY <2>1, <2>2 DEF ReplyOK
  <2> HIDE DEF m
  <2> QED
    BY <1>1, <1>2, <1>3, <2>3, WorkerAnswers DEF Working
<1>4. CASE Working("plan")
  <2> DEFINE E == {u \in DOMAIN ReadFilterListSet.subs : ReadFilterListSet.subs[u].enabled}
             m == [kind |-> "plan", live |-> Head(queue).live, enabled |-> E]
  <2>1. Reply(m)
    BY <1>4 DEF WorkerReads, Working
  <2> HIDE DEF E
  <2>2. /\ {"kind", "live"} \subseteq DOMAIN m /\ ReplyOK(m)
        /\ m.live = Head(queue).live /\ m.kind = "plan"
    BY DEF ReplyOK
  <2> HIDE DEF m
  <2> QED
    BY <1>1, <1>2, <1>4, <2>1, <2>2, WorkerAnswers DEF Working
<1>5. CASE Working("parse")
  <2> DEFINE b == Head(queue).text \in GoodTexts
             m == [kind |-> "parse", live |-> Head(queue).live, ok |-> b]
  <2>1. Reply(m)
    BY <1>5 DEF WorkerReads, Working
  <2> HIDE DEF b
  <2>2. /\ {"kind", "live"} \subseteq DOMAIN m /\ ReplyOK(m)
        /\ m.live = Head(queue).live /\ m.kind = "parse"
    BY DEF ReplyOK
  <2> HIDE DEF m
  <2> QED
    BY <1>1, <1>2, <1>5, <2>1, <2>2, WorkerAnswers DEF Working
<1> QED
  BY <1>3, <1>4, <1>5 DEF WorkerReads

\* The replies of a change and of an update.
LEMMA ChangeAnswers ==
  ASSUME UpdatesInv, DiskInv', UNCHANGED <<uiVars, checks, files>>, job' = None,
         queue # <<>>, Head(queue).kind \in {"add", "change"},
         NEW error, MutationReply(error)
  PROVE  UpdatesInv'
<1> DEFINE m == [kind |-> "mutation", live |-> Head(queue).live, error |-> error]
<1>1. /\ {"kind", "live"} \subseteq DOMAIN m /\ ReplyOK(m)
      /\ m.live = Head(queue).live /\ m.kind = "mutation" /\ Reply(m)
  BY DEF ReplyOK, MutationReply
<1> HIDE DEF m
<1> QED
  BY <1>1, WorkerAnswers

LEMMA UpdateAnswers ==
  ASSUME UpdatesInv, DiskInv', UNCHANGED <<uiVars, checks, files>>, job' = None,
         Working("update"), NEW ok, UpdateReply(ok)
  PROVE  UpdatesInv'
<1> DEFINE m == [kind |-> "update", live |-> Head(queue).live, ok |-> ok]
<1>1. /\ {"kind", "live"} \subseteq DOMAIN m /\ ReplyOK(m)
      /\ m.live = Head(queue).live /\ m.kind = "update" /\ Reply(m)
  BY DEF ReplyOK, UpdateReply
<1> HIDE DEF m
<1> QED
  BY <1>1, WorkerAnswers DEF Working

LEMMA WorkerBeginsKeeps ==
  ASSUME UpdatesInv, WorkerBegins
  PROVE  UpdatesInv'
<1>1. job = None /\ UNCHANGED <<uiVars, checks>> /\ DiskInv'
  BY UpdatesFacts, WorkerKeeps DEF WorkerBegins
<1>2. ASSUME NEW g, NEW t \in Times, NEW w, BeginWrite(g, t, w), UNCHANGED <<queue, replies>>,
             queue # <<>>, Head(queue).kind \in {"update", "add", "change"}
      PROVE  UpdatesInv'
  <2>1. /\ job'.checked = t /\ UNCHANGED <<state, backup>>
    BY <1>2 DEF BeginWrite, NewJob, files
  <2>2. JobIsHeads'
    BY <1>2 DEF JobIsHeads
  <2> QED
    BY <1>1, <1>2, <2>1, <2>2, UpdatesFacts, QuietCoordinator DEF TimesOK
<1>3. CASE /\ Working("update")
           /\ \E checked \in CheckedTimes :
              LET u == UpdateFilterLists(Head(queue), checked)
              IN  \/ /\ u.changed
                     /\ BeginWrite(u.lists, u.checked, u.clean)
                     /\ UNCHANGED <<queue, replies>>
                  \/ /\ ~u.changed
                     /\ UpdateReply(FALSE)
                     /\ UNCHANGED storeVars
  <2>1. PICK checked \in CheckedTimes :
          \/ /\ BeginWrite(UpdateFilterLists(Head(queue), checked).lists,
                           UpdateFilterLists(Head(queue), checked).checked,
                           UpdateFilterLists(Head(queue), checked).clean)
             /\ UNCHANGED <<queue, replies>>
          \/ UpdateReply(FALSE) /\ UNCHANGED storeVars
    BY <1>3
  <2>2. Head(queue).checked \in Times
    <3>1. queue # <<>> /\ Head(queue).kind = "update" /\ IsQueue(queue)
      BY <1>3, UpdatesFacts DEF Working
    <3>2. 1 \in DOMAIN queue /\ Head(queue) = queue[1]
      BY <3>1, QueueEnds
    <3> QED
      BY <3>1, <3>2, UpdatesFacts DEF TimesOK, TaskOK
  <2>3. checked \in Times
    BY TimesRead
  <2>4. UpdateFilterLists(Head(queue), checked).checked \in {0, Head(queue).checked, checked}
    BY DEF UpdateFilterLists
  <2>5. UpdateFilterLists(Head(queue), checked).checked \in Times
    BY <2>2, <2>3, <2>4, UpdatesFacts
  <2>6. CASE UpdateReply(FALSE) /\ UNCHANGED storeVars
    BY <1>1, <1>3, <2>6, UpdateAnswers DEF storeVars
  <2> QED
    BY <1>2, <1>3, <2>1, <2>5, <2>6 DEF Working
<1>4. CASE /\ Working("add") \/ Working("change")
           /\ LET t == Head(queue)
              IN  \/ /\ Refusal(t) = ""
                     /\ \E checked \in CheckedTimes :
                           BeginWrite(Changed(t), checked, TRUE)
                     /\ UNCHANGED <<queue, replies>>
                  \/ /\ Refusal(t) # ""
                     /\ MutationReply(Refusal(t))
                     /\ UNCHANGED storeVars
  <2>1. queue # <<>> /\ Head(queue).kind \in {"add", "change"}
    BY <1>4 DEF Working
  <2>2. \/ /\ \E checked \in CheckedTimes : BeginWrite(Changed(Head(queue)), checked, TRUE)
           /\ UNCHANGED <<queue, replies>>
        \/ MutationReply(Refusal(Head(queue))) /\ UNCHANGED storeVars
    BY <1>4
  <2>3. CASE /\ \E checked \in CheckedTimes : BeginWrite(Changed(Head(queue)), checked, TRUE)
             /\ UNCHANGED <<queue, replies>>
    <3>1. PICK checked \in CheckedTimes : BeginWrite(Changed(Head(queue)), checked, TRUE)
      BY <2>3
    <3>2. checked \in Times
      BY TimesRead
    <3> QED
      BY <1>2, <2>1, <2>3, <3>1, <3>2
  <2>4. CASE MutationReply(Refusal(Head(queue))) /\ UNCHANGED storeVars
    BY <1>1, <2>1, <2>4, ChangeAnswers DEF storeVars
  <2> QED
    BY <2>2, <2>3, <2>4
<1> QED
  BY <1>3, <1>4 DEF WorkerBegins

LEMMA WorkerWritesKeeps ==
  ASSUME UpdatesInv, WorkerWrites
  PROVE  UpdatesInv'
<1>1. UNCHANGED <<uiVars, checks, queue, replies>> /\ DiskInv'
  BY UpdatesFacts, WorkerKeeps DEF WorkerWrites
<1>2. WriteStep \/ WriteFails
  BY DEF WorkerWrites
<1>3. job # None /\ \E step : Goto(step)
  BY <1>2 DEF WriteStep, WriteFails, DeleteCorrupt, MoveDirectory, WriteBackup,
              WriteState, Prune
<1>4. job'.checked = job.checked /\ job.checked \in Times
  <2>1. PICK step : job' = [job EXCEPT !.at = step]
    BY <1>3 DEF Goto
  <2>2. PICK g, t, p, r, w, a :
          job = [target |-> g, checked |-> t, previous |-> p, rollback |-> r,
                 clean |-> w, at |-> a]
    BY <1>3, UpdatesFacts DEF DiskInv, IsJob
  <2> QED
    BY <1>3, <2>1, <2>2, UpdatesFacts DEF TimesOK
<1>5. CASE state' = state /\ backup' = backup
  BY <1>1, <1>3, <1>4, <1>5, UpdatesFacts, QuietCoordinator DEF JobIsHeads, TimesOK
<1>6. CASE WriteBackup
  <2>1. state' = state /\ (backup' = backup \/ backup'.checked = None)
    BY <1>6 DEF WriteBackup
  <2>2. backup' # None => IsTime(backup'.checked)
    BY <2>1, UpdatesFacts DEF TimesOK, IsTime
  <2> QED
    BY <1>1, <1>3, <1>4, <2>1, <2>2, UpdatesFacts, QuietCoordinator DEF JobIsHeads, TimesOK
<1>7. CASE WriteState
  <2>1. backup' = backup /\ state'.checked = job.checked
    BY <1>7 DEF WriteState
  <2>2. IsTime(state'.checked)
    BY <1>4, <2>1 DEF IsTime
  <2> QED
    BY <1>1, <1>3, <1>4, <2>1, <2>2, UpdatesFacts, QuietCoordinator DEF JobIsHeads, TimesOK
<1>8. CASE WriteFails \/ DeleteCorrupt \/ MoveDirectory \/ Prune
  BY <1>5, <1>8 DEF WriteFails, DeleteCorrupt, MoveDirectory, Prune, files
<1> QED
  BY <1>2, <1>6, <1>7, <1>8 DEF WriteStep

LEMMA WorkerReturnsKeeps ==
  ASSUME UpdatesInv, WorkerReturns
  PROVE  UpdatesInv'
<1>1. job # None /\ job' = None /\ UNCHANGED <<uiVars, checks, files>> /\ DiskInv'
  BY UpdatesFacts, WorkerKeeps DEF WorkerReturns
<1>2. queue # <<>> /\ Head(queue).kind \in {"update", "add", "change"}
  BY <1>1, UpdatesFacts DEF JobIsHeads
<1>3. CASE Working("update")
  <2>1. \E ok : UpdateReply(ok)
    BY <1>3 DEF WorkerReturns
  <2> QED
    BY <1>1, <1>3, <2>1, UpdateAnswers
<1>4. CASE ~Working("update")
  <2>1. \E error : MutationReply(error)
    BY <1>4 DEF WorkerReturns
  <2>2. Head(queue).kind \in {"add", "change"}
    BY <1>2, <1>4 DEF Working
  <2> QED
    BY <1>1, <1>2, <2>1, <2>2, ChangeAnswers
<1> QED
  BY <1>3, <1>4

LEMMA NoMessages == IsQueue(<<>>) /\ Idles(<<>>) /\ DOMAIN <<>> = {}
<1>1. <<>> \in Seq({}) /\ DOMAIN <<>> = {}
  OBVIOUS
<1> QED
  BY <1>1 DEF IsQueue, Idles

LEMMA RestartKeeps ==
  ASSUME UpdatesInv, DiskInv', ProcessRestarts
  PROVE  UpdatesInv'
<1>1. /\ job' = None /\ UNCHANGED <<state, backup>> /\ queue' = <<>> /\ replies' = <<>>
  BY DEF ProcessRestarts, Restart, files
<1>2. /\ phase' = "idle" /\ due' \in Times /\ timer' \in 0..Interval \cup {None}
      /\ FlagsOK' /\ NeverIdle'
  BY GoneFlags DEF ProcessRestarts
<1>3. CarriedOK(phase', queue', replies') /\ IsQueue(queue') /\ IsQueue(replies')
  BY <1>1, <1>2, NoMessages, WorkersPhases DEF CarriedOK
<1>4. JobIsHeads' /\ TimesOK'
  BY <1>1, <1>2, NoMessages, UpdatesFacts DEF JobIsHeads, TimesOK
<1> QED
  BY <1>2, <1>3, <1>4 DEF UpdatesInv

LEMMA DamagedKeeps ==
  ASSUME UpdatesInv, DiskInv', Damage
  PROVE  UpdatesInv'
<1>1. /\ UNCHANGED <<uiVars, checks, queue, replies, backup, job>>
      /\ state' = state \/ state' = None
  BY DEF Damage, DamageState, DamageGeneration
<1>2. JobIsHeads'
  BY <1>1, UpdatesFacts DEF JobIsHeads
<1> QED
  BY <1>1, <1>2, UpdatesFacts, QuietCoordinator DEF TimesOK

LEMMA TimesMove ==
  ASSUME NEW t, IsTime(t), Interval \in Nat, ClockShift \in Nat, None \notin Nat
  PROVE  /\ IsTime(Older(t)) /\ (t \in Times => Older(t) \in Times)
         /\ IsTime(Younger(t)) /\ (t \in Times => Younger(t) \in Times)
BY DEF IsTime, Older, Younger, Times

\* Time goes on, or the clock is set back, while nothing is in flight.
LEMMA TimeKeeps ==
  ASSUME UpdatesInv, DiskInv', Tick \/ ClockSetBack
  PROVE  UpdatesInv'
<1>1. /\ UNCHANGED <<alive, phase, catalogActive, mutation, checks, queue, replies, backup, job>>
      /\ AtRest
      /\ due' \in {Older(due), Younger(due)}
      /\ timer' = timer \/ (timer # 0 /\ timer # None /\ timer' = timer - 1)
      /\ state = None => state' = None
      /\ state # None => state' \in {[state EXCEPT !.checked = Older(@)],
                                     [state EXCEPT !.checked = Younger(@)]}
  <2>1. CASE Tick
    BY <2>1 DEF Tick, Shift, ShiftFiles
  <2>2. CASE ClockSetBack
    BY <2>2 DEF ClockSetBack, Shift, ShiftFiles
  <2> QED
    BY <2>1, <2>2
<1>2. due' \in Times
  <2>1. IsTime(due) /\ due \in Times
    BY UpdatesFacts DEF IsTime
  <2>2. Older(due) \in Times /\ Younger(due) \in Times
    BY <2>1, UpdatesFacts, TimesMove
  <2> QED
    BY <1>1, <2>2
<1>3. state' # None => IsTime(state'.checked)
  <2> SUFFICES ASSUME state # None PROVE IsTime(state'.checked)
    BY <1>1
  <2>1. PICK c, q, t : state = [current |-> c, previous |-> q, checked |-> t]
    BY UpdatesFacts DEF DiskInv, IsPointer
  <2>2. IsTime(t)
    BY <2>1, UpdatesFacts DEF TimesOK
  <2>3. state'.checked \in {Older(t), Younger(t)}
    BY <1>1, <2>1
  <2>4. IsTime(Older(t)) /\ IsTime(Younger(t))
    BY <2>2, UpdatesFacts, TimesMove
  <2> QED
    BY <2>3, <2>4
<1>4. timer' \in 0..Interval \cup {None}
  BY <1>1, UpdatesFacts
<1>5. CarriedOK(phase', queue', replies') /\ FlagsOK' /\ JobIsHeads'
  BY <1>1, UpdatesFacts DEF FlagsOK, JobIsHeads
<1>6. TimesOK'
  BY <1>1, <1>2, <1>3, <1>4, UpdatesFacts DEF TimesOK
<1>7. NeverIdle'
  <2>1. ~in_flight /\ ~Has(queue, "refresh") /\ ~Has(replies, "refresh")
    BY <1>1, NoMessages DEF AtRest, Has
  <2>2. alive => timer # None /\ timer <= Interval
    BY <2>1, UpdatesFacts DEF NeverIdle
  <2>3. alive => timer' # None /\ timer' <= Interval
    BY <1>1, <1>4, <2>2, UpdatesFacts
  <2> QED
    BY <1>1, <2>3 DEF NeverIdle
<1> QED
  BY <1>1, <1>5, <1>6, <1>7, UpdatesFacts DEF UpdatesInv

LEMMA UpdatesStart == ListsInit => UpdatesInv
<1> SUFFICES ASSUME ListsInit PROVE UpdatesInv
  OBVIOUS
<1>1. /\ alive = FALSE /\ timer = None /\ due = 0 /\ phase = "idle"
      /\ catalogActive = FALSE /\ mutation = None /\ checks = [c \in Checks |-> "unused"]
      /\ queue = <<>> /\ replies = <<>>
  BY DEF ListsInit
<1>2. /\ job = None /\ backup = None
      /\ state # None => state.checked = 0
  BY DEF ListsInit, StoreInit
<1>3. DiskInv
  BY DiskStarts
<1>4. IsQueue(queue) /\ IsQueue(replies) /\ CarriedOK(phase, queue, replies)
  BY <1>1, NoMessages, WorkersPhases DEF CarriedOK
<1>5. FlagsOK /\ JobIsHeads /\ NeverIdle
  BY <1>1, <1>2 DEF FlagsOK, JobIsHeads, NeverIdle
<1>6. TimesOK
  BY <1>1, <1>2, NoMessages, TimesAre DEF TimesOK, IsTime
<1> QED
  BY <1>3, <1>4, <1>5, <1>6 DEF UpdatesInv

LEMMA UpdatesSteps ==
  ASSUME UpdatesInv, [ListsNext]_listVars
  PROVE  UpdatesInv'
<1>1. DiskInv'
  BY UpdatesFacts, DiskSteps
<1>2. CASE MaybeCreate \/ TimerFires
  BY <1>2, CreateKeeps, TimerKeeps
<1>3. CASE Network \/ RedirectRefused
  BY <1>3, NetworkKeeps, RedirectKeeps
<1>4. CASE Worker
  BY <1>4, WorkerReadsKeeps, WorkerBeginsKeeps, WorkerWritesKeeps, WorkerReturnsKeeps
     DEF Worker
<1>5. CASE Replies
  BY <1>5, RepliesKeep
<1>6. CASE \E c \in Checks : CheckNow(c)
  BY <1>6, CheckKeeps
<1>7. CASE \E m \in Mutations : BeginMutation(m)
  BY <1>7, MutationKeeps
<1>8. CASE ProfileDestroyed \/ ProcessRestarts
  BY <1>1, <1>8, DestroyedKeeps, RestartKeeps
<1>9. CASE Damage \/ Tick \/ ClockSetBack
  BY <1>1, <1>9, DamagedKeeps, TimeKeeps
<1>10. CASE UNCHANGED listVars
  <2>1. UNCHANGED <<uiVars, checks, queue, replies>> /\ UNCHANGED <<state, backup, job>>
    BY <1>10 DEF listVars, storeVars, files
  <2>2. JobIsHeads'
    BY <2>1, UpdatesFacts DEF JobIsHeads
  <2> QED
    BY <1>1, <2>1, <2>2, UpdatesFacts, QuietCoordinator DEF TimesOK
<1> QED
  BY <1>2, <1>3, <1>4, <1>5, <1>6, <1>7, <1>8, <1>9, <1>10 DEF ListsNext

(* The coordinator's flight is carried by at most one message of the two   *)
(* queues between it and its worker, whatever was destroyed, restarted or  *)
(* set back meanwhile, and its flags say whose flight it is                *)
(* (BaselineListUpdater and its worker).                                   *)
THEOREM UpdatesInductive == ListsSpec => []UpdatesInv
<1>1. UpdatesInv /\ [ListsNext]_listVars => UpdatesInv'
  BY UpdatesSteps
<1> QED
  BY UpdatesStart, <1>1, PTL DEF ListsSpec

\* How many messages of some kinds a queue has.
Count(q, kinds) == Cardinality({i \in DOMAIN q : q[i].live /\ q[i].kind \in kinds})

LEMMA CountIdles ==
  ASSUME NEW q, Idles(q), NEW kinds, "refresh" \notin kinds
  PROVE  Count(q, kinds) = 0
<1>1. {i \in DOMAIN q : q[i].live /\ q[i].kind \in kinds} = {}
  BY DEF Idles
<1> QED
  BY <1>1, FS_EmptySet DEF Count

LEMMA CountCarries ==
  ASSUME NEW q, NEW kinds, Carries(q, kinds), "refresh" \notin kinds,
         NEW others, "refresh" \notin others, others = kinds \/ others \cap kinds = {}
  PROVE  Count(q, others) = IF others = kinds THEN 1 ELSE 0
<1> DEFINE S == {i \in DOMAIN q : q[i].live /\ q[i].kind \in others}
<1>1. PICK i \in DOMAIN q :
        /\ q[i].live /\ q[i].kind \in kinds
        /\ \A j \in DOMAIN q : q[j].live /\ j # i => q[j].kind = "refresh"
  BY DEF Carries
<1>2. CASE others = kinds
  <2>1. S = {i}
    BY <1>1, <1>2
  <2> QED
    BY <1>2, <2>1, FS_Singleton DEF Count
<1>3. CASE others # kinds
  <2>1. S = {}
    BY <1>1, <1>3
  <2> QED
    BY <1>3, <2>1, FS_EmptySet DEF Count
<1> QED
  BY <1>2, <1>3

LEMMA FlightsPosted ==
  ASSUME UpdatesInv, NEW p \in DOMAIN WorkerPhase
  PROVE  Posted(WorkerPhase[p]) = IF phase = p THEN 1 ELSE 0
<1> DEFINE kinds == WorkerPhase[p]
           now == WorkerPhase[phase]
<1>1. Posted(kinds) = Count(queue, kinds) + Count(replies, kinds)
  BY DEF Posted, Count
<1>2. "refresh" \notin kinds
  BY WorkersPhases
<1>3. CASE phase \in DOMAIN WorkerPhase
  <2>1. /\ "refresh" \notin now /\ (phase = p => kinds = now)
        /\ phase # p => kinds \cap now = {} /\ kinds # now
    <3>1. phase # p => kinds \cap now = {} /\ kinds # {}
      BY <1>3, WorkersPhases
    <3> QED
      BY <1>3, <3>1, WorkersPhases
  <2>2. \/ Carries(queue, now) /\ Idles(replies)
        \/ Idles(queue) /\ Carries(replies, now)
    BY <1>3, UpdatesFacts DEF CarriedOK
  <2> HIDE DEF kinds, now
  <2>3. CASE Carries(queue, now) /\ Idles(replies)
    <3>1. Count(replies, kinds) = 0
      BY <1>2, <2>3, CountIdles
    <3>2. Count(queue, kinds) = IF phase = p THEN 1 ELSE 0
      BY <1>2, <2>1, <2>3, CountCarries
    <3> QED
      BY <1>1, <3>1, <3>2 DEF kinds
  <2>4. CASE Idles(queue) /\ Carries(replies, now)
    <3>1. Count(queue, kinds) = 0
      BY <1>2, <2>4, CountIdles
    <3>2. Count(replies, kinds) = IF phase = p THEN 1 ELSE 0
      BY <1>2, <2>1, <2>4, CountCarries
    <3> QED
      BY <1>1, <3>1, <3>2 DEF kinds
  <2> QED
    BY <2>2, <2>3, <2>4
<1>4. CASE phase \notin DOMAIN WorkerPhase
  <2>1. Idles(queue) /\ Idles(replies) /\ phase # p
    BY <1>4, UpdatesFacts DEF CarriedOK
  <2> HIDE DEF kinds, now
  <2>2. Count(queue, kinds) = 0 /\ Count(replies, kinds) = 0
    BY <1>2, <2>1, CountIdles
  <2> QED
    BY <1>1, <2>1, <2>2 DEF kinds
<1> QED
  BY <1>3, <1>4

(* While a profile holds the coordinator it has something that will wake   *)
(* it, and a flight that waits for the worker is carried by exactly one    *)
(* message, for any retry delay, checks, changes, damages and restarts     *)
(* (BaselineListUpdater).                                                  *)
THEOREM UpdatesHold == ListsSpec => []UpdatesGoOn
<1>1. UpdatesInv => UpdatesGoOn
  <2> SUFFICES ASSUME UpdatesInv PROVE UpdatesGoOn
    OBVIOUS
  <2>1. \A p \in DOMAIN WorkerPhase : Posted(WorkerPhase[p]) = IF phase = p THEN 1 ELSE 0
    BY FlightsPosted
  <2>2. /\ mutation # None <=> phase \in {"fetch", "save"}
        /\ catalogActive <=> phase = "sources"
        /\ (\E c \in Checks : checks[c] = "waiting") =>
              in_flight /\ phase \notin {"fetch", "save"}
    BY UpdatesFacts DEF FlagsOK, in_flight
  <2> QED
    BY <2>1, <2>2, UpdatesFacts DEF UpdatesGoOn, FlightIsCarried
<1> QED
  BY UpdatesInductive, <1>1, PTL

-----------------------------------------------------------------------------
(* What the user is told of the lists *)

Now == ReadBaselineListStore
SubsIn(g) == IF g = None THEN BundledLists.subs ELSE g.subs
StatusIn(g, u) ==
  IF u \notin DOMAIN SubsIn(g) THEN "absent"
  ELSE IF SubsIn(g)[u].enabled THEN "on" ELSE "off"

\* What a change makes of its subscription.
Wanted(kind) ==
  CASE kind = "remove" -> "absent" [] kind = "disable" -> "off" [] OTHER -> "on"

\* A task that changes a subscription, which one, and to what.
IsChange(t) == t.kind \in {"add", "change"}
ChangedUrl(t) == IF t.kind = "add" THEN t.url ELSE t.change.url
WantedOf(t) == IF t.kind = "add" THEN "on" ELSE Wanted(t.change.kind)

\* The kinds of what is written, asked for and answered.
PlansOK(r) ==
  \A i \in DOMAIN r :
     r[i].kind = "plan" => "enabled" \in DOMAIN r[i] /\ r[i].enabled \subseteq Urls

\* What is left to download while subscriptions are, and then nothing.
TodoOK == phase \in {"easylist", "easyprivacy", "subscriptions"} \/ todo = {}

TypesInv == ListsTypeOK /\ TodoOK /\ PlansOK(replies)

KindsOK ==
  /\ phase = "fetch" => mutation.kind = "add"
  /\ DOMAIN told = Urls

\* What a coordinator left behind is ahead of what the next one posts.
LeftFirst(q, r) ==
  /\ \A i, j \in DOMAIN q : i < j /\ q[i].live => q[j].live
  /\ \A i \in DOMAIN r, j \in DOMAIN q : r[i].live => q[j].live

\* A change at the worker is the coordinator's, or its user is no longer told
\* of the subscription.
TaskSays(t, m, said) ==
  IsChange(t) =>
    /\ IF t.kind = "add" THEN "url" \in DOMAIN t
       ELSE "change" \in DOMAIN t /\ t.change.kind \in {"remove", "enable", "disable"}
    /\ ChangedUrl(t) \in Urls
    /\ IF t.live THEN /\ m # None /\ m.url = ChangedUrl(t)
                      /\ Wanted(m.kind) = WantedOf(t)
       ELSE said[ChangedUrl(t)] = None

\* The change in hand was published, and its user does not know yet.
Publishes(j, t) ==
  j # None /\ j.at \in {"prune", "done"} /\ IsChange(t) /\ t.live
IsSaved(m) == m.live /\ m.kind = "mutation" /\ m.error = ""
Saved(r) == \E i \in DOMAIN r : IsSaved(r[i])
Landed == Publishes(job, Head(queue)) \/ Saved(replies)

Intact(u) == told[u] = None \/ StatusIn(Now, u) = told[u]

\* What a write that is not published yet will say.
WriteSays ==
  /\ job.previous = Now
  /\ \A u \in Urls :
        StatusIn(job.target, u) =
          IF IsChange(Head(queue)) /\ ChangedUrl(Head(queue)) = u
            THEN WantedOf(Head(queue)) ELSE StatusIn(Now, u)

Writing(j) == j # None /\ j.at \in {"delete", "fill", "backup", "state"}

SaidOfDisk ==
  /\ Writing(job) => WriteSays
  /\ Landed => mutation # None /\ StatusIn(Now, mutation.url) = Wanted(mutation.kind)
  /\ \A u \in Urls : Intact(u) \/ (Landed /\ mutation.url = u)

ToldInv ==
  /\ UpdatesInv
  /\ TypesInv
  /\ KindsOK
  /\ LeftFirst(queue, replies)
  /\ \A i \in DOMAIN queue : TaskSays(queue[i], mutation, told)
  /\ used.damages = 0 => SaidOfDisk

LEMMA NowIsKept ==
  ASSUME DOMAIN gens \subseteq Generation
  PROVE  /\ Now \in Generation \cup {None} /\ ReadFilterListSet \in Generation
         /\ ReadFilterListSet.subs = SubsIn(Now) /\ SubsIn(Now) \in Subscriptions
         /\ \A u : StatusOf(u) = StatusIn(Now, u)
<1>1. Now # None => Now \in Generation
  <2>1. Now # None => Reads(Now)
    BY StoreReads DEF Now
  <2> QED
    BY <2>1 DEF Reads, ReadBaselineListGeneration
<1>2. BundledLists.subs \in Subscriptions /\ BundledLists \in Generation
  <2> DEFINE none == [u \in {} |-> None]
  <2>1. none \in [{} -> Subscription] /\ {} \in SUBSET Urls
    OBVIOUS
  <2>2. none \in Subscriptions
    BY <2>1 DEF Subscriptions
  <2> HIDE DEF none
  <2>3. <<Bundled, Bundled>> \in OfficialTexts \X OfficialTexts
    BY DEF OfficialTexts
  <2>4. BundledLists = [baseline |-> <<Bundled, Bundled>>, downloaded |-> FALSE,
                        catalog |-> None, subs |-> none]
    BY DEF BundledLists, none
  <2> QED
    BY <2>2, <2>3, <2>4 DEF Generation
<1>3. Now \in Generation => Now.subs \in Subscriptions
  BY DEF Generation
<1>4. ReadFilterListSet = IF Now = None THEN BundledLists ELSE Now
  BY DEF ReadFilterListSet, Now
<1>5. ReadFilterListSet.subs = SubsIn(Now) /\ SubsIn(Now) \in Subscriptions
  BY <1>1, <1>2, <1>3, <1>4 DEF SubsIn
<1>6. \A u : StatusOf(u) = StatusIn(Now, u)
  BY <1>5 DEF StatusOf, StatusIn
<1> QED
  BY <1>1, <1>2, <1>4, <1>5, <1>6

\* Whichever of the texts fit, the subscriptions and their switches stay.
LEMMA BodiesReplaced ==
  ASSUME NEW subs \in Subscriptions, NEW bodies
  PROVE  /\ ReplacedBodies(subs, bodies) \in Subscriptions
         /\ DOMAIN ReplacedBodies(subs, bodies) = DOMAIN subs
         /\ \A u \in DOMAIN subs :
               ReplacedBodies(subs, bodies)[u].enabled = subs[u].enabled
<1> DEFINE good == {u \in DOMAIN subs \cap DOMAIN bodies :
                      subs[u].enabled /\ bodies[u] \in GoodTexts}
           new == ReplacedBodies(subs, bodies)
<1>1. \E S : new = [u \in DOMAIN subs |->
                      IF u \in S \cap good THEN [subs[u] EXCEPT !.body = bodies[u]]
                      ELSE subs[u]]
  BY DEF ReplacedBodies
<1> HIDE DEF new
<1>2. PICK S : new = [u \in DOMAIN subs |->
                        IF u \in S \cap good THEN [subs[u] EXCEPT !.body = bodies[u]]
                        ELSE subs[u]]
  BY <1>1
<1>3. DOMAIN subs \in SUBSET Urls /\ \A u \in DOMAIN subs : subs[u] \in Subscription
  BY DEF Subscriptions
<1>4. \A u \in good : bodies[u] \in Texts
  BY StoreAssumption
<1> HIDE DEF good
<1>5. ASSUME NEW u \in DOMAIN subs
      PROVE  new[u] \in Subscription /\ new[u].enabled = subs[u].enabled
  <2>1. subs[u] \in [body: Texts, enabled: BOOLEAN]
    BY <1>3 DEF Subscription
  <2>2. CASE u \in S \cap good
    <3>1. new[u] = [subs[u] EXCEPT !.body = bodies[u]] /\ bodies[u] \in Texts
      BY <1>2, <1>4, <2>2
    <3> QED
      BY <2>1, <3>1 DEF Subscription
  <2>3. CASE u \notin S \cap good
    BY <1>2, <1>3, <2>3
  <2> QED
    BY <2>2, <2>3
<1>6. DOMAIN new = DOMAIN subs /\ new = [u \in DOMAIN subs |-> new[u]]
  BY <1>2
<1>7. new \in [DOMAIN subs -> Subscription]
  BY <1>5, <1>6
<1>8. new \in Subscriptions
  BY <1>3, <1>7 DEF Subscriptions
<1> QED
  BY <1>5, <1>6, <1>8 DEF new

\* An update says of every subscription what was said.
LEMMA UpdateSays ==
  ASSUME DOMAIN gens \subseteq Generation, NEW t, NEW checked
  PROVE  /\ UpdateFilterLists(t, checked).lists \in Generation
         /\ \A u : StatusIn(UpdateFilterLists(t, checked).lists, u) = StatusIn(Now, u)
<1> DEFINE lists == ReadFilterListSet
           pair == \A i \in 1..2 : t.originals[i] \in GoodTexts
           prepared == t.catalog \in GoodTexts
           subs == ReplacedBodies(lists.subs, t.downloads)
           new == [baseline |-> IF pair THEN <<t.originals[1], t.originals[2]>>
                                ELSE lists.baseline,
                   downloaded |-> pair \/ lists.downloaded,
                   catalog |-> IF prepared THEN t.catalog ELSE lists.catalog,
                   subs |-> subs]
<1>1. UpdateFilterLists(t, checked).lists = new
  BY DEF UpdateFilterLists
<1>2. lists \in Generation /\ lists.subs = SubsIn(Now) /\ SubsIn(Now) \in Subscriptions
  BY NowIsKept
<1>3. /\ subs \in Subscriptions /\ DOMAIN subs = DOMAIN SubsIn(Now)
      /\ \A u \in DOMAIN subs : subs[u].enabled = SubsIn(Now)[u].enabled
  BY <1>2, BodiesReplaced
<1>4. pair => <<t.originals[1], t.originals[2]>> \in OfficialTexts \X OfficialTexts
  BY StoreAssumption DEF OfficialTexts
<1>5. /\ lists.baseline \in OfficialTexts \X OfficialTexts
      /\ lists.downloaded \in BOOLEAN /\ lists.catalog \in Texts \cup {None}
  BY <1>2 DEF Generation
<1>6. prepared => t.catalog \in Texts
  BY StoreAssumption
<1> HIDE DEF lists, subs, pair, prepared
<1>7. (pair \/ lists.downloaded) \in BOOLEAN
  BY <1>5
<1>8. new \in Generation
  BY <1>3, <1>4, <1>5, <1>6, <1>7 DEF Generation
<1>9. new # None /\ new.subs = subs
  BY <1>8, NoneAssumption
<1> HIDE DEF new
<1>10. \A u : StatusIn(new, u) = StatusIn(Now, u)
  <2>1. SubsIn(new) = subs
    BY <1>9 DEF SubsIn
  <2> QED
    BY <1>3, <2>1 DEF StatusIn
<1> QED
  BY <1>1, <1>8, <1>10

\* A change says it of all but its own.
LEMMA ChangeSays ==
  ASSUME DOMAIN gens \subseteq Generation, NEW t, NEW m, NEW said,
         IsChange(t), TaskSays(t, m, said), Refusal(t) = ""
  PROVE  /\ Changed(t) \in Generation
         /\ \A u : StatusIn(Changed(t), u) =
                     IF ChangedUrl(t) = u THEN WantedOf(t) ELSE StatusIn(Now, u)
<1> DEFINE lists == ReadFilterListSet
           subs == SubsIn(Now)
           added == [u \in DOMAIN subs \cup {t.url} |->
                       IF u = t.url THEN [body |-> t.body, enabled |-> TRUE]
                       ELSE subs[u]]
           removed == [u \in DOMAIN subs \ {t.change.url} |-> subs[u]]
           switched == [subs EXCEPT ![t.change.url].enabled = (t.change.kind = "enable")]
<1>1. lists \in Generation /\ lists.subs = subs /\ subs \in Subscriptions
  BY NowIsKept
<1>2. DOMAIN subs \in SUBSET Urls /\ \A u \in DOMAIN subs : subs[u] \in Subscription
  BY <1>1 DEF Subscriptions
<1>3. ASSUME NEW new \in Subscriptions, Changed(t) = [lists EXCEPT !.subs = new]
      PROVE  Changed(t) \in Generation /\ SubsIn(Changed(t)) = new
  <2>1. Changed(t) \in Generation /\ Changed(t).subs = new
    BY <1>1, <1>3 DEF Generation
  <2>2. Changed(t) # None
    BY <2>1, NoneAssumption
  <2> QED
    BY <2>1, <2>2 DEF SubsIn
<1>4. CASE t.kind = "add"
  <2>1. t.body \in GoodTexts
    BY <1>4 DEF Refusal
  <2>2. t.url \in Urls /\ ChangedUrl(t) = t.url /\ WantedOf(t) = "on"
    BY <1>4 DEF TaskSays, ChangedUrl, WantedOf
  <2>3. Changed(t) = [lists EXCEPT !.subs = added]
    BY <1>1, <1>4 DEF Changed
  <2>4. [body |-> t.body, enabled |-> TRUE] \in Subscription
    BY <2>1, StoreAssumption DEF Subscription
  <2> HIDE DEF subs
  <2>5. added \in [DOMAIN subs \cup {t.url} -> Subscription]
    BY <1>2, <2>4
  <2>6. added \in Subscriptions
    BY <1>2, <2>2, <2>5 DEF Subscriptions
  <2>7. /\ DOMAIN added = DOMAIN subs \cup {t.url} /\ added[t.url].enabled = TRUE
        /\ \A u \in DOMAIN subs : u # t.url => added[u] = subs[u]
    OBVIOUS
  <2> HIDE DEF added
  <2>8. Changed(t) \in Generation /\ SubsIn(Changed(t)) = added
    BY <1>3, <2>3, <2>6
  <2>9. \A u : StatusIn(Changed(t), u) =
                 IF t.url = u THEN "on" ELSE StatusIn(Now, u)
    BY <2>7, <2>8 DEF StatusIn, subs
  <2> QED
    BY <2>2, <2>8, <2>9
<1>5. CASE t.kind = "change"
  <2> DEFINE which == t.change.url
             kind == t.change.kind
  <2>1. /\ ChangedUrl(t) = which /\ WantedOf(t) = Wanted(kind)
        /\ kind \in {"remove", "enable", "disable"}
    BY <1>5 DEF TaskSays, ChangedUrl, WantedOf
  <2>2. which \in DOMAIN subs
    BY <1>1, <1>5 DEF Refusal
  <2>3. CASE kind = "remove"
    <3>1. Changed(t) = [lists EXCEPT !.subs = removed]
      BY <1>1, <1>5, <2>3 DEF Changed
    <3> HIDE DEF subs, which, kind
    <3>2. removed \in [DOMAIN subs \ {which} -> Subscription]
      BY <1>2 DEF which
    <3>3. removed \in Subscriptions
      BY <1>2, <3>2 DEF Subscriptions
    <3>4. DOMAIN removed = DOMAIN subs \ {which} /\ \A u \in DOMAIN removed : removed[u] = subs[u]
      BY DEF which
    <3> HIDE DEF removed
    <3>5. Changed(t) \in Generation /\ SubsIn(Changed(t)) = removed
      BY <1>3, <3>1, <3>3
    <3>6. \A u : StatusIn(Changed(t), u) =
                   IF which = u THEN "absent" ELSE StatusIn(Now, u)
      BY <3>4, <3>5 DEF StatusIn, subs
    <3> QED
      BY <2>1, <2>3, <3>5, <3>6 DEF Wanted
  <2>4. CASE kind # "remove"
    <3>1. Changed(t) = [lists EXCEPT !.subs = switched]
      BY <1>1, <1>5, <2>4 DEF Changed
    <3> HIDE DEF subs, which, kind
    <3>2. /\ DOMAIN switched = DOMAIN subs
          /\ switched[which].enabled = (kind = "enable")
          /\ switched[which] \in Subscription
          /\ \A u \in DOMAIN subs : u # which => switched[u] = subs[u]
      <4> DEFINE on == (kind = "enable")
      <4>1. subs[which] \in [body: Texts, enabled: BOOLEAN] /\ on \in BOOLEAN
        BY <1>2, <2>2 DEF Subscription
      <4>2. switched[which] = [subs[which] EXCEPT !.enabled = on]
        BY <2>2 DEF which, kind
      <4> HIDE DEF on, switched
      <4>3. switched[which].enabled = on
        BY <4>1, <4>2
      <4>4. switched[which] \in Subscription
        BY <4>1, <4>2 DEF Subscription
      <4>5. \A u \in DOMAIN subs : u # which => switched[u] = subs[u]
        BY DEF switched, which
      <4>6. DOMAIN switched = DOMAIN subs
        BY DEF switched
      <4> QED
        BY <4>3, <4>4, <4>5, <4>6 DEF on
    <3>3. switched = [u \in DOMAIN subs |-> switched[u]]
      OBVIOUS
    <3> HIDE DEF switched
    <3>4. \A u \in DOMAIN subs : switched[u] \in Subscription
      BY <1>2, <3>2
    <3>5. switched \in [DOMAIN subs -> Subscription]
      BY <3>3, <3>4
    <3>6. switched \in Subscriptions
      BY <1>2, <3>5 DEF Subscriptions
    <3>7. Changed(t) \in Generation /\ SubsIn(Changed(t)) = switched
      BY <1>3, <3>1, <3>6
    <3>8. \A u : StatusIn(Changed(t), u) =
                   IF which = u THEN (IF kind = "enable" THEN "on" ELSE "off")
                   ELSE StatusIn(Now, u)
      BY <2>2, <3>2, <3>7 DEF StatusIn, subs
    <3>9. Wanted(kind) = IF kind = "enable" THEN "on" ELSE "off"
      BY <2>1, <2>4 DEF Wanted, kind
    <3> QED
      BY <2>1, <3>7, <3>8, <3>9
  <2> QED
    BY <2>3, <2>4
<1> QED
  BY <1>4, <1>5 DEF IsChange

\* What a coordinator left behind stays ahead.
LEMMA LeftGrows ==
  ASSUME NEW q, NEW r, IsQueue(q), LeftFirst(q, r),
         NEW m, {"kind", "live"} \subseteq DOMAIN m, m.live
  PROVE  LeftFirst(Append(q, m), r)
<1> DEFINE more == Append(q, m)
<1>1. /\ DOMAIN more = DOMAIN q \cup {Len(q) + 1}
      /\ \A i \in DOMAIN q : more[i] = q[i]
      /\ more[Len(q) + 1] = m
  BY QueueGrows
<1>2. Len(q) \in Nat /\ DOMAIN q = 1..Len(q)
  BY DEF IsQueue
<1> HIDE DEF more
<1>3. \A j \in DOMAIN q : ~(Len(q) + 1 < j)
  BY <1>2
<1>4. LeftFirst(more, r)
  BY <1>1, <1>3 DEF LeftFirst
<1> QED
  BY <1>4 DEF more

LEMMA LeftTaken ==
  ASSUME NEW q, NEW r, IsQueue(r), r # <<>>, LeftFirst(q, r)
  PROVE  LeftFirst(q, Tail(r))
<1> DEFINE rest == Tail(r)
<1>1. \A i \in DOMAIN rest : i + 1 \in DOMAIN r /\ rest[i] = r[i + 1]
  BY QueueEnds
<1> HIDE DEF rest
<1>2. LeftFirst(q, rest)
  BY <1>1 DEF LeftFirst
<1> QED
  BY <1>2 DEF rest

LEMMA LeftPasses ==
  ASSUME NEW q, NEW r, IsQueue(q), IsQueue(r), q # <<>>, LeftFirst(q, r),
         NEW m, {"kind", "live"} \subseteq DOMAIN m, m.live = Head(q).live
  PROVE  LeftFirst(Tail(q), Append(r, m))
<1> DEFINE rest == Tail(q)
           more == Append(r, m)
<1>1. /\ 1 \in DOMAIN q /\ Head(q) = q[1]
      /\ \A i \in DOMAIN rest : i + 1 \in DOMAIN q /\ rest[i] = q[i + 1]
      /\ \A i \in DOMAIN q : i \in Nat
  BY QueueEnds
<1>2. /\ DOMAIN more = DOMAIN r \cup {Len(r) + 1}
      /\ \A i \in DOMAIN r : more[i] = r[i]
      /\ more[Len(r) + 1] = m
  BY QueueGrows
<1>3. DOMAIN rest = 1..(Len(q) - 1) /\ Len(q) \in Nat /\ DOMAIN q = 1..Len(q)
  <2>1. PICK S : q \in Seq(S)
    BY DEF IsQueue
  <2>2. Len(q) \in Nat /\ Len(q) > 0 /\ DOMAIN q = 1..Len(q)
    BY <2>1
  <2>3. rest \in Seq(S) /\ Len(rest) = Len(q) - 1
    BY <2>1, HeadTailProperties
  <2> QED
    BY <2>2, <2>3
<1> HIDE DEF rest, more
<1>4. \A i, j \in DOMAIN rest : i < j => i + 1 < j + 1
  BY <1>3
<1>5. \A i \in DOMAIN rest : 1 < i + 1
  BY <1>3
<1>6. \A i, j \in DOMAIN rest : i < j /\ rest[i].live => rest[j].live
  BY <1>1, <1>4 DEF LeftFirst
<1>7. m.live => \A j \in DOMAIN rest : rest[j].live
  BY <1>1, <1>5 DEF LeftFirst
<1>8. LeftFirst(rest, more)
  BY <1>1, <1>2, <1>6, <1>7 DEF LeftFirst
<1> QED
  BY <1>8 DEF rest, more

\* While the worker writes, no answer about a change is on its way.
LEMMA WriterAlone ==
  ASSUME UpdatesInv, LeftFirst(queue, replies), job # None
  PROVE  /\ \A i \in DOMAIN replies : replies[i].live => replies[i].kind = "refresh"
         /\ queue # <<>> /\ 1 \in DOMAIN queue /\ Head(queue) = queue[1]
         /\ Head(queue).kind \in {"update", "add", "change"}
<1>1. /\ queue # <<>> /\ Head(queue).kind \in {"update", "add", "change"}
      /\ IsQueue(queue) /\ IsQueue(replies)
  BY UpdatesFacts DEF JobIsHeads
<1>2. 1 \in DOMAIN queue /\ Head(queue) = queue[1]
  BY <1>1, QueueEnds
<1>3. CASE Head(queue).live
  <2>1. ~Idles(queue)
    BY <1>1, <1>2, <1>3 DEF Idles
  <2>2. Idles(replies)
    BY <2>1, UpdatesFacts DEF CarriedOK
  <2> QED
    BY <1>1, <1>2, <2>2 DEF Idles
<1>4. CASE ~Head(queue).live
  BY <1>1, <1>2, <1>4 DEF LeftFirst
<1> QED
  BY <1>3, <1>4

LEMMA ToldFacts ==
  ASSUME ToldInv
  PROVE  /\ UpdatesInv /\ DiskInv /\ TypesInv /\ KindsOK /\ LeftFirst(queue, replies)
         /\ mutation \in Mutations \cup {None}
         /\ job # None => job \in Job
         /\ DOMAIN gens \subseteq Generation
         /\ IsQueue(queue) /\ IsQueue(replies)
         /\ \A i \in DOMAIN queue : TaskSays(queue[i], mutation, told)
         /\ used.damages = 0 => SaidOfDisk
BY UpdatesFacts DEF ToldInv, TypesInv, ListsTypeOK, StoreTypeOK

\* As long as nothing is damaged, what a start would read changes only when
\* the first pointer is written.
LEMMA NowStays ==
  ASSUME DiskInv, DiskInv', used.damages = 0, used'.damages = 0,
         DOMAIN gens \subseteq Generation, DOMAIN gens' \subseteq Generation,
         backup' = backup, state = None <=> state' = None,
         state # None => state'.current = state.current /\ state'.previous = state.previous
  PROVE  Now' = Now
<1>1. Undamaged /\ Undamaged'
  BY DEF DiskInv
<1>2. ~Reads(None) /\ ~Reads(None)'
  BY NoneAssumption DEF Reads, ReadBaselineListGeneration
<1>3. Named(state)' = Named(state) /\ Named(backup)' = Named(backup)
  BY DEF Named
<1>4. \A g \in Named(state) \cup Named(backup) : Reads(g) /\ Reads(g)'
  BY <1>1, <1>3 DEF Undamaged, Needed
<1>5. \A g \in {None} \cup Named(state) \cup Named(backup) :
        ReadBaselineListGeneration(g)' <=> ReadBaselineListGeneration(g)
  BY <1>2, <1>4 DEF Reads
<1>6. ReadState(state)' = ReadState(state)
  <2>1. CASE state = None
    BY <2>1 DEF ReadState
  <2>2. CASE state # None
    <3>1. PICK c, p : c = state.current /\ p = state.previous
      OBVIOUS
    <3>2. /\ state' # None /\ state'.current = c /\ state'.previous = p
          /\ {c, p} \subseteq {None} \cup Named(state)
      BY <2>2, <3>1 DEF Named
    <3>3. /\ ReadBaselineListGeneration(c)' <=> ReadBaselineListGeneration(c)
          /\ ReadBaselineListGeneration(p)' <=> ReadBaselineListGeneration(p)
      BY <1>5, <3>2
    <3> QED
      BY <2>2, <3>1, <3>2, <3>3 DEF ReadState, ReadBaselineListGeneration
  <2> QED
    BY <2>1, <2>2
<1>7. ReadState(backup)' = ReadState(backup)
  <2>1. CASE backup = None
    BY <2>1 DEF ReadState
  <2>2. CASE backup # None
    <3>1. PICK c, p : c = backup.current /\ p = backup.previous
      OBVIOUS
    <3>2. {c, p} \subseteq {None} \cup Named(backup)
      BY <2>2, <3>1 DEF Named
    <3>3. /\ ReadBaselineListGeneration(c)' <=> ReadBaselineListGeneration(c)
          /\ ReadBaselineListGeneration(p)' <=> ReadBaselineListGeneration(p)
      BY <1>5, <3>2
    <3> QED
      BY <2>2, <3>1, <3>3 DEF ReadState, ReadBaselineListGeneration
  <2> QED
    BY <2>1, <2>2
<1> QED
  BY <1>6, <1>7 DEF Now, ReadBaselineListStore

\* The kinds of the coordinator's own variables.
UiTypeOK ==
  /\ alive \in BOOLEAN
  /\ task \in {"refresh", "start"}
  /\ phase \in Phases
  /\ originals \in [1..2 -> Texts \cup {None}]
  /\ todo \subseteq DOMAIN downloads
  /\ DOMAIN downloads \subseteq Urls
  /\ catalog \in Texts \cup {None}
  /\ mutation \in Mutations \cup {None}
  /\ \A c \in Checks :
        checks[c] \in {"unused", "waiting", "ok", "failed", "gone"}
  /\ TodoOK

LEMMA TypesParts ==
  UpdatesInv => (TypesInv <=> StoreTypeOK /\ UiTypeOK /\ PlansOK(replies))
BY DEF UpdatesInv, TimesOK, TypesInv, ListsTypeOK, UiTypeOK

LEMMA StepFields ==
  ASSUME ToldInv, job # None, NEW step \in Steps, Goto(step)
  PROVE  /\ job' \in Job /\ job' # None /\ job'.at = step
         /\ job'.target = job.target /\ job'.previous = job.previous
         /\ job'.rollback = job.rollback /\ job'.checked = job.checked
         /\ job.target \in Generation /\ job.previous \in Generation \cup {None}
         /\ job.rollback \in Generation \cup {None} /\ job.checked \in Times
<1>1. job \in Job /\ job' = [job EXCEPT !.at = step]
  BY ToldFacts DEF Goto
<1>2. /\ job' \in Job /\ job'.at = step
      /\ job'.target = job.target /\ job'.previous = job.previous
      /\ job'.rollback = job.rollback /\ job'.checked = job.checked
      /\ job.target \in Generation /\ job.previous \in Generation \cup {None}
      /\ job.rollback \in Generation \cup {None} /\ job.checked \in Times
  BY <1>1 DEF Job
<1> QED
  BY <1>2, NoneAssumption

LEMMA PointersAre ==
  ASSUME NEW c \in Generation \cup {None}, NEW p \in Generation \cup {None},
         NEW t \in Times \cup {None}
  PROVE  /\ [current |-> c, previous |-> p, checked |-> t] \in Pointer
         /\ [current |-> c, previous |-> p, checked |-> t] # None
<1>1. [current |-> c, previous |-> p, checked |-> t] \in Pointer
  BY DEF Pointer
<1> QED
  BY <1>1, NoneAssumption


\* The files and the worker's call.
LEMMA BeginTyped ==
  ASSUME ToldInv, UpdatesInv', NEW g \in Generation, NEW t, NEW w \in BOOLEAN,
         BeginWrite(g, t, w)
  PROVE  StoreTypeOK'
<1> DEFINE first == FirstStep(g)
           rollback == Rollback(g)
<1>1. /\ UNCHANGED <<gens, state, backup, running>>
      /\ job' = [target |-> g, checked |-> t, previous |-> Now,
                 rollback |-> rollback, clean |-> w, at |-> first]
  BY DEF BeginWrite, NewJob, files, Now
<1>2. first \in Steps
  BY DEF FirstStep, Steps
<1>3. Now \in Generation \cup {None} /\ DOMAIN gens \subseteq Generation
  BY ToldFacts, NowIsKept
<1>4. rollback \in Generation \cup {None}
  BY <1>3 DEF Rollback, Now, ReadBaselineListGeneration
<1> HIDE DEF first, rollback
<1>5. job'.checked = t
  BY <1>1
<1>6. job' # None => job'.checked \in Times
  BY DEF UpdatesInv, TimesOK
<1>7. job' # None => job' \in Job
  BY <1>1, <1>2, <1>3, <1>4, <1>5, <1>6 DEF Job
<1> QED
  BY <1>1, <1>7, ToldFacts DEF TypesInv, ListsTypeOK, StoreTypeOK

LEMMA WorkerTyped ==
  ASSUME ToldInv, UpdatesInv', WorkerBegins \/ WorkerWrites \/ WorkerReturns
  PROVE  StoreTypeOK'
<1>1. StoreTypeOK
  BY ToldFacts DEF TypesInv, ListsTypeOK
<1>2. CASE UNCHANGED storeVars \/ (UNCHANGED <<files, running>> /\ job' = None)
  BY <1>1, <1>2 DEF StoreTypeOK, storeVars, files
<1>3. CASE WorkerBegins
  <2>1. CASE Working("update")
    <3>1. \/ UNCHANGED storeVars
          \/ \E checked : BeginWrite(UpdateFilterLists(Head(queue), checked).lists,
                                     UpdateFilterLists(Head(queue), checked).checked,
                                     UpdateFilterLists(Head(queue), checked).clean)
      BY <1>3, <2>1 DEF WorkerBegins, Working
    <3>2. ASSUME NEW checked,
                 BeginWrite(UpdateFilterLists(Head(queue), checked).lists,
                            UpdateFilterLists(Head(queue), checked).checked,
                            UpdateFilterLists(Head(queue), checked).clean)
          PROVE  StoreTypeOK'
      <4>1. UpdateFilterLists(Head(queue), checked).lists \in Generation
        BY ToldFacts, UpdateSays
      <4>2. UpdateFilterLists(Head(queue), checked).clean \in BOOLEAN
        BY DEF UpdateFilterLists
      <4> QED
        BY <3>2, <4>1, <4>2, BeginTyped
    <3> QED
      BY <1>2, <3>1, <3>2
  <2>2. CASE ~Working("update")
    <3>1. /\ queue # <<>> /\ IsChange(Head(queue))
          /\ \/ UNCHANGED storeVars
             \/ /\ Refusal(Head(queue)) = ""
                /\ \E checked : BeginWrite(Changed(Head(queue)), checked, TRUE)
      BY <1>3, <2>2 DEF WorkerBegins, Working, IsChange
    <3>2. ASSUME Refusal(Head(queue)) = "", NEW checked,
                 BeginWrite(Changed(Head(queue)), checked, TRUE)
          PROVE  StoreTypeOK'
      <4>1. PICK t : t = Head(queue)
        OBVIOUS
      <4>2. TaskSays(t, mutation, told)
        <5>1. 1 \in DOMAIN queue /\ Head(queue) = queue[1]
          BY <3>1, ToldFacts, QueueEnds
        <5> QED
          BY <4>1, <5>1, ToldFacts
      <4>3. Changed(t) \in Generation
        BY <3>1, <3>2, <4>1, <4>2, ToldFacts, ChangeSays
      <4> QED
        BY <3>2, <4>1, <4>3, BeginTyped
    <3> QED
      BY <1>2, <3>1, <3>2
  <2> QED
    BY <2>1, <2>2
<1>4. CASE WorkerWrites
  <2>1. PICK step \in Steps : Goto(step) /\ job # None
    BY <1>4 DEF WorkerWrites, WriteStep, WriteFails, DeleteCorrupt, MoveDirectory,
                WriteBackup, WriteState, Prune, Steps
  <2>2. /\ job' \in Job /\ running' = running
        /\ job.target \in Generation /\ job.previous \in Generation \cup {None}
        /\ job.rollback \in Generation \cup {None} /\ job.checked \in Times
    <3>1. running' = running
      BY <1>4 DEF WorkerWrites, WriteStep, WriteFails, DeleteCorrupt, MoveDirectory,
                  WriteBackup, WriteState, Prune
    <3> QED
      BY <2>1, <3>1, StepFields
  <2>3. DOMAIN gens' \subseteq Generation /\ \A g \in DOMAIN gens' : gens'[g] \in BOOLEAN
    BY <1>1, <1>4, <2>2 DEF StoreTypeOK, WorkerWrites, WriteStep, WriteFails,
         DeleteCorrupt, MoveDirectory, WriteBackup, WriteState, Prune, files
  <2>4. state' = state \/ state' \in Pointer
    <3>1. state' = state \/ WriteState
      BY <1>4 DEF WorkerWrites, WriteStep, WriteFails, DeleteCorrupt, MoveDirectory,
                  WriteBackup, Prune, files
    <3> QED
      BY <2>2, <3>1, PointersAre DEF WriteState
  <2>5. backup' = backup \/ backup' \in Pointer
    <3>1. backup' = backup \/ WriteBackup
      BY <1>4 DEF WorkerWrites, WriteStep, WriteFails, DeleteCorrupt, MoveDirectory,
                  WriteState, Prune, files
    <3> QED
      BY <2>2, <3>1, PointersAre DEF WriteBackup
  <2> QED
    BY <1>1, <2>2, <2>3, <2>4, <2>5 DEF StoreTypeOK
<1>5. CASE WorkerReturns
  BY <1>2, <1>5 DEF WorkerReturns
<1> QED
  BY <1>3, <1>4, <1>5

LEMMA FilesTyped ==
  ASSUME ToldInv, UpdatesInv', ProcessRestarts \/ Damage \/ Tick \/ ClockSetBack
  PROVE  StoreTypeOK'
<1>1. StoreTypeOK
  BY ToldFacts DEF TypesInv, ListsTypeOK
<1>2. CASE ProcessRestarts
  <2>1. Now \in Generation \cup {None}
    BY ToldFacts, NowIsKept
  <2> QED
    BY <1>1, <1>2, <2>1 DEF ProcessRestarts, Restart, StoreTypeOK, files, Now
<1>3. CASE Damage
  <2>1. /\ UNCHANGED <<backup, job, running>>
        /\ state' = state \/ state' = None
        /\ gens' = gens \/ \E g \in DOMAIN gens : gens' = [gens EXCEPT ![g] = FALSE]
    BY <1>3 DEF Damage, DamageState, DamageGeneration
  <2>2. DOMAIN gens' = DOMAIN gens /\ \A g \in DOMAIN gens' : gens'[g] \in BOOLEAN
    BY <1>1, <2>1 DEF StoreTypeOK
  <2> QED
    BY <1>1, <2>1, <2>2 DEF StoreTypeOK
<1>4. CASE Tick \/ ClockSetBack
  <2>1. /\ UNCHANGED <<gens, backup, job, running>>
        /\ state = None => state' = None
        /\ state # None => state' \in {[state EXCEPT !.checked = Older(@)],
                                       [state EXCEPT !.checked = Younger(@)]}
    BY <1>4 DEF Tick, ClockSetBack, Shift, ShiftFiles
  <2>2. ASSUME state # None PROVE state' \in Pointer
    <3>1. state \in Pointer
      BY <1>1, <2>2 DEF StoreTypeOK
    <3>2. state.checked \in Times \cup {None}
      BY <3>1 DEF Pointer
    <3>3. PICK o, y : o = Older(state.checked) /\ y = Younger(state.checked)
      OBVIOUS
    <3>4. o \in Times \cup {None} /\ y \in Times \cup {None}
      BY <3>2, <3>3, TimesMove, TimesAre DEF IsTime
    <3>5. state' \in {[state EXCEPT !.checked = o], [state EXCEPT !.checked = y]}
      BY <2>1, <2>2, <3>3
    <3> QED
      BY <3>1, <3>4, <3>5 DEF Pointer
  <2> QED
    BY <1>1, <2>1, <2>2 DEF StoreTypeOK
<1> QED
  BY <1>2, <1>3, <1>4

\* The coordinator's variables.
LEMMA PlansGrow ==
  ASSUME NEW r, IsQueue(r), PlansOK(r), NEW m, {"kind", "live"} \subseteq DOMAIN m,
         m.kind = "plan" => "enabled" \in DOMAIN m /\ m.enabled \subseteq Urls
  PROVE  PlansOK(Append(r, m))
<1> DEFINE more == Append(r, m)
<1>1. /\ DOMAIN more = DOMAIN r \cup {Len(r) + 1}
      /\ \A i \in DOMAIN r : more[i] = r[i]
      /\ more[Len(r) + 1] = m
  BY QueueGrows
<1> HIDE DEF more
<1>2. PlansOK(more)
  BY <1>1 DEF PlansOK
<1> QED
  BY <1>2 DEF more

LEMMA PlansTaken ==
  ASSUME NEW r, IsQueue(r), r # <<>>, PlansOK(r)
  PROVE  PlansOK(Tail(r)) /\ (Head(r).kind = "plan" => Head(r).enabled \subseteq Urls)
<1> DEFINE rest == Tail(r)
<1>1. /\ 1 \in DOMAIN r /\ Head(r) = r[1]
      /\ \A i \in DOMAIN rest : i + 1 \in DOMAIN r /\ rest[i] = r[i + 1]
  BY QueueEnds
<1> HIDE DEF rest
<1>2. PlansOK(rest)
  BY <1>1 DEF PlansOK
<1> QED
  BY <1>1, <1>2 DEF PlansOK, rest

LEMMA NothingTyped ==
  /\ NoText \in [1..2 -> Texts \cup {None}]
  /\ DOMAIN NoDownloads = {}
BY DEF NoText, NoDownloads

LEMMA TimersTyped ==
  ASSUME UiTypeOK, FlagsOK, MaybeCreate \/ TimerFires \/ \E c \in Checks : CheckNow(c)
  PROVE  UiTypeOK'
<1>1. "plan" \in Phases
  BY DEF Phases
<1>2. CASE MaybeCreate
  BY <1>2 DEF MaybeCreate, UiTypeOK, TodoOK
<1>3. CASE TimerFires
  <2>1. /\ UNCHANGED <<alive, originals, todo, downloads, catalog, mutation, checks>>
        /\ task' \in {task, "start"}
        /\ (phase' = phase \/ (phase = "idle" /\ phase' = "plan"))
    BY <1>3 DEF TimerFires, Start, StartUpdate, in_flight
  <2> QED
    BY <1>1, <2>1 DEF UiTypeOK, TodoOK
<1>4. ASSUME NEW c \in Checks, CheckNow(c) PROVE UiTypeOK'
  <2>1. /\ UNCHANGED <<alive, originals, todo, downloads, catalog, mutation>>
        /\ task' = task
        /\ (phase' = phase \/ (phase = "idle" /\ phase' = "plan"))
        /\ checks' = [checks EXCEPT ![c] = CheckJoins]
    BY <1>4 DEF CheckNow, StartUpdate, in_flight
  <2>2. \A d \in Checks : checks'[d] \in {"unused", "waiting", "ok", "failed", "gone"}
    BY <2>1 DEF UiTypeOK, FlagsOK, CheckJoins
  <2> QED
    BY <1>1, <2>1, <2>2 DEF UiTypeOK, TodoOK
<1> QED
  BY <1>2, <1>3, <1>4

\* An update goes to the worker when nothing is left to download.
LEMMA InstallTyped ==
  ASSUME UiTypeOK, todo = {}, NEW update, NEW failed, InstallUpdates(update, failed),
         UNCHANGED <<alive, task, todo, mutation, checks>>
  PROVE  UiTypeOK'
<1>1. /\ phase' = "install" /\ catalog' = None /\ originals' = NoText
      /\ downloads' = NoDownloads
  BY DEF InstallUpdates
<1>2. "install" \in Phases
  BY DEF Phases
<1> QED
  BY <1>1, <1>2, NothingTyped DEF UiTypeOK, TodoOK

LEMMA DownloadsTyped ==
  ASSUME UiTypeOK, NEW text \in Texts \cup {None}, UNCHANGED <<alive, task, mutation, checks>>,
         \/ Downloaded(text) \/ CatalogDownloaded(text)
         \/ phase = "sources" /\ CatalogSourceDownloaded(text) /\ UNCHANGED todo
         \/ phase = "subscriptions" /\ \E u \in todo : SubscriptionReceived(u, text)
  PROVE  UiTypeOK'
<1>1. {"catalog", "subscriptions", "easyprivacy", "parse"} \subseteq Phases
  BY DEF Phases
<1>2. CASE Downloaded(text)
  <2>1. /\ UNCHANGED <<downloads, catalog, todo>>
        /\ originals' = originals \/ \E i \in 1..2 : originals' = [originals EXCEPT ![i] = text]
        /\ phase' \in {"catalog", "subscriptions", "easyprivacy"}
        /\ phase' = "catalog" => todo = {}
    BY <1>2 DEF Downloaded, Download
  <2>2. originals' \in [1..2 -> Texts \cup {None}]
    BY <2>1 DEF UiTypeOK
  <2> QED
    BY <1>1, <2>1, <2>2 DEF UiTypeOK, TodoOK
<1>3. CASE CatalogDownloaded(text)
  <2>1. phase = "catalog" /\ todo = {} /\ todo' = todo
    BY <1>3 DEF CatalogDownloaded, UiTypeOK, TodoOK
  <2>2. CASE InstallUpdates(None, TRUE)
    BY <2>1, <2>2, InstallTyped
  <2>3. CASE catalog' = text /\ phase' = "parse" /\ UNCHANGED <<originals, downloads>>
    BY <1>1, <2>1, <2>3 DEF UiTypeOK, TodoOK
  <2> QED
    BY <1>3, <2>2, <2>3 DEF CatalogDownloaded
<1>4. CASE phase = "sources" /\ CatalogSourceDownloaded(text) /\ UNCHANGED todo
  <2>1. todo = {} /\ \E update, failed : InstallUpdates(update, failed)
    BY <1>4 DEF CatalogSourceDownloaded, UiTypeOK, TodoOK
  <2> QED
    BY <1>4, <2>1, InstallTyped
<1>5. CASE phase = "subscriptions" /\ \E u \in todo : SubscriptionReceived(u, text)
  <2>1. PICK u \in todo : SubscriptionReceived(u, text)
    BY <1>5
  <2>2. /\ downloads' = [downloads EXCEPT ![u] = text] /\ todo' = todo \ {u}
        /\ phase' = IF todo \ {u} = {} THEN "catalog" ELSE "subscriptions"
        /\ UNCHANGED <<originals, catalog>>
    BY <2>1 DEF SubscriptionReceived, Download
  <2>3. DOMAIN downloads' = DOMAIN downloads
    BY <2>2
  <2> QED
    BY <1>1, <2>2, <2>3 DEF UiTypeOK, TodoOK
<1> QED
  BY <1>2, <1>3, <1>4, <1>5

\* A change of a subscription, from its beginning to its answer.
LEMMA ChangesTyped ==
  ASSUME UiTypeOK, UNCHANGED <<alive, originals, todo, downloads, catalog, checks>>,
         \/ \E m \in Mutations : BeginMutation(m)
         \/ phase = "fetch" /\ \E text : SubscriptionDownloaded(text)
         \/ phase \in {"fetch", "save"} /\ \E error : MutationCompleted(error)
  PROVE  UiTypeOK'
<1>1. {"fetch", "save", "idle"} \subseteq Phases
  BY DEF Phases
<1>2. /\ phase \in {"idle", "fetch", "save"} /\ phase' \in {"fetch", "save", "idle"}
      /\ task' \in {task, "start"}
      /\ mutation' \in Mutations \cup {None}
  <2>1. CASE \E m \in Mutations : BeginMutation(m)
    BY <2>1 DEF BeginMutation, in_flight
  <2>2. CASE phase \in {"fetch", "save"} /\ \E error : MutationCompleted(error)
    BY <2>2 DEF MutationCompleted, Rearm
  <2>3. CASE phase = "fetch" /\ \E text : SubscriptionDownloaded(text)
    BY <2>3 DEF SubscriptionDownloaded, MutationCompleted, Rearm, UiTypeOK
  <2> QED
    BY <2>1, <2>2, <2>3
<1> QED
  BY <1>1, <1>2 DEF UiTypeOK, TodoOK

LEMMA NetworkTyped ==
  ASSUME UiTypeOK, FlagsOK, Network \/ RedirectRefused
  PROVE  UiTypeOK'
<1>1. CASE Network
  <2>1. PICK text \in Texts \cup {None} :
          Downloaded(text) \/ CatalogDownloaded(text) \/ LoaderReplies(text)
    BY <1>1 DEF Network
  <2>2. CASE Downloaded(text) \/ CatalogDownloaded(text)
    <3>1. UNCHANGED <<alive, task, mutation, checks>>
      BY <2>2 DEF Downloaded, CatalogDownloaded
    <3> QED
      BY <2>2, <3>1, DownloadsTyped
  <2>3. CASE LoaderReplies(text)
    <3>1. Received(text) /\ UNCHANGED <<alive, checks>>
      BY <2>3 DEF LoaderReplies
    <3>2. CASE phase = "subscriptions"
      BY <3>1, <3>2, DownloadsTyped DEF Received
    <3>3. CASE phase = "sources"
      <4>1. UNCHANGED <<task, mutation>> /\ CatalogSourceDownloaded(text)
        BY <3>1, <3>3 DEF Received
      <4> QED
        BY <3>1, <3>3, <4>1, DownloadsTyped DEF CatalogSourceDownloaded
    <3>4. CASE phase = "fetch"
      BY <3>1, <3>4, ChangesTyped DEF Received
    <3> QED
      BY <3>1, <3>2, <3>3, <3>4 DEF Received
  <2> QED
    BY <2>1, <2>2, <2>3
<1>2. CASE RedirectRefused
  <2>1. UNCHANGED <<alive, checks>> /\ phase \in {"subscriptions", "sources", "fetch"}
    BY <1>2 DEF RedirectRefused
  <2>2. CASE catalogActive /\ CatalogSourceDownloaded(None) /\ UNCHANGED <<task, mutation>>
    <3>1. phase = "sources" /\ todo' = todo
      BY <2>2 DEF FlagsOK, CatalogSourceDownloaded
    <3> QED
      BY <2>1, <2>2, <3>1, DownloadsTyped
  <2>3. CASE /\ mutation # None /\ MutationCompleted("download-failed")
             /\ UNCHANGED <<originals, todo, downloads, catalog>>
    <3>1. phase = "fetch"
      BY <2>1, <2>3 DEF FlagsOK
    <3> QED
      BY <2>1, <2>3, <3>1, ChangesTyped
  <2>4. CASE /\ ~catalogActive /\ mutation = None
             /\ \E u \in todo : SubscriptionReceived(u, None)
             /\ UNCHANGED <<task, mutation>>
    <3>1. phase = "subscriptions"
      BY <2>1, <2>4 DEF FlagsOK
    <3> QED
      BY <2>1, <2>4, <3>1, DownloadsTyped
  <2> QED
    BY <1>2, <2>2, <2>3, <2>4 DEF RedirectRefused
<1> QED
  BY <1>1, <1>2

LEMMA RepliesTyped ==
  ASSUME ToldInv, UiTypeOK, Replies
  PROVE  UiTypeOK'
<1>1. CASE ReplyDropped
  BY <1>1 DEF ReplyDropped, uiVars, UiTypeOK, TodoOK
<1>2. CASE Refreshed
  <2>1. /\ UNCHANGED <<alive, originals, todo, downloads, catalog, mutation, checks>>
        /\ task' \in {task, "start"}
        /\ (phase' = phase \/ (phase = "idle" /\ phase' = "plan"))
    BY <1>2 DEF Refreshed, Start, StartUpdate, in_flight
  <2>2. "plan" \in Phases
    BY DEF Phases
  <2> QED
    BY <2>1, <2>2 DEF UiTypeOK, TodoOK
<1>3. CASE PlanLoaded
  <2>1. /\ replies # <<>> /\ Head(replies).kind = "plan"
        /\ todo' = Head(replies).enabled /\ DOMAIN downloads' = Head(replies).enabled
        /\ catalog' = None /\ phase' = "easylist"
        /\ UNCHANGED <<alive, task, originals, mutation, checks>>
    BY <1>3 DEF PlanLoaded, NextReply
  <2>2. Head(replies).enabled \subseteq Urls
    BY <2>1, ToldFacts, PlansTaken DEF TypesInv
  <2>3. "easylist" \in Phases
    BY DEF Phases
  <2> QED
    BY <2>1, <2>2, <2>3 DEF UiTypeOK, TodoOK
<1>4. CASE CatalogPlanLoaded
  <2>1. /\ UNCHANGED <<alive, task, todo, mutation, checks>>
        /\ NextReply("parse")
        /\ \/ InstallUpdates(None, TRUE)
           \/ phase' = "sources" /\ UNCHANGED <<originals, downloads, catalog>>
    BY <1>4 DEF CatalogPlanLoaded
  <2>2. phase = "parse"
    BY <2>1, ToldFacts, FlightsReply, WorkersPhases
  <2>3. todo = {} /\ "sources" \in Phases
    BY <2>2 DEF UiTypeOK, TodoOK, Phases
  <2>4. CASE InstallUpdates(None, TRUE)
    BY <2>1, <2>3, <2>4, InstallTyped
  <2> QED
    BY <2>1, <2>3, <2>4 DEF UiTypeOK, TodoOK
<1>5. CASE UpdatesInstalled
  <2>1. /\ UNCHANGED <<alive, todo, downloads, mutation>>
        /\ NextReply("update")
        /\ phase' = "idle" /\ originals' = NoText /\ catalog' = None /\ task' = "start"
        /\ \A c \in Checks : checks'[c] \in {checks[c], "ok", "failed"}
    BY <1>5 DEF UpdatesInstalled, Completed
  <2>2. phase = "install"
    BY <2>1, ToldFacts, FlightsReply, WorkersPhases
  <2>3. "idle" \in Phases
    BY DEF Phases
  <2> QED
    BY <2>1, <2>2, <2>3, NothingTyped DEF UiTypeOK, TodoOK
<1>6. CASE MutationSaved
  <2>1. /\ UNCHANGED <<alive, originals, todo, downloads, catalog, checks>>
        /\ NextReply("mutation") /\ \E error : MutationCompleted(error)
    BY <1>6 DEF MutationSaved
  <2>2. phase = "save"
    BY <2>1, ToldFacts, FlightsReply, WorkersPhases
  <2> QED
    BY <2>1, <2>2, ChangesTyped
<1> QED
  BY <1>1, <1>2, <1>3, <1>4, <1>5, <1>6 DEF Replies

LEMMA GoneTyped ==
  ASSUME UiTypeOK, Idle, NEW answer \in {"failed", "gone"}, checks' = Abandoned(answer)
  PROVE  UiTypeOK'
<1>1. /\ alive' = FALSE /\ phase' = "idle" /\ mutation' = None /\ originals' = NoText
      /\ todo' = {} /\ downloads' = NoDownloads /\ catalog' = None /\ task' = "start"
  BY DEF Idle
<1>2. \A c \in Checks : checks'[c] \in {checks[c], answer}
  BY DEF Abandoned
<1>3. "idle" \in Phases
  BY DEF Phases
<1> QED
  BY <1>1, <1>2, <1>3, NothingTyped DEF UiTypeOK, TodoOK

\* The answers of the worker about what to update.
LEMMA PlansTyped ==
  ASSUME ToldInv, UpdatesInv', [ListsNext]_listVars
  PROVE  PlansOK(replies')
<1>1. PlansOK(replies) /\ IsQueue(replies)
  BY ToldFacts DEF TypesInv
<1>2. CASE replies' = replies \/ (replies # <<>> /\ replies' = Tail(replies))
  BY <1>1, <1>2, PlansTaken
<1>3. CASE replies' = <<>>
  BY <1>3, NoMessages DEF PlansOK
<1>4. CASE replies' = Orphaned(replies)
  <2>1. /\ DOMAIN replies' = DOMAIN replies
        /\ \A i \in DOMAIN replies :
             /\ replies'[i].kind = replies[i].kind
             /\ DOMAIN replies'[i] = DOMAIN replies[i]
             /\ \A f \in DOMAIN replies[i] :
                   f # "live" => replies'[i][f] = replies[i][f]
    BY <1>1, <1>4, QueueOrphaned
  <2>2. \A i \in DOMAIN replies : "enabled" \in DOMAIN replies[i] =>
          /\ replies'[i].enabled = replies[i].enabled
          /\ "enabled" \in DOMAIN replies'[i]
    BY <2>1
  <2> QED
    BY <1>1, <2>1, <2>2 DEF PlansOK
<1>5. ASSUME NEW m, replies' = Append(replies, m), {"kind", "live"} \subseteq DOMAIN m,
             m.kind = "plan" => "enabled" \in DOMAIN m /\ m.enabled \subseteq Urls
      PROVE  PlansOK(replies')
  BY <1>1, <1>5, PlansGrow
<1>6. CASE WorkerReads
  <2>1. CASE \E t : Reply([kind |-> "refresh", live |-> Head(queue).live, due |-> t])
    BY <1>5, <2>1 DEF Reply
  <2>2. CASE \E ok : Reply([kind |-> "parse", live |-> Head(queue).live, ok |-> ok])
    BY <1>5, <2>2 DEF Reply
  <2>3. CASE LET subs == ReadFilterListSet.subs
             IN  Reply([kind |-> "plan", live |-> Head(queue).live,
                        enabled |-> {u \in DOMAIN subs : subs[u].enabled}])
    <3> DEFINE subs == ReadFilterListSet.subs
               m == [kind |-> "plan", live |-> Head(queue).live,
                     enabled |-> {u \in DOMAIN subs : subs[u].enabled}]
    <3>1. DOMAIN subs \in SUBSET Urls
      BY ToldFacts, NowIsKept DEF Subscriptions
    <3>2. replies' = Append(replies, m) /\ {"kind", "live"} \subseteq DOMAIN m
      BY <2>3 DEF Reply
    <3>3. "enabled" \in DOMAIN m /\ m.enabled \subseteq Urls
      BY <3>1
    <3> QED
      BY <1>5, <3>2, <3>3
  <2> QED
    BY <1>6, <2>1, <2>2, <2>3 DEF WorkerReads
<1>7. CASE WorkerBegins \/ WorkerReturns
  <2>1. \/ replies' = replies
        \/ \E ok : UpdateReply(ok)
        \/ \E error : MutationReply(error)
    BY <1>7 DEF WorkerBegins, WorkerReturns
  <2>2. CASE \E ok : UpdateReply(ok)
    BY <1>5, <2>2 DEF UpdateReply, Reply
  <2>3. CASE \E error : MutationReply(error)
    BY <1>5, <2>3 DEF MutationReply, Reply
  <2> QED
    BY <1>2, <2>1, <2>2, <2>3
<1>8. CASE MaybeCreate \/ TimerFires \/ Network \/ RedirectRefused
  BY <1>2, <1>8 DEF MaybeCreate, TimerFires, Network, Downloaded, CatalogDownloaded,
                    LoaderReplies, RedirectRefused
<1>9. CASE WorkerWrites \/ (\E c \in Checks : CheckNow(c)) \/ (\E m \in Mutations : BeginMutation(m))
  BY <1>2, <1>9 DEF WorkerWrites, CheckNow, BeginMutation
<1>10. CASE Replies
  <2>1. CASE ReplyDropped \/ Refreshed \/ PlanLoaded
    BY <1>2, <2>1 DEF ReplyDropped, Refreshed, PlanLoaded, NextReply
  <2>2. CASE CatalogPlanLoaded \/ UpdatesInstalled \/ MutationSaved
    BY <1>2, <2>2 DEF CatalogPlanLoaded, UpdatesInstalled, MutationSaved, NextReply
  <2> QED
    BY <1>10, <2>1, <2>2 DEF Replies
<1>11. CASE ProfileDestroyed \/ ProcessRestarts
  BY <1>3, <1>4, <1>11 DEF ProfileDestroyed, ProcessRestarts
<1>12. CASE Damage \/ Tick \/ ClockSetBack \/ UNCHANGED listVars
  BY <1>2, <1>12 DEF Damage, Tick, ClockSetBack, Shift, listVars
<1> QED
  BY <1>6, <1>7, <1>8, <1>9, <1>10, <1>11, <1>12 DEF ListsNext, Worker

LEMMA TypesSteps ==
  ASSUME ToldInv, UpdatesInv', [ListsNext]_listVars
  PROVE  TypesInv'
<1>1. StoreTypeOK /\ UiTypeOK /\ FlagsOK
  BY ToldFacts, TypesParts, UpdatesFacts
<1>2. PlansOK(replies')
  BY PlansTyped
<1>3. StoreTypeOK'
  <2>1. CASE UNCHANGED storeVars
    BY <1>1, <2>1 DEF StoreTypeOK, storeVars, files
  <2>2. CASE \/ MaybeCreate \/ TimerFires \/ Network \/ RedirectRefused
             \/ WorkerReads \/ Replies \/ (\E c \in Checks : CheckNow(c))
             \/ (\E m \in Mutations : BeginMutation(m)) \/ ProfileDestroyed
    BY <2>1, <2>2, QuietLists DEF OtherThanFiles
  <2>3. CASE WorkerBegins \/ WorkerWrites \/ WorkerReturns
    BY <2>3, WorkerTyped
  <2>4. CASE ProcessRestarts \/ Damage \/ Tick \/ ClockSetBack
    BY <2>4, FilesTyped
  <2> QED
    BY <2>1, <2>2, <2>3, <2>4 DEF ListsNext, Worker, listVars
<1>4. UiTypeOK'
  <2>1. CASE MaybeCreate \/ TimerFires \/ \E c \in Checks : CheckNow(c)
    BY <1>1, <2>1, TimersTyped
  <2>2. CASE Network \/ RedirectRefused
    BY <1>1, <2>2, NetworkTyped
  <2>3. CASE Replies
    BY <1>1, <2>3, RepliesTyped
  <2>4. CASE \E m \in Mutations : BeginMutation(m)
    <3>1. UNCHANGED <<alive, originals, todo, downloads, catalog, checks>>
      BY <2>4 DEF BeginMutation
    <3> QED
      BY <1>1, <2>4, <3>1, ChangesTyped
  <2>5. CASE ProfileDestroyed \/ ProcessRestarts
    BY <1>1, <2>5, GoneTyped DEF ProfileDestroyed, ProcessRestarts
  <2>6. CASE UNCHANGED <<uiVars, checks>>
    BY <1>1, <2>6 DEF UiTypeOK, TodoOK, uiVars
  <2>7. CASE Worker \/ Damage \/ UNCHANGED listVars
    BY <2>6, <2>7 DEF Worker, WorkerReads, WorkerBegins, WorkerWrites, WorkerReturns,
                      Damage, listVars
  <2>8. CASE Tick \/ ClockSetBack
    BY <1>1, <2>8 DEF Tick, ClockSetBack, Shift, UiTypeOK, TodoOK
  <2> QED
    BY <2>1, <2>2, <2>3, <2>4, <2>5, <2>7, <2>8 DEF ListsNext
<1>5. TimesOK'
  BY DEF UpdatesInv
<1> QED
  BY <1>2, <1>3, <1>4, <1>5 DEF TypesInv, ListsTypeOK, StoreTypeOK, UiTypeOK, TimesOK

LEMMA DamagesGrow ==
  ASSUME DiskInv, [ListsNext]_listVars
  PROVE  used'.damages = 0 => used.damages = 0
<1>1. {"faults", "restarts", "shifts", "damages"} \subseteq Troubles
  BY DEF Troubles
<1>2. used' = used \/ \E what \in Troubles : Spend(what)
  <2>1. CASE \/ MaybeCreate \/ TimerFires \/ Network \/ RedirectRefused
             \/ WorkerReads \/ Replies \/ (\E c \in Checks : CheckNow(c))
             \/ (\E m \in Mutations : BeginMutation(m)) \/ ProfileDestroyed
    BY <2>1, QuietLists DEF OtherThanFiles
  <2>2. CASE WorkerBegins \/ WorkerWrites \/ WorkerReturns
    BY <1>1, <2>2 DEF WorkerBegins, WorkerWrites, WorkerReturns
  <2>3. CASE ProcessRestarts \/ Damage
    BY <1>1, <2>3 DEF ProcessRestarts, Damage
  <2>4. CASE Tick \/ ClockSetBack
    BY <1>1, <2>4 DEF Tick, ClockSetBack
  <2>5. CASE UNCHANGED listVars
    BY <2>5 DEF listVars
  <2> QED
    BY <2>1, <2>2, <2>3, <2>4, <2>5 DEF ListsNext, Worker
<1> QED
  BY <1>2, SpendCounts DEF DiskInv

\* What was said stays true while nothing is published or answered.
LEMMA SaysSame ==
  ASSUME SaidOfDisk, Now' = Now, told' = told,
         Landed' <=> Landed, Landed => mutation' = mutation,
         Writing(job') => /\ Writing(job) /\ job'.target = job.target
                          /\ job'.previous = job.previous /\ Head(queue') = Head(queue)
  PROVE  SaidOfDisk'
<1>1. Writing(job') => WriteSays'
  BY DEF SaidOfDisk, WriteSays
<1>2. \A u : Intact(u)' <=> Intact(u)
  BY DEF Intact
<1> QED
  BY <1>1, <1>2 DEF SaidOfDisk

\* Which of the answers on their way say that a change was saved.
LEMMA SavedGrows ==
  ASSUME NEW r, IsQueue(r), NEW m, {"kind", "live"} \subseteq DOMAIN m
  PROVE  Saved(Append(r, m)) <=> Saved(r) \/ IsSaved(m)
<1> DEFINE more == Append(r, m)
<1>1. /\ DOMAIN more = DOMAIN r \cup {Len(r) + 1}
      /\ \A i \in DOMAIN r : more[i] = r[i]
      /\ more[Len(r) + 1] = m
  BY QueueGrows
<1> HIDE DEF more
<1>2. Saved(more) <=> Saved(r) \/ IsSaved(m)
  BY <1>1 DEF Saved
<1> QED
  BY <1>2 DEF more

LEMMA SavedTaken ==
  ASSUME NEW r, IsQueue(r), r # <<>>
  PROVE  Saved(r) <=> Saved(Tail(r)) \/ IsSaved(Head(r))
<1> DEFINE rest == Tail(r)
<1>1. /\ 1 \in DOMAIN r /\ Head(r) = r[1]
      /\ \A i \in DOMAIN rest : i + 1 \in DOMAIN r /\ rest[i] = r[i + 1]
      /\ \A i \in DOMAIN r : i # 1 => i - 1 \in DOMAIN rest /\ rest[i - 1] = r[i]
  BY QueueEnds
<1> HIDE DEF rest
<1>2. Saved(r) <=> Saved(rest) \/ IsSaved(Head(r))
  BY <1>1 DEF Saved
<1> QED
  BY <1>2 DEF rest

\* Nothing of a change is on its way when all that is are reads.
LEMMA IdlesSay ==
  ASSUME NEW q, Idles(q)
  PROVE  /\ ~Saved(q)
         /\ \A i \in DOMAIN q : IsChange(q[i]) => ~q[i].live
         /\ \A m, n, said : (\A i \in DOMAIN q : TaskSays(q[i], m, said)) =>
               (\A i \in DOMAIN q : TaskSays(q[i], n, said))
<1>1. \A i \in DOMAIN q : IsChange(q[i]) => ~q[i].live
  BY DEF Idles, IsChange
<1>2. ~Saved(q)
  BY DEF Idles, Saved, IsSaved
<1>3. \A m, n, said, i : i \in DOMAIN q /\ TaskSays(q[i], m, said) => TaskSays(q[i], n, said)
  BY <1>1 DEF TaskSays
<1> QED
  BY <1>1, <1>2, <1>3

\* A task of the coordinator's that is no change.
IsPlain(m) == IsPost(m) /\ m.live /\ ~IsChange(m)

\* What the coordinator does besides changes tells the user nothing.
LEMMA QuietTells ==
  ASSUME ToldInv, UpdatesInv', TypesInv', used'.damages = 0 => used.damages = 0,
         UNCHANGED <<storeVars, told, mutation>>, phase' = "fetch" => phase = "fetch",
         queue' = queue \/ \E m : IsPlain(m) /\ queue' = Append(queue, m),
         \/ replies' = replies
         \/ replies # <<>> /\ replies' = Tail(replies) /\ ~IsSaved(Head(replies))
  PROVE  ToldInv'
<1>1. /\ UNCHANGED <<gens, state, backup, job>> /\ Now' = Now
  BY DEF storeVars, files, Now, ReadBaselineListStore, ReadState, ReadBaselineListGeneration
<1>2. /\ LeftFirst(queue', replies)
      /\ \A i \in DOMAIN queue' : TaskSays(queue'[i], mutation', told')
      /\ queue # <<>> => Head(queue') = Head(queue)
  <2>1. CASE queue' = queue
    BY <2>1, ToldFacts
  <2>2. CASE \E m : IsPlain(m) /\ queue' = Append(queue, m)
    <3>1. PICK m : IsPlain(m) /\ queue' = Append(queue, m)
      BY <2>2
    <3>2. {"kind", "live"} \subseteq DOMAIN m /\ m.live /\ ~IsChange(m)
      BY <3>1 DEF IsPlain, IsPost
    <3>3. /\ DOMAIN queue' = DOMAIN queue \cup {Len(queue) + 1}
          /\ \A i \in DOMAIN queue : queue'[i] = queue[i]
          /\ queue'[Len(queue) + 1] = m
          /\ queue # <<>> => Head(queue') = Head(queue)
      BY <3>1, <3>2, ToldFacts, QueueGrows
    <3>4. TaskSays(m, mutation', told')
      BY <3>2 DEF TaskSays
    <3>5. LeftFirst(queue', replies)
      BY <3>1, <3>2, ToldFacts, LeftGrows
    <3>6. \A i \in DOMAIN queue : TaskSays(queue'[i], mutation', told')
      BY <3>3, ToldFacts
    <3> QED
      BY <3>3, <3>4, <3>5, <3>6
  <2> QED
    BY <2>1, <2>2
<1>3. LeftFirst(queue', replies') /\ (Saved(replies') <=> Saved(replies))
  BY <1>2, ToldFacts, LeftTaken, SavedTaken
<1>4. job # None => queue # <<>>
  BY WriterAlone, ToldFacts
<1>5. Landed' <=> Landed
  BY <1>1, <1>2, <1>3, <1>4 DEF Landed, Publishes
<1>6. KindsOK'
  BY <1>1, ToldFacts DEF KindsOK
<1>7. SaidOfDisk => SaidOfDisk'
  BY <1>1, <1>2, <1>4, <1>5, SaysSame DEF Writing
<1> QED
  BY <1>2, <1>3, <1>6, <1>7, ToldFacts DEF ToldInv

LEMMA PlainPosts ==
  ASSUME UpdatesInv
  PROVE  /\ StartUpdate => phase' = "plan" /\ \E m : IsPlain(m) /\ queue' = Append(queue, m)
         /\ \A update, failed : InstallUpdates(update, failed) =>
               phase' = "install" /\ \E m : IsPlain(m) /\ queue' = Append(queue, m)
         /\ \A t, left : Start(t, left) =>
               /\ phase' = "fetch" => phase = "fetch"
               /\ queue' = queue \/ \E m : IsPlain(m) /\ queue' = Append(queue, m)
<1>1. ASSUME StartUpdate
      PROVE  phase' = "plan" /\ \E m : IsPlain(m) /\ queue' = Append(queue, m)
  <2> DEFINE m == [kind |-> "plan", live |-> TRUE]
  <2>1. phase' = "plan" /\ queue' = Append(queue, m) /\ IsPlain(m)
    BY <1>1 DEF StartUpdate, Post, IsPlain, IsPost, TaskOK, IsChange
  <2> QED
    BY <2>1
<1>2. ASSUME NEW update, NEW failed, InstallUpdates(update, failed)
      PROVE  phase' = "install" /\ \E m : IsPlain(m) /\ queue' = Append(queue, m)
  <2> DEFINE m == [kind |-> "update", live |-> TRUE, originals |-> originals,
                   downloads |-> downloads, catalog |-> update,
                   checked |-> IF failed THEN 0 ELSE Interval]
  <2>1. phase' = "install" /\ queue' = Append(queue, m)
    BY <1>2 DEF InstallUpdates, Post
  <2>2. m.checked \in Times
    BY UpdatesFacts
  <2>3. IsPlain(m)
    BY <2>2 DEF IsPlain, IsPost, TaskOK, IsChange
  <2> QED
    BY <2>1, <2>3
<1>3. ASSUME NEW t, NEW left, Start(t, left)
      PROVE  /\ phase' = "fetch" => phase = "fetch"
             /\ queue' = queue \/ \E m : IsPlain(m) /\ queue' = Append(queue, m)
  <2>1. UNCHANGED <<phase, queue>> \/ StartUpdate
    BY <1>3 DEF Start
  <2> QED
    BY <1>1, <2>1
<1> QED
  BY <1>1, <1>2, <1>3

LEMMA TimersTell ==
  ASSUME ToldInv, UpdatesInv', TypesInv', used'.damages = 0 => used.damages = 0,
         MaybeCreate \/ TimerFires \/ \E c \in Checks : CheckNow(c)
  PROVE  ToldInv'
<1>1. UNCHANGED <<storeVars, told, mutation, replies>>
  BY DEF MaybeCreate, TimerFires, CheckNow
<1>2. /\ phase' = "fetch" => phase = "fetch"
      /\ queue' = queue \/ \E m : IsPlain(m) /\ queue' = Append(queue, m)
  <2>1. CASE MaybeCreate
    BY <2>1 DEF MaybeCreate
  <2>2. CASE TimerFires
    <3>1. CASE Start(due, None)
      BY <3>1, ToldFacts, PlainPosts
    <3>2. CASE Post([kind |-> "refresh", live |-> TRUE]) /\ UNCHANGED phase
      <4> DEFINE m == [kind |-> "refresh", live |-> TRUE]
      <4>1. queue' = Append(queue, m) /\ IsPlain(m)
        BY <3>2 DEF Post, IsPlain, IsPost, TaskOK, IsChange
      <4> QED
        BY <3>2, <4>1
    <3> QED
      BY <2>2, <3>1, <3>2 DEF TimerFires
  <2>3. CASE \E c \in Checks : CheckNow(c)
    <3>1. UNCHANGED <<phase, queue>> \/ StartUpdate
      BY <2>3 DEF CheckNow
    <3> QED
      BY <3>1, ToldFacts, PlainPosts
  <2> QED
    BY <2>1, <2>2, <2>3
<1> QED
  BY <1>1, <1>2, QuietTells

\* What is downloaded for an update.
LEMMA DownloadsTell ==
  ASSUME ToldInv, UpdatesInv', TypesInv', used'.damages = 0 => used.damages = 0,
         UNCHANGED <<storeVars, replies, told, mutation>>, NEW text,
         \/ Downloaded(text) \/ CatalogDownloaded(text)
         \/ CatalogSourceDownloaded(text) \/ \E u : SubscriptionReceived(u, text)
  PROVE  ToldInv'
<1>1. CASE Downloaded(text) \/ \E u : SubscriptionReceived(u, text)
  <2>1. queue' = queue /\ phase' # "fetch"
    BY <1>1 DEF Downloaded, SubscriptionReceived, Download
  <2> QED
    BY <2>1, QuietTells
<1>2. CASE CatalogDownloaded(text)
  <2>1. /\ phase' # "fetch"
        /\ \E m : IsPlain(m) /\ queue' = Append(queue, m)
    <3>1. CASE InstallUpdates(None, TRUE)
      BY <3>1, ToldFacts, PlainPosts
    <3>2. CASE phase' = "parse" /\ Post([kind |-> "parse", live |-> TRUE, text |-> text])
      <4> DEFINE m == [kind |-> "parse", live |-> TRUE, text |-> text]
      <4>1. queue' = Append(queue, m) /\ IsPlain(m)
        BY <3>2 DEF Post, IsPlain, IsPost, TaskOK, IsChange
      <4> QED
        BY <3>2, <4>1
    <3> QED
      BY <1>2, <3>1, <3>2 DEF CatalogDownloaded
  <2> QED
    BY <2>1, QuietTells
<1>3. CASE CatalogSourceDownloaded(text)
  <2>1. \E update, failed : InstallUpdates(update, failed)
    BY <1>3 DEF CatalogSourceDownloaded
  <2>2. /\ phase' # "fetch"
        /\ \E m : IsPlain(m) /\ queue' = Append(queue, m)
    BY <2>1, ToldFacts, PlainPosts
  <2> QED
    BY <2>2, QuietTells
<1> QED
  BY <1>1, <1>2, <1>3

LEMMA RepliesTell ==
  ASSUME ToldInv, UpdatesInv', TypesInv', used'.damages = 0 => used.damages = 0,
         ReplyDropped \/ Refreshed \/ PlanLoaded \/ CatalogPlanLoaded \/ UpdatesInstalled
  PROVE  ToldInv'
<1>1. /\ replies # <<>> /\ replies' = Tail(replies)
      /\ ~Head(replies).live \/ Head(replies).kind # "mutation"
      /\ UNCHANGED <<storeVars, told, mutation>>
  <2>1. CASE ReplyDropped
    BY <2>1 DEF ReplyDropped, uiVars
  <2>2. CASE Refreshed \/ PlanLoaded
    BY <2>2 DEF Refreshed, PlanLoaded, NextReply
  <2>3. CASE CatalogPlanLoaded \/ UpdatesInstalled
    BY <2>3 DEF CatalogPlanLoaded, UpdatesInstalled, NextReply
  <2> QED
    BY <2>1, <2>2, <2>3
<1>2. ~IsSaved(Head(replies))
  BY <1>1 DEF IsSaved
<1>3. /\ phase' = "fetch" => phase = "fetch"
      /\ queue' = queue \/ \E m : IsPlain(m) /\ queue' = Append(queue, m)
  <2>1. CASE ReplyDropped
    BY <2>1 DEF ReplyDropped, uiVars
  <2>2. CASE Refreshed
    <3>1. Start(Head(replies).due, timer)
      BY <2>2 DEF Refreshed
    <3> QED
      BY <3>1, ToldFacts, PlainPosts
  <2>3. CASE PlanLoaded \/ UpdatesInstalled
    BY <2>3 DEF PlanLoaded, UpdatesInstalled, Completed
  <2>4. CASE CatalogPlanLoaded
    <3>1. InstallUpdates(None, TRUE) \/ (phase' = "sources" /\ UNCHANGED queue)
      BY <2>4 DEF CatalogPlanLoaded
    <3> QED
      BY <3>1, ToldFacts, PlainPosts
  <2> QED
    BY <2>1, <2>2, <2>3, <2>4
<1> QED
  BY <1>1, <1>2, <1>3, QuietTells

\* No change is in flight.
LEMMA NoneLanded ==
  ASSUME ToldInv, Idles(queue)
  PROVE  /\ ~Publishes(job, Head(queue))
         /\ Idles(replies) => ~Landed
<1>1. job # None => 1 \in DOMAIN queue /\ Head(queue) = queue[1]
  BY ToldFacts, WriterAlone
<1>2. ~Publishes(job, Head(queue))
  BY <1>1, IdlesSay DEF Publishes
<1> QED
  BY <1>2, IdlesSay DEF Landed

\* The flight of a change begins, or comes to the worker.
LEMMA ChangePosts ==
  ASSUME ToldInv, UpdatesInv', TypesInv', used'.damages = 0 => used.damages = 0,
         UNCHANGED <<storeVars, replies, told>>, Idles(queue), Idles(replies),
         mutation' \in Mutations, phase' = "fetch" => mutation'.kind = "add",
         \/ queue' = queue
         \/ \E m : /\ {"kind", "live"} \subseteq DOMAIN m /\ m.live
                   /\ TaskSays(m, mutation', told) /\ queue' = Append(queue, m)
  PROVE  ToldInv'
<1>1. UNCHANGED <<gens, state, backup, job>> /\ Now' = Now
  BY DEF storeVars, files, Now, ReadBaselineListStore, ReadState, ReadBaselineListGeneration
<1>2. \A i \in DOMAIN queue : TaskSays(queue[i], mutation', told)
  BY ToldFacts, IdlesSay
<1>3. /\ LeftFirst(queue', replies)
      /\ \A i \in DOMAIN queue' : TaskSays(queue'[i], mutation', told')
      /\ queue # <<>> => Head(queue') = Head(queue)
  <2>1. CASE queue' = queue
    BY <1>2, <2>1, ToldFacts
  <2>2. CASE queue' # queue
    <3>1. PICK m : /\ {"kind", "live"} \subseteq DOMAIN m /\ m.live
                   /\ TaskSays(m, mutation', told) /\ queue' = Append(queue, m)
      BY <2>2
    <3>2. {"kind", "live"} \subseteq DOMAIN m /\ m.live /\ queue' = Append(queue, m)
      BY <3>1
    <3>3. IsQueue(queue)
      BY ToldFacts
    <3>4. /\ DOMAIN queue' = DOMAIN queue \cup {Len(queue) + 1}
          /\ \A i \in DOMAIN queue : queue'[i] = queue[i]
          /\ queue'[Len(queue) + 1] = m
          /\ queue # <<>> => Head(queue') = Head(queue)
      BY <3>1, <3>2, <3>3, QueueGrows, SMTT(30)
    <3>5. LeftFirst(queue', replies)
      BY <3>1, <3>2, <3>3, ToldFacts, LeftGrows
    <3>6. \A i \in DOMAIN queue' : TaskSays(queue'[i], mutation', told)
      BY <1>2, <3>1, <3>4
    <3> QED
      BY <3>4, <3>5, <3>6
  <2> QED
    BY <2>1, <2>2
<1>4. job # None => queue # <<>>
  BY WriterAlone, ToldFacts
<1>5. ~Landed
  BY NoneLanded
<1>6. ~Landed'
  <2>1. ~Publishes(job, Head(queue)) /\ ~Saved(replies)
    BY NoneLanded, IdlesSay
  <2>2. ~Publishes(job', Head(queue'))
    BY <1>1, <1>3, <1>4, <2>1 DEF Publishes
  <2> QED
    BY <2>1, <2>2 DEF Landed
<1>7. KindsOK'
  BY <1>1, ToldFacts DEF KindsOK
<1>8. SaidOfDisk => SaidOfDisk'
  BY <1>1, <1>3, <1>4, <1>5, <1>6, SaysSame DEF Writing
<1> QED
  BY <1>3, <1>7, <1>8, ToldFacts DEF ToldInv

LEMMA BeginTells ==
  ASSUME ToldInv, UpdatesInv', TypesInv', used'.damages = 0 => used.damages = 0,
         NEW n \in Mutations, BeginMutation(n)
  PROVE  ToldInv'
<1>1. /\ phase = "idle" /\ mutation' = n
      /\ UNCHANGED <<storeVars, replies, told>>
  BY DEF BeginMutation, in_flight
<1>2. Idles(queue) /\ Idles(replies)
  BY <1>1, ToldFacts, UpdatesFacts, WorkersPhases DEF CarriedOK
<1>3. CASE n.kind = "add"
  <2>1. queue' = queue
    BY <1>3 DEF BeginMutation
  <2> QED
    BY <1>1, <1>2, <1>3, <2>1, ChangePosts
<1>4. CASE n.kind # "add"
  <2> DEFINE m == [kind |-> "change", live |-> TRUE, change |-> n]
  <2>1. /\ queue' = Append(queue, m) /\ phase' = "save"
        /\ m.kind = "change" /\ m.live /\ m.change = n
        /\ {"kind", "live", "change"} \subseteq DOMAIN m
    BY <1>4 DEF BeginMutation, Post
  <2>2. n.kind \in {"remove", "enable", "disable"} /\ n.url \in Urls /\ n # None
    BY <1>4, MutationAssumption DEF Mutations
  <2> HIDE DEF m
  <2>3. TaskSays(m, mutation', told)
    BY <1>1, <2>1, <2>2 DEF TaskSays, ChangedUrl, WantedOf
  <2> QED
    BY <1>1, <1>2, <2>1, <2>3, ChangePosts
<1> QED
  BY <1>3, <1>4

\* A change that failed before it came to the worker tells nothing.
LEMMA RefusedTells ==
  ASSUME ToldInv, UpdatesInv', TypesInv', used'.damages = 0 => used.damages = 0,
         UNCHANGED <<storeVars, replies, queue>>, phase = "fetch",
         MutationCompleted("download-failed")
  PROVE  ToldInv'
<1>1. Idles(queue) /\ Idles(replies)
  BY ToldFacts, UpdatesFacts, WorkersPhases DEF CarriedOK
<1>2. mutation' = None /\ phase' = "idle" /\ told' = told
  BY DEF MutationCompleted
<1>3. UNCHANGED <<gens, state, backup, job>> /\ Now' = Now
  BY DEF storeVars, files, Now, ReadBaselineListStore, ReadState, ReadBaselineListGeneration
<1>4. \A i \in DOMAIN queue' : TaskSays(queue'[i], mutation', told')
  BY <1>1, <1>2, ToldFacts, IdlesSay
<1>5. ~Landed /\ (Landed' <=> Landed)
  BY <1>1, <1>3, NoneLanded DEF Landed, Publishes
<1>6. SaidOfDisk => SaidOfDisk'
  BY <1>2, <1>3, <1>5, SaysSame
<1>7. KindsOK'
  BY <1>2, <1>3, ToldFacts DEF KindsOK
<1> QED
  BY <1>4, <1>6, <1>7, ToldFacts DEF ToldInv

LEMMA FetchTells ==
  ASSUME ToldInv, UpdatesInv', TypesInv', used'.damages = 0 => used.damages = 0,
         UNCHANGED <<storeVars, replies>>, phase = "fetch",
         NEW text, SubscriptionDownloaded(text)
  PROVE  ToldInv'
<1>1. CASE MutationCompleted("download-failed") /\ UNCHANGED queue
  BY <1>1, RefusedTells
<1>2. CASE /\ phase' = "save"
           /\ Post([kind |-> "add", live |-> TRUE, url |-> mutation.url, body |-> text])
           /\ UNCHANGED <<timer, task, mutation, told>>
  <2> DEFINE m == [kind |-> "add", live |-> TRUE, url |-> mutation.url, body |-> text]
  <2>1. /\ queue' = Append(queue, m) /\ m.kind = "add" /\ m.live /\ m.url = mutation.url
        /\ {"kind", "live", "url"} \subseteq DOMAIN m
    BY <1>2 DEF Post
  <2> HIDE DEF m
  <2>2. Idles(queue) /\ Idles(replies) /\ mutation # None
    BY ToldFacts, UpdatesFacts, WorkersPhases DEF CarriedOK, FlagsOK
  <2>3. mutation \in Mutations /\ mutation.kind = "add"
    BY <2>2, ToldFacts DEF KindsOK
  <2>4. mutation.url \in Urls
    BY <2>3 DEF Mutations
  <2>5. TaskSays(m, mutation', told)
    BY <1>2, <2>1, <2>2, <2>3, <2>4 DEF TaskSays, ChangedUrl, WantedOf, Wanted
  <2> QED
    BY <1>2, <2>1, <2>2, <2>3, <2>5, ChangePosts
<1> QED
  BY <1>1, <1>2 DEF SubscriptionDownloaded

LEMMA NetworkTells ==
  ASSUME ToldInv, UpdatesInv', TypesInv', used'.damages = 0 => used.damages = 0,
         Network \/ RedirectRefused
  PROVE  ToldInv'
<1>1. UNCHANGED storeVars
  BY ToldFacts, QuietDisk
<1>2. CASE Network
  <2>1. PICK text \in Texts \cup {None} :
          Downloaded(text) \/ CatalogDownloaded(text) \/ LoaderReplies(text)
    BY <1>2 DEF Network
  <2>2. CASE Downloaded(text) \/ CatalogDownloaded(text)
    <3>1. UNCHANGED <<storeVars, replies, told, mutation>>
      BY <2>2 DEF Downloaded, CatalogDownloaded
    <3> QED
      BY <2>2, <3>1, DownloadsTell
  <2>3. CASE LoaderReplies(text)
    <3>1. Received(text) /\ UNCHANGED <<storeVars, replies>>
      BY <2>3 DEF LoaderReplies
    <3>2. \/ /\ UNCHANGED <<told, mutation>>
             /\ CatalogSourceDownloaded(text) \/ \E u : SubscriptionReceived(u, text)
          \/ phase = "fetch" /\ SubscriptionDownloaded(text)
      BY <3>1 DEF Received
    <3> QED
      BY <3>1, <3>2, DownloadsTell, FetchTells
  <2> QED
    BY <2>1, <2>2, <2>3
<1>3. CASE RedirectRefused
  <2>1. UNCHANGED replies /\ phase \in {"subscriptions", "sources", "fetch"}
    BY <1>3 DEF RedirectRefused
  <2>2. CASE /\ UNCHANGED <<told, mutation>>
             /\ CatalogSourceDownloaded(None) \/ \E u : SubscriptionReceived(u, None)
    BY <1>1, <2>1, <2>2, DownloadsTell
  <2>3. CASE mutation # None /\ MutationCompleted("download-failed") /\ UNCHANGED queue
    <3>1. phase = "fetch"
      BY <2>1, <2>3, ToldFacts, UpdatesFacts DEF FlagsOK
    <3> QED
      BY <1>1, <2>1, <2>3, <3>1, RefusedTells
  <2> QED
    BY <1>3, <2>2, <2>3 DEF RedirectRefused
<1> QED
  BY <1>2, <1>3

\* The answer of a change is given.
LEMMA SavedTells ==
  ASSUME ToldInv, UpdatesInv', TypesInv', used'.damages = 0 => used.damages = 0, MutationSaved
  PROVE  ToldInv'
<1>1. /\ NextReply("mutation") /\ MutationCompleted(Head(replies).error)
      /\ UNCHANGED <<storeVars, queue>>
  BY DEF MutationSaved
<1>2. /\ UNCHANGED <<gens, state, backup, job>> /\ Now' = Now
  BY <1>1 DEF storeVars, files, Now, ReadBaselineListStore, ReadState, ReadBaselineListGeneration
<1>3. /\ phase = "save" /\ replies # <<>> /\ replies' = Tail(replies)
      /\ Idles(queue) /\ Idles(replies')
  BY <1>1, ToldFacts, FlightsReply, WorkersPhases DEF CarriedOK
<1>4. /\ Head(replies).live /\ Head(replies).kind = "mutation"
      /\ phase' = "idle" /\ mutation' = None
      /\ mutation \in Mutations /\ mutation # None
  <2>1. mutation # None
    BY <1>3, ToldFacts, UpdatesFacts DEF FlagsOK
  <2> QED
    BY <1>1, <2>1, ToldFacts DEF NextReply, MutationCompleted, KindsOK
<1>5. 1 \in DOMAIN replies /\ Head(replies) = replies[1]
  BY <1>3, ToldFacts, QueueEnds
<1>6. \A i \in DOMAIN queue : ~IsChange(queue[i])
  BY <1>3, <1>4, <1>5, ToldFacts, IdlesSay DEF LeftFirst
<1>7. \A i \in DOMAIN queue' : TaskSays(queue'[i], mutation', told')
  BY <1>1, <1>6 DEF TaskSays
<1>8. LeftFirst(queue', replies')
  BY <1>1, <1>3, ToldFacts, LeftTaken
<1>9. ~Publishes(job, Head(queue)) /\ ~Saved(replies')
  BY <1>3, NoneLanded, IdlesSay
<1>10. ~Landed' /\ (Landed <=> Head(replies).error = "")
  <2>1. Landed <=> IsSaved(Head(replies))
    BY <1>3, <1>9, ToldFacts, SavedTaken DEF Landed
  <2> QED
    BY <1>1, <1>2, <1>4, <1>9, <2>1 DEF IsSaved, Landed
<1>11. /\ mutation.url \in Urls /\ DOMAIN told = Urls
       /\ mutation.kind \in {"add", "remove", "enable", "disable"}
  BY <1>4, ToldFacts DEF Mutations, KindsOK
<1>12. told' = IF Head(replies).error # "" THEN told
               ELSE [told EXCEPT ![mutation.url] = Wanted(mutation.kind)]
  BY <1>1 DEF MutationCompleted, Wanted
<1>13. KindsOK'
  BY <1>2, <1>4, <1>12, ToldFacts DEF KindsOK
<1>14. ASSUME SaidOfDisk PROVE SaidOfDisk'
  <2>1. Writing(job') => WriteSays'
    BY <1>1, <1>2, <1>14 DEF SaidOfDisk, WriteSays
  <2>2. CASE Head(replies).error # ""
    <3>1. \A u \in Urls : Intact(u)
      BY <1>10, <1>14, <2>2 DEF SaidOfDisk
    <3>2. \A u \in Urls : Intact(u)'
      BY <1>2, <1>12, <2>2, <3>1 DEF Intact
    <3> QED
      BY <1>10, <2>1, <3>2 DEF SaidOfDisk
  <2>3. CASE Head(replies).error = ""
    <3>1. /\ StatusIn(Now, mutation.url) = Wanted(mutation.kind)
          /\ \A u \in Urls : u # mutation.url => Intact(u)
      BY <1>10, <1>14, <2>3 DEF SaidOfDisk
    <3>2. /\ told'[mutation.url] = Wanted(mutation.kind)
          /\ \A u \in Urls : u # mutation.url => told'[u] = told[u]
      BY <1>11, <1>12, <2>3
    <3>3. \A u \in Urls : Intact(u)'
      BY <1>2, <3>1, <3>2 DEF Intact
    <3> QED
      BY <1>10, <2>1, <3>3 DEF SaidOfDisk
  <2> QED
    BY <2>2, <2>3
<1> QED
  BY <1>7, <1>8, <1>13, <1>14, ToldFacts DEF ToldInv

\* A user whose profile or process is gone is no longer told of the change in
\* hand; what was said of the others stays.
LEMMA ForgetTells ==
  ASSUME ToldInv, Idle, Now' = Now
  PROVE  /\ mutation' = None /\ phase' = "idle" /\ DOMAIN told' = Urls
         /\ \A u \in Urls : told'[u] = IF mutation # None /\ mutation.url = u
                                         THEN None ELSE told[u]
         /\ SaidOfDisk => \A u \in Urls : Intact(u)'
<1>1. /\ mutation' = None /\ phase' = "idle" /\ DOMAIN told' = Urls
      /\ \A u \in Urls : told'[u] = IF mutation # None /\ mutation.url = u
                                      THEN None ELSE told[u]
  BY DEF Idle, Forget
<1>2. ASSUME SaidOfDisk, NEW u \in Urls PROVE Intact(u)'
  <2>1. Intact(u) \/ (mutation # None /\ mutation.url = u)
    BY <1>2 DEF SaidOfDisk
  <2> QED
    BY <1>1, <2>1 DEF Intact
<1> QED
  BY <1>1, <1>2

LEMMA OrphansDead ==
  ASSUME NEW q, IsQueue(q)
  PROVE  /\ DOMAIN Orphaned(q) = DOMAIN q
         /\ \A i \in DOMAIN q : ~Orphaned(q)[i].live
<1>1. DOMAIN Orphaned(q) = DOMAIN q
  BY DEF Orphaned
<1>2. ASSUME NEW i \in DOMAIN q PROVE ~Orphaned(q)[i].live
  <2>1. "live" \in DOMAIN q[i]
    BY DEF IsQueue
  <2>2. Orphaned(q)[i] = [q[i] EXCEPT !.live = FALSE]
    BY DEF Orphaned
  <2> QED
    BY <2>1, <2>2
<1> QED
  BY <1>1, <1>2

\* A task left behind says what it said, but to nobody.
LEMMA OrphanSays ==
  ASSUME NEW t, NEW o, NEW said, NEW m, TaskSays(t, m, told),
         o.kind = t.kind, ~o.live, DOMAIN o = DOMAIN t,
         \A f \in DOMAIN t : f # "live" => o[f] = t[f],
         \A u \in Urls : said[u] = IF m # None /\ m.url = u THEN None ELSE told[u]
  PROVE  /\ IsChange(o) <=> IsChange(t)
         /\ IsChange(t) => ChangedUrl(o) = ChangedUrl(t) /\ WantedOf(o) = WantedOf(t)
         /\ \A n : TaskSays(o, n, said)
<1>1. IsChange(o) <=> IsChange(t)
  BY DEF IsChange
<1>2. ASSUME IsChange(t)
      PROVE  ChangedUrl(o) = ChangedUrl(t) /\ WantedOf(o) = WantedOf(t)
  <2>1. /\ t.kind = "add" => o.url = t.url
        /\ t.kind # "add" => o.change = t.change
    BY <1>2 DEF TaskSays
  <2> QED
    BY <2>1 DEF ChangedUrl, WantedOf
<1>3. ASSUME IsChange(t), NEW n PROVE TaskSays(o, n, said)
  <2>1. /\ IF t.kind = "add" THEN "url" \in DOMAIN t
           ELSE "change" \in DOMAIN t /\ t.change.kind \in {"remove", "enable", "disable"}
        /\ ChangedUrl(t) \in Urls
        /\ t.live => m # None /\ m.url = ChangedUrl(t)
        /\ ~t.live => told[ChangedUrl(t)] = None
    BY <1>3 DEF TaskSays
  <2>2. said[ChangedUrl(t)] = None
    BY <2>1
  <2>3. IF o.kind = "add" THEN "url" \in DOMAIN o
        ELSE "change" \in DOMAIN o /\ o.change.kind \in {"remove", "enable", "disable"}
    BY <2>1
  <2> QED
    BY <1>2, <1>3, <2>1, <2>2, <2>3 DEF TaskSays
<1>4. ~IsChange(t) => \A n : TaskSays(o, n, said)
  BY <1>1 DEF TaskSays
<1> QED
  BY <1>1, <1>2, <1>3, <1>4

LEMMA DestroyedTells ==
  ASSUME ToldInv, UpdatesInv', TypesInv', used'.damages = 0 => used.damages = 0, ProfileDestroyed
  PROVE  ToldInv'
<1>1. /\ queue' = Orphaned(queue) /\ replies' = Orphaned(replies) /\ Idle
      /\ UNCHANGED storeVars
  BY DEF ProfileDestroyed
<1>2. /\ UNCHANGED <<gens, state, backup, job>> /\ Now' = Now
  BY <1>1 DEF storeVars, files, Now, ReadBaselineListStore, ReadState, ReadBaselineListGeneration
<1>3. /\ mutation' = None /\ phase' = "idle" /\ DOMAIN told' = Urls
      /\ \A u \in Urls : told'[u] = IF mutation # None /\ mutation.url = u
                                      THEN None ELSE told[u]
      /\ SaidOfDisk => \A u \in Urls : Intact(u)'
  BY <1>1, <1>2, ForgetTells
<1>4. IsQueue(queue) /\ IsQueue(replies)
  BY ToldFacts
<1>5. /\ DOMAIN queue' = DOMAIN queue /\ DOMAIN replies' = DOMAIN replies
      /\ \A i \in DOMAIN queue' : ~queue'[i].live
      /\ \A i \in DOMAIN replies' : ~replies'[i].live
  BY <1>1, <1>4, OrphansDead
<1>6. \A i \in DOMAIN queue : /\ queue'[i].kind = queue[i].kind
                              /\ DOMAIN queue'[i] = DOMAIN queue[i]
                              /\ \A f \in DOMAIN queue[i] :
                                    f # "live" => queue'[i][f] = queue[i][f]
  BY <1>1, <1>4, QueueOrphaned
<1>7. \A i \in DOMAIN queue : TaskSays(queue[i], mutation, told)
  BY ToldFacts
<1>8. \A i \in DOMAIN queue :
        /\ IsChange(queue'[i]) <=> IsChange(queue[i])
        /\ IsChange(queue[i]) => /\ ChangedUrl(queue'[i]) = ChangedUrl(queue[i])
                                 /\ WantedOf(queue'[i]) = WantedOf(queue[i])
        /\ TaskSays(queue'[i], mutation', told')
  <2> TAKE i \in DOMAIN queue
  <2>1. ~queue'[i].live
    BY <1>5
  <2> QED
    BY <1>3, <1>6, <1>7, <2>1, OrphanSays
<1>9. job # None => /\ 1 \in DOMAIN queue /\ Head(queue) = queue[1]
                    /\ Head(queue') = queue'[1]
  <2>1. queue # <<>> => queue' # <<>> /\ IsQueue(queue')
    BY <1>1, <1>4, QueueOrphaned
  <2>2. queue' # <<>> /\ IsQueue(queue') => Head(queue') = queue'[1]
    BY QueueEnds
  <2> QED
    BY <2>1, <2>2, ToldFacts, WriterAlone
<1>10. ~Landed'
  BY <1>2, <1>5, <1>8, <1>9 DEF Landed, Publishes, Saved, IsSaved
<1>11. SaidOfDisk => (Writing(job') => WriteSays')
  <2>1. ASSUME SaidOfDisk, Writing(job') PROVE WriteSays'
    <3>1. /\ job.previous = Now
          /\ \A u \in Urls :
               StatusIn(job.target, u) =
                 IF IsChange(queue[1]) /\ ChangedUrl(queue[1]) = u
                   THEN WantedOf(queue[1]) ELSE StatusIn(Now, u)
      BY <1>2, <1>9, <2>1 DEF SaidOfDisk, Writing, WriteSays
    <3>2. /\ 1 \in DOMAIN queue /\ Head(queue') = queue'[1]
      BY <1>2, <1>9, <2>1 DEF Writing
    <3> QED
      BY <1>2, <1>8, <3>1, <3>2 DEF WriteSays
  <2> QED
    BY <2>1
<1>12. SaidOfDisk => SaidOfDisk'
  BY <1>3, <1>10, <1>11 DEF SaidOfDisk
<1>13. KindsOK'
  BY <1>2, <1>3, ToldFacts DEF KindsOK
<1>14. LeftFirst(queue', replies')
  BY <1>5 DEF LeftFirst
<1> QED
  BY <1>5, <1>8, <1>12, <1>13, <1>14, ToldFacts DEF ToldInv

LEMMA RestartTells ==
  ASSUME ToldInv, UpdatesInv', TypesInv', used'.damages = 0 => used.damages = 0, ProcessRestarts
  PROVE  ToldInv'
<1>1. /\ queue' = <<>> /\ replies' = <<>> /\ Idle /\ job' = None
      /\ UNCHANGED files
  BY DEF ProcessRestarts, Restart
<1>2. /\ UNCHANGED <<gens, state, backup>> /\ Now' = Now
  BY <1>1 DEF files, Now, ReadBaselineListStore, ReadState, ReadBaselineListGeneration
<1>3. /\ mutation' = None /\ phase' = "idle" /\ DOMAIN told' = Urls
      /\ SaidOfDisk => \A u \in Urls : Intact(u)'
  BY <1>1, <1>2, ForgetTells
<1>4. ~Landed' /\ ~Writing(job')
  BY <1>1, NoMessages DEF Landed, Publishes, Saved, Writing
<1>5. SaidOfDisk => SaidOfDisk'
  BY <1>3, <1>4 DEF SaidOfDisk
<1>6. KindsOK'
  BY <1>1, <1>2, <1>3, ToldFacts DEF KindsOK
<1>7. LeftFirst(queue', replies') /\ DOMAIN queue' = {}
  BY <1>1, NoMessages DEF LeftFirst
<1> QED
  BY <1>5, <1>6, <1>7, ToldFacts DEF ToldInv

\* The worker answers, and publishes nothing.
LEMMA AnswerTells ==
  ASSUME ToldInv, UpdatesInv', TypesInv', used'.damages = 0 => used.damages = 0,
         UNCHANGED <<files, uiVars, told>>, job' = None,
         queue # <<>>, NEW m, Reply(m), {"kind", "live"} \subseteq DOMAIN m,
         m.live = Head(queue).live,
         IsSaved(m) <=> Publishes(job, Head(queue))
  PROVE  ToldInv'
<1>1. /\ replies' = Append(replies, m) /\ queue' = Tail(queue)
      /\ UNCHANGED <<phase, mutation>>
  BY DEF Reply, uiVars
<1>2. UNCHANGED <<gens, state, backup>> /\ Now' = Now
  BY DEF files, Now, ReadBaselineListStore, ReadState, ReadBaselineListGeneration
<1>3. LeftFirst(queue', replies')
  BY <1>1, ToldFacts, LeftPasses
<1>4. \A i \in DOMAIN queue' : TaskSays(queue'[i], mutation', told')
  <2>1. \A i \in DOMAIN queue' : i + 1 \in DOMAIN queue /\ queue'[i] = queue[i + 1]
    BY <1>1, ToldFacts, QueueEnds
  <2> QED
    BY <1>1, <2>1, ToldFacts
<1>5. Landed' <=> Landed
  <2>1. Saved(replies') <=> Saved(replies) \/ IsSaved(m)
    BY <1>1, ToldFacts, SavedGrows
  <2> QED
    BY <2>1 DEF Landed, Publishes
<1>6. KindsOK'
  BY <1>1, <1>2, ToldFacts DEF KindsOK
<1>7. SaidOfDisk => SaidOfDisk'
  BY <1>1, <1>2, <1>5, SaysSame DEF Writing
<1> QED
  BY <1>3, <1>4, <1>6, <1>7, ToldFacts DEF ToldInv

LEMMA ReadsTell ==
  ASSUME ToldInv, UpdatesInv', TypesInv', used'.damages = 0 => used.damages = 0, WorkerReads
  PROVE  ToldInv'
<1>1. job = None /\ UNCHANGED <<storeVars, uiVars, told>>
  BY DEF WorkerReads
<1>2. UNCHANGED files /\ job' = None
  BY <1>1 DEF storeVars
<1>3. PICK m : /\ Reply(m) /\ {"kind", "live"} \subseteq DOMAIN m
               /\ m.live = Head(queue).live /\ m.kind \in {"refresh", "plan", "parse"}
               /\ queue # <<>>
  <2>1. CASE \E t \in CheckedTimes :
               Reply([kind |-> "refresh", live |-> Head(queue).live, due |-> t])
    BY <2>1 DEF WorkerReads, Working
  <2>2. CASE \E urls : Reply([kind |-> "plan", live |-> Head(queue).live, enabled |-> urls])
    BY <2>2 DEF WorkerReads, Working
  <2>3. CASE \E ok : Reply([kind |-> "parse", live |-> Head(queue).live, ok |-> ok])
    BY <2>3 DEF WorkerReads, Working
  <2> QED
    BY <2>1, <2>2, <2>3 DEF WorkerReads
<1>4. ~IsSaved(m) /\ ~Publishes(job, Head(queue))
  BY <1>1, <1>3 DEF IsSaved, Publishes
<1> QED
  BY <1>1, <1>2, <1>3, <1>4, AnswerTells

\* A write begins that says, but for its own change, what was said.
LEMMA WriteTells ==
  ASSUME ToldInv, UpdatesInv', TypesInv', used' = used, job = None, UNCHANGED <<uiVars, told, queue, replies>>,
         NEW g \in Generation, NEW t, NEW w, BeginWrite(g, t, w),
         \A u \in Urls :
            StatusIn(g, u) =
              IF IsChange(Head(queue)) /\ ChangedUrl(Head(queue)) = u
                THEN WantedOf(Head(queue)) ELSE StatusIn(Now, u)
  PROVE  ToldInv'
<1>1. /\ UNCHANGED <<gens, state, backup, mutation, phase>>
      /\ job'.target = g /\ job'.previous = Now /\ job'.at = FirstStep(g)
  BY DEF BeginWrite, NewJob, files, uiVars, Now
<1>2. Now' = Now
  BY <1>1 DEF Now, ReadBaselineListStore, ReadState, ReadBaselineListGeneration
<1>3. FirstStep(g) \notin {"prune", "done"}
  BY DEF FirstStep
<1>4. Landed' <=> Landed
  BY <1>1, <1>3 DEF Landed, Publishes
<1>5. WriteSays'
  BY <1>1, <1>2 DEF WriteSays
<1>6. KindsOK'
  BY <1>1, ToldFacts DEF KindsOK
<1>7. \A u : Intact(u)' <=> Intact(u)
  BY <1>2 DEF Intact
<1>8. SaidOfDisk => SaidOfDisk'
  BY <1>1, <1>2, <1>4, <1>5, <1>7 DEF SaidOfDisk
<1> QED
  BY <1>1, <1>6, <1>8, ToldFacts DEF ToldInv

LEMMA WritesBegin ==
  ASSUME ToldInv, UpdatesInv', TypesInv', used'.damages = 0 => used.damages = 0, WorkerBegins
  PROVE  ToldInv'
<1>1. job = None /\ UNCHANGED <<uiVars, told, used>>
  BY DEF WorkerBegins
<1>2. ASSUME queue # <<>>, UNCHANGED storeVars, NEW m, Reply(m), m.live = Head(queue).live,
             {"kind", "live"} \subseteq DOMAIN m, ~IsSaved(m)
      PROVE  ToldInv'
  <2>1. UNCHANGED files /\ job' = None /\ ~Publishes(job, Head(queue))
    BY <1>1, <1>2 DEF storeVars, Publishes
  <2> QED
    BY <1>1, <1>2, <2>1, AnswerTells
<1>3. CASE /\ Working("update")
           /\ \E checked \in CheckedTimes :
              LET u == UpdateFilterLists(Head(queue), checked)
              IN  \/ /\ u.changed
                     /\ BeginWrite(u.lists, u.checked, u.clean)
                     /\ UNCHANGED <<queue, replies>>
                  \/ /\ ~u.changed
                     /\ UpdateReply(FALSE)
                     /\ UNCHANGED storeVars
  <2>1. PICK checked \in CheckedTimes :
          \/ /\ BeginWrite(UpdateFilterLists(Head(queue), checked).lists,
                           UpdateFilterLists(Head(queue), checked).checked,
                           UpdateFilterLists(Head(queue), checked).clean)
             /\ UNCHANGED <<queue, replies>>
          \/ UpdateReply(FALSE) /\ UNCHANGED storeVars
    BY <1>3
  <2>2. queue # <<>> /\ Head(queue).kind = "update"
    BY <1>3 DEF Working
  <2>3. CASE UpdateReply(FALSE) /\ UNCHANGED storeVars
    <3> DEFINE m == [kind |-> "update", live |-> Head(queue).live, ok |-> FALSE]
    <3>1. /\ Reply(m) /\ m.live = Head(queue).live /\ {"kind", "live"} \subseteq DOMAIN m
          /\ ~IsSaved(m)
      BY <2>3 DEF UpdateReply, IsSaved
    <3> QED
      BY <1>2, <2>2, <2>3, <3>1
  <2>4. CASE /\ BeginWrite(UpdateFilterLists(Head(queue), checked).lists,
                           UpdateFilterLists(Head(queue), checked).checked,
                           UpdateFilterLists(Head(queue), checked).clean)
             /\ UNCHANGED <<queue, replies>>
    <3>1. PICK t, w, g : BeginWrite(g, t, w) /\ g = UpdateFilterLists(Head(queue), checked).lists
      BY <2>4
    <3>2. /\ g \in Generation
          /\ \A u : StatusIn(g, u) = StatusIn(Now, u)
      BY <3>1, ToldFacts, UpdateSays
    <3>3. ~IsChange(Head(queue))
      BY <2>2 DEF IsChange
    <3> QED
      BY <1>1, <2>4, <3>1, <3>2, <3>3, WriteTells
  <2> QED
    BY <2>1, <2>3, <2>4
<1>4. CASE /\ Working("add") \/ Working("change")
           /\ LET t == Head(queue)
              IN  \/ /\ Refusal(t) = ""
                     /\ \E checked \in CheckedTimes :
                           BeginWrite(Changed(t), checked, TRUE)
                     /\ UNCHANGED <<queue, replies>>
                  \/ /\ Refusal(t) # ""
                     /\ MutationReply(Refusal(t))
                     /\ UNCHANGED storeVars
  <2>1. queue # <<>> /\ IsChange(Head(queue))
    BY <1>4 DEF Working, IsChange
  <2>2. \/ /\ Refusal(Head(queue)) = ""
           /\ \E checked \in CheckedTimes : BeginWrite(Changed(Head(queue)), checked, TRUE)
           /\ UNCHANGED <<queue, replies>>
        \/ /\ Refusal(Head(queue)) # ""
           /\ MutationReply(Refusal(Head(queue)))
           /\ UNCHANGED storeVars
    BY <1>4
  <2>3. CASE /\ Refusal(Head(queue)) = ""
             /\ \E checked \in CheckedTimes : BeginWrite(Changed(Head(queue)), checked, TRUE)
             /\ UNCHANGED <<queue, replies>>
    <3>1. PICK checked \in CheckedTimes : BeginWrite(Changed(Head(queue)), checked, TRUE)
      BY <2>3
    <3>2. PICK t, g : t = Head(queue) /\ g = Changed(t)
      OBVIOUS
    <3>3. TaskSays(t, mutation, told)
      <4>1. 1 \in DOMAIN queue /\ Head(queue) = queue[1]
        BY <2>1, ToldFacts, QueueEnds
      <4> QED
        BY <3>2, <4>1, ToldFacts
    <3>4. /\ g \in Generation
          /\ \A u : StatusIn(g, u) =
                      IF ChangedUrl(t) = u THEN WantedOf(t) ELSE StatusIn(Now, u)
      BY <2>1, <2>3, <3>2, <3>3, ToldFacts, ChangeSays
    <3> QED
      BY <1>1, <2>1, <2>3, <3>1, <3>2, <3>4, WriteTells
  <2>4. CASE /\ Refusal(Head(queue)) # ""
             /\ MutationReply(Refusal(Head(queue)))
             /\ UNCHANGED storeVars
    <3> DEFINE m == [kind |-> "mutation", live |-> Head(queue).live,
                     error |-> Refusal(Head(queue))]
    <3>1. /\ Reply(m) /\ m.live = Head(queue).live /\ {"kind", "live"} \subseteq DOMAIN m
          /\ ~IsSaved(m)
      BY <2>4 DEF MutationReply, IsSaved
    <3> QED
      BY <1>2, <2>1, <2>4, <3>1
  <2> QED
    BY <2>2, <2>3, <2>4
<1> QED
  BY <1>3, <1>4 DEF WorkerBegins

LEMMA ReturnsTell ==
  ASSUME ToldInv, UpdatesInv', TypesInv', used'.damages = 0 => used.damages = 0, WorkerReturns
  PROVE  ToldInv'
<1>1. /\ job # None /\ job.at \in {"done", "failed"} /\ job' = None
      /\ UNCHANGED <<files, uiVars, told>>
  BY DEF WorkerReturns
<1>2. queue # <<>> /\ Head(queue).kind \in {"update", "add", "change"}
  BY <1>1, ToldFacts, WriterAlone
<1>3. CASE Working("update")
  <2> DEFINE m == [kind |-> "update", live |-> Head(queue).live,
                   ok |-> job.at = "done" /\ job.clean]
  <2>1. Reply(m) /\ Head(queue).kind = "update"
    BY <1>3 DEF WorkerReturns, UpdateReply, Working
  <2>2. /\ m.live = Head(queue).live /\ {"kind", "live"} \subseteq DOMAIN m
        /\ ~IsSaved(m) /\ ~Publishes(job, Head(queue))
    BY <2>1 DEF IsSaved, Publishes, IsChange
  <2> HIDE DEF m
  <2> QED
    BY <1>1, <1>2, <2>1, <2>2, AnswerTells
<1>4. CASE ~Working("update")
  <2> DEFINE m == [kind |-> "mutation", live |-> Head(queue).live,
                   error |-> IF job.at = "done" THEN "" ELSE "list-save-failed"]
  <2>1. Reply(m) /\ IsChange(Head(queue))
    BY <1>2, <1>4 DEF WorkerReturns, MutationReply, Working, IsChange
  <2>2. /\ m.live = Head(queue).live /\ {"kind", "live"} \subseteq DOMAIN m
        /\ IsSaved(m) <=> Publishes(job, Head(queue))
    BY <1>1, <2>1 DEF IsSaved, Publishes
  <2> HIDE DEF m
  <2> QED
    BY <1>1, <1>2, <2>1, <2>2, AnswerTells
<1> QED
  BY <1>3, <1>4

\* A step of a write that leaves the first pointer alone.
LEMMA StepTells ==
  ASSUME ToldInv, UpdatesInv', TypesInv', used'.damages = 0 => used.damages = 0,
         UNCHANGED <<uiVars, told, queue, replies>>,
         DOMAIN gens' \subseteq Generation, job # None, job' # None,
         job'.target = job.target, job'.previous = job.previous,
         Writing(job') => Writing(job),
         Publishes(job', Head(queue)) <=> Publishes(job, Head(queue)),
         used'.damages = 0 /\ SaidOfDisk => Now' = Now
  PROVE  ToldInv'
<1>1. UNCHANGED <<phase, mutation>>
  BY DEF uiVars
<1>2. Landed' <=> Landed
  BY DEF Landed
<1>3. used'.damages = 0 /\ SaidOfDisk => SaidOfDisk'
  BY <1>1, <1>2, SaysSame
<1>4. KindsOK'
  BY <1>1, ToldFacts DEF KindsOK
<1> QED
  BY <1>1, <1>3, <1>4, ToldFacts DEF ToldInv

\* The files of a generation are written or removed.
LEMMA FilesTell ==
  ASSUME ToldInv, UpdatesInv', TypesInv', used' = used,
         UNCHANGED <<uiVars, told, queue, replies>>,
         DeleteCorrupt \/ MoveDirectory \/ Prune
  PROVE  ToldInv'
<1>1. /\ UNCHANGED <<state, backup>> /\ job # None
      /\ \E step \in Steps :
           /\ Goto(step)
           /\ \/ step = "fill" /\ job.at = "delete"
              \/ step = "backup" /\ job.at = "fill"
              \/ step = "done" /\ job.at = "prune"
  BY DEF DeleteCorrupt, MoveDirectory, Prune, Steps
<1>2. PICK step \in Steps :
        /\ Goto(step)
        /\ \/ step = "fill" /\ job.at = "delete"
           \/ step = "backup" /\ job.at = "fill"
           \/ step = "done" /\ job.at = "prune"
  BY <1>1
<1>3. /\ job' # None /\ job'.at = step
      /\ job'.target = job.target /\ job'.previous = job.previous
  BY <1>1, <1>2, StepFields
<1>4. DOMAIN gens' \subseteq Generation
  <2>1. job.target \in Generation /\ DOMAIN gens \subseteq Generation
    BY <1>1, <1>2, ToldFacts, StepFields
  <2>2. DOMAIN gens' \subseteq DOMAIN gens \cup {job.target}
    BY DEF DeleteCorrupt, MoveDirectory, Prune
  <2> QED
    BY <2>1, <2>2
<1>5. used'.damages = 0 => Now' = Now
  <2>1. DiskInv /\ DiskInv'
    BY ToldFacts DEF UpdatesInv
  <2> QED
    BY <1>1, <1>4, <2>1, ToldFacts, NowStays
<1>6. /\ Writing(job') => Writing(job)
      /\ Publishes(job', Head(queue)) <=> Publishes(job, Head(queue))
  BY <1>1, <1>2, <1>3 DEF Writing, Publishes
<1> QED
  BY <1>1, <1>3, <1>4, <1>5, <1>6, StepTells

LEMMA FailTells ==
  ASSUME ToldInv, UpdatesInv', TypesInv', used'.damages = 0 => used.damages = 0,
         UNCHANGED <<uiVars, told, queue, replies>>, WriteFails
  PROVE  ToldInv'
<1>1. /\ UNCHANGED <<gens, state, backup>> /\ job # None /\ Goto("failed")
      /\ job.at \in {"delete", "fill", "backup", "state"}
  BY DEF WriteFails, files
<1>2. /\ job' # None /\ job'.at = "failed"
      /\ job'.target = job.target /\ job'.previous = job.previous
      /\ job.previous \in Generation \cup {None} /\ job.rollback \in Generation \cup {None}
      /\ job.target \in Generation /\ job.checked \in Times
  BY <1>1, StepFields DEF Steps
<1>3. Now' = Now
  BY <1>1 DEF Now, ReadBaselineListStore, ReadState, ReadBaselineListGeneration
<1>4. /\ Writing(job') => Writing(job)
      /\ Publishes(job', Head(queue)) <=> Publishes(job, Head(queue))
  BY <1>1, <1>2 DEF Writing, Publishes
<1>5. DOMAIN gens' \subseteq Generation
  BY <1>1, ToldFacts
<1> QED
  BY <1>1, <1>2, <1>3, <1>4, <1>5, StepTells

\* The second pointer is given what a start would read.
LEMMA BackupTells ==
  ASSUME ToldInv, UpdatesInv', TypesInv', used' = used,
         UNCHANGED <<uiVars, told, queue, replies>>, WriteBackup
  PROVE  ToldInv'
<1>1. /\ UNCHANGED <<gens, state>> /\ job # None /\ Goto("state") /\ job.at = "backup"
      /\ backup' = IF job.previous = None THEN backup
                   ELSE [current |-> job.previous, previous |-> job.rollback,
                         checked |-> None]
  BY DEF WriteBackup
<1>2. /\ job' # None /\ job'.at = "state"
      /\ job'.target = job.target /\ job'.previous = job.previous
      /\ job.previous \in Generation \cup {None} /\ job.rollback \in Generation \cup {None}
      /\ job.target \in Generation /\ job.checked \in Times
  BY <1>1, StepFields DEF Steps
<1>3. SaidOfDisk => Now' = Now
  <2>1. SUFFICES ASSUME SaidOfDisk PROVE Now' = Now
    OBVIOUS
  <2>2. job.previous = Now
    BY <1>1, <2>1 DEF SaidOfDisk, Writing, WriteSays
  <2>3. ReadState(state)' = ReadState(state)
    BY <1>1 DEF ReadState, ReadBaselineListGeneration
  <2>4. CASE backup' = backup \/ ReadState(state) # None
    <3>1. backup' = backup => ReadState(backup)' = ReadState(backup)
      BY <1>1 DEF ReadState, ReadBaselineListGeneration
    <3> QED
      BY <2>3, <2>4, <3>1 DEF Now, ReadBaselineListStore
  <2>5. CASE backup' # backup /\ ReadState(state) = None
    <3>1. PICK p : p = job.previous
      OBVIOUS
    <3>2. p # None /\ p = Now /\ backup' # None /\ backup'.current = p
      <4>1. p # None
        BY <1>1, <2>5, <3>1
      <4>2. backup'.current = p
        BY <1>1, <3>1, <4>1
      <4>3. backup' # None
        BY <1>1, <1>2, <3>1, <4>1, PointersAre
      <4> QED
        BY <2>2, <3>1, <4>1, <4>2, <4>3
    <3>3. Reads(p) /\ Reads(p)'
      BY <1>1, <3>2, StoreReads, SameReads DEF Now
    <3>4. ReadState(backup)' = p
      BY <3>2, <3>3 DEF ReadState, Reads, ReadBaselineListGeneration
    <3> QED
      BY <2>3, <2>5, <3>2, <3>4 DEF Now, ReadBaselineListStore
  <2> QED
    BY <2>4, <2>5
<1>4. /\ Writing(job') => Writing(job)
      /\ Publishes(job', Head(queue)) <=> Publishes(job, Head(queue))
  BY <1>1, <1>2 DEF Writing, Publishes
<1>5. DOMAIN gens' \subseteq Generation
  BY <1>1, ToldFacts
<1> QED
  BY <1>1, <1>2, <1>3, <1>4, <1>5, StepTells

\* The first pointer is written: what it names says what the write was to say.
LEMMA StateTells ==
  ASSUME ToldInv, UpdatesInv', TypesInv', used' = used,
         UNCHANGED <<uiVars, told, queue, replies>>, WriteState
  PROVE  ToldInv'
<1>1. /\ UNCHANGED <<gens, backup, phase, mutation>>
      /\ job # None /\ Goto("prune") /\ job.at = "state"
      /\ state' = [current |-> job.target, previous |-> job.rollback, checked |-> job.checked]
  BY DEF WriteState, uiVars
<1>2. /\ job' # None /\ job'.at = "prune"
      /\ job'.target = job.target /\ job'.previous = job.previous
      /\ job.previous \in Generation \cup {None} /\ job.rollback \in Generation \cup {None}
      /\ job.target \in Generation /\ job.checked \in Times
  BY <1>1, StepFields DEF Steps
<1>3. KindsOK'
  BY <1>1, <1>2, ToldFacts DEF KindsOK
<1>4. /\ ~Saved(replies) /\ ~Landed
      /\ 1 \in DOMAIN queue /\ Head(queue) = queue[1]
  <2>1. /\ \A i \in DOMAIN replies : replies[i].live => replies[i].kind = "refresh"
        /\ 1 \in DOMAIN queue /\ Head(queue) = queue[1]
    BY <1>1, ToldFacts, WriterAlone
  <2> QED
    BY <1>1, <2>1 DEF Saved, IsSaved, Landed, Publishes
<1>5. ASSUME used'.damages = 0, SaidOfDisk PROVE SaidOfDisk'
  <2>1. Reads(job.target)
    BY <1>1, <1>5, ToldFacts DEF DiskInv, Undamaged, WriteOK
  <2>2. PICK g : g = job.target
    OBVIOUS
  <2>3. g \in Generation /\ g # None /\ Reads(g)'
    BY <1>1, <1>2, <2>1, <2>2, NoneAssumption, SameReads
  <2>4. state' # None /\ state'.current = g
    BY <1>1, <1>2, <2>2, PointersAre
  <2>5. Now' = g
    BY <2>3, <2>4 DEF Now, ReadBaselineListStore, ReadState, Reads, ReadBaselineListGeneration
  <2>6. /\ \A u \in Urls :
             StatusIn(g, u) =
               IF IsChange(queue[1]) /\ ChangedUrl(queue[1]) = u
                 THEN WantedOf(queue[1]) ELSE StatusIn(Now, u)
        /\ \A u \in Urls : Intact(u)
    BY <1>1, <1>4, <1>5, <2>2 DEF SaidOfDisk, Writing, WriteSays
  <2>7. ~Writing(job')
    BY <1>2 DEF Writing
  <2>8. Landed' <=> IsChange(queue[1]) /\ queue[1].live
    BY <1>2, <1>4 DEF Landed, Publishes
  <2>9. TaskSays(queue[1], mutation, told)
    BY <1>4, ToldFacts
  <2>10. ASSUME Landed'
         PROVE  mutation' # None /\ StatusIn(g, mutation'.url) = Wanted(mutation'.kind)
    BY <1>1, <2>6, <2>8, <2>9, <2>10 DEF TaskSays
  <2>11. ASSUME NEW u \in Urls PROVE Intact(u)' \/ (Landed' /\ mutation'.url = u)
    <3>1. CASE IsChange(queue[1]) /\ ChangedUrl(queue[1]) = u
      BY <1>1, <2>8, <2>9, <3>1 DEF TaskSays, Intact
    <3>2. CASE ~(IsChange(queue[1]) /\ ChangedUrl(queue[1]) = u)
      BY <2>5, <2>6, <3>2 DEF Intact
    <3> QED
      BY <3>1, <3>2
  <2> QED
    BY <2>5, <2>7, <2>10, <2>11 DEF SaidOfDisk
<1> QED
  BY <1>1, <1>3, <1>5, ToldFacts DEF ToldInv

\* The steps of a write.
LEMMA WritesTell ==
  ASSUME ToldInv, UpdatesInv', TypesInv', used'.damages = 0 => used.damages = 0, WorkerWrites
  PROVE  ToldInv'
<1>1. UNCHANGED <<uiVars, told, queue, replies>>
  BY DEF WorkerWrites
<1>2. CASE WriteStep /\ used' = used
  <2>1. CASE DeleteCorrupt \/ MoveDirectory \/ Prune
    BY <1>1, <1>2, <2>1, FilesTell
  <2>2. CASE WriteBackup
    BY <1>1, <1>2, <2>2, BackupTells
  <2>3. CASE WriteState
    BY <1>1, <1>2, <2>3, StateTells
  <2> QED
    BY <1>2, <2>1, <2>2, <2>3 DEF WriteStep
<1>3. CASE WriteFails
  BY <1>1, <1>3, FailTells
<1> QED
  BY <1>2, <1>3 DEF WorkerWrites

\* Once a file was damaged nothing is promised.
LEMMA DamageTells ==
  ASSUME ToldInv, UpdatesInv', TypesInv', Damage
  PROVE  ToldInv'
<1>1. UNCHANGED <<uiVars, queue, replies, told>> /\ Spend("damages")
  BY DEF Damage
<1>2. used'.damages # 0
  <2>1. "damages" \in Troubles /\ used \in [Troubles -> Nat]
    BY ToldFacts DEF Troubles, DiskInv
  <2>2. used.damages \in Nat /\ used'.damages = used.damages + 1
    BY <1>1, <2>1 DEF Spend
  <2> QED
    BY <2>2
<1>3. phase' = phase /\ mutation' = mutation
  BY <1>1 DEF uiVars
<1> QED
  BY <1>1, <1>2, <1>3, ToldFacts DEF ToldInv, KindsOK

\* The worker is idle when time goes on, and a start does not read the times.
LEMMA TimeTells ==
  ASSUME ToldInv, UpdatesInv', TypesInv', used'.damages = 0 => used.damages = 0,
         Tick \/ ClockSetBack
  PROVE  ToldInv'
<1>1. /\ UNCHANGED <<gens, backup, job, phase, mutation, queue, replies, told>>
      /\ queue = <<>>
      /\ state = None => state' = None
      /\ state # None => state' \in {[state EXCEPT !.checked = Older(@)],
                                     [state EXCEPT !.checked = Younger(@)]}
  BY DEF Tick, ClockSetBack, Shift, ShiftFiles, AtRest
<1>2. job = None
  BY <1>1, ToldFacts, UpdatesFacts DEF JobIsHeads
<1>3. state # None => /\ state' # None /\ state'.current = state.current
                      /\ state'.previous = state.previous
  <2>1. ASSUME state # None PROVE state' # None /\ state'.current = state.current
                                  /\ state'.previous = state.previous
    <3>1. state \in Pointer
      BY <2>1, ToldFacts DEF TypesInv, ListsTypeOK, StoreTypeOK
    <3>2. state.checked \in Times \cup {None}
      BY <3>1 DEF Pointer
    <3>3. PICK o, y : o = Older(state.checked) /\ y = Younger(state.checked)
      OBVIOUS
    <3>4. o \in Times \cup {None} /\ y \in Times \cup {None}
      BY <3>2, <3>3, TimesMove, TimesAre DEF IsTime
    <3>5. state' \in {[state EXCEPT !.checked = o], [state EXCEPT !.checked = y]}
      BY <1>1, <2>1, <3>3
    <3>6. /\ state' \in Pointer /\ state'.current = state.current
          /\ state'.previous = state.previous
      BY <3>1, <3>4, <3>5 DEF Pointer
    <3> QED
      BY <3>6, NoneAssumption
  <2> QED
    BY <2>1
<1>4. DOMAIN gens \subseteq Generation
  BY ToldFacts
<1>5. ASSUME used'.damages = 0 PROVE SaidOfDisk'
  <2>1. Now' = Now
    BY <1>1, <1>3, <1>4, <1>5, ToldFacts, UpdatesFacts, NowStays DEF UpdatesInv
  <2>2. ~Writing(job') /\ (Landed' <=> Landed)
    BY <1>1, <1>2 DEF Writing, Landed, Publishes
  <2> QED
    BY <1>1, <1>5, <2>1, <2>2, ToldFacts, SaysSame
<1> QED
  BY <1>1, <1>5, ToldFacts DEF ToldInv, KindsOK

LEMMA ToldStarts == ListsInit => ToldInv
<1> SUFFICES ASSUME ListsInit PROVE ToldInv
  OBVIOUS
<1>1. /\ alive = FALSE /\ timer = None /\ task = "start" /\ due = 0 /\ phase = "idle"
      /\ originals = NoText /\ todo = {} /\ downloads = NoDownloads /\ catalog = None
      /\ mutation = None /\ checks = [c \in Checks |-> "unused"]
      /\ queue = <<>> /\ replies = <<>> /\ told = [u \in Urls |-> StatusOf(u)]
  BY DEF ListsInit
<1>2. PICK g \in Installed \cup {None} :
        /\ gens = [h \in {g} \ {None} |-> TRUE]
        /\ state = IF g = None THEN None
                   ELSE [current |-> g, previous |-> None, checked |-> 0]
        /\ running = g /\ backup = None /\ job = None
  BY DEF ListsInit, StoreInit
<1>3. UpdatesInv
  BY UpdatesStart
<1>4. g \in Generation \cup {None}
  BY InstalledAssumption
<1>5. StoreTypeOK
  <2>1. 0 \in Times \cup {None}
    BY TimesAre
  <2>2. state \in Pointer \cup {None}
    BY <1>2, <1>4, <2>1, PointersAre
  <2>3. DOMAIN gens \subseteq Generation /\ \A h \in DOMAIN gens : gens[h] \in BOOLEAN
    BY <1>2, <1>4
  <2> QED
    BY <1>2, <1>4, <2>2, <2>3 DEF StoreTypeOK
<1>6. UiTypeOK
  <2>1. "idle" \in Phases
    BY DEF Phases
  <2> QED
    BY <1>1, <2>1, NothingTyped DEF UiTypeOK, TodoOK
<1>7. DOMAIN queue = {} /\ DOMAIN replies = {}
  BY <1>1, NoMessages
<1>8. TypesInv
  BY <1>3, <1>5, <1>6, <1>7, TypesParts DEF PlansOK
<1>9. KindsOK /\ LeftFirst(queue, replies)
  BY <1>1, <1>7 DEF KindsOK, LeftFirst
<1>10. SaidOfDisk
  <2>1. ~Writing(job) /\ ~Landed
    BY <1>2, <1>7 DEF Writing, Landed, Publishes, Saved
  <2>2. \A u \in Urls : Intact(u)
    BY <1>1, <1>5, NowIsKept DEF Intact, StoreTypeOK
  <2> QED
    BY <2>1, <2>2 DEF SaidOfDisk
<1> QED
  BY <1>3, <1>7, <1>8, <1>9, <1>10 DEF ToldInv

LEMMA ToldSteps ==
  ASSUME ToldInv, [ListsNext]_listVars
  PROVE  ToldInv'
<1>1. UpdatesInv'
  BY ToldFacts, UpdatesSteps
<1>2. TypesInv'
  BY <1>1, TypesSteps
<1>3. used'.damages = 0 => used.damages = 0
  BY ToldFacts, DamagesGrow
<1>4. CASE MaybeCreate \/ TimerFires \/ \E c \in Checks : CheckNow(c)
  BY <1>1, <1>2, <1>3, <1>4, TimersTell
<1>5. CASE Network \/ RedirectRefused
  BY <1>1, <1>2, <1>3, <1>5, NetworkTells
<1>6. CASE Worker
  BY <1>1, <1>2, <1>3, <1>6, ReadsTell, WritesBegin, WritesTell, ReturnsTell DEF Worker
<1>7. CASE Replies
  BY <1>1, <1>2, <1>3, <1>7, RepliesTell, SavedTells DEF Replies
<1>8. CASE \E m \in Mutations : BeginMutation(m)
  BY <1>1, <1>2, <1>3, <1>8, BeginTells
<1>9. CASE ProfileDestroyed \/ ProcessRestarts
  BY <1>1, <1>2, <1>3, <1>9, DestroyedTells, RestartTells
<1>10. CASE Damage
  BY <1>1, <1>2, <1>10, DamageTells
<1>11. CASE Tick \/ ClockSetBack
  BY <1>1, <1>2, <1>3, <1>11, TimeTells
<1>12. CASE UNCHANGED listVars
  <2>1. /\ UNCHANGED <<gens, state, backup, job, phase, mutation, queue, replies, told>>
        /\ used' = used
    BY <1>12 DEF listVars, storeVars, files, uiVars
  <2>2. Now' = Now
    BY <2>1 DEF Now, ReadBaselineListStore, ReadState, ReadBaselineListGeneration
  <2>3. used'.damages = 0 => SaidOfDisk'
    BY <2>1, <2>2, ToldFacts, SaysSame DEF Landed
  <2> QED
    BY <1>1, <1>2, <2>1, <2>3, ToldFacts DEF ToldInv, KindsOK
<1> QED
  BY <1>4, <1>5, <1>6, <1>7, <1>8, <1>9, <1>10, <1>11, <1>12 DEF ListsNext

(* Whatever the user was told of a subscription is what a next start would *)
(* read, unless its change was just published and its answer is on its     *)
(* way: of the changes of a coordinator that went away the user is told    *)
(* nothing, and those reach the disk before any of the next coordinator's  *)
(* (MutationCompleted, the destructor, one sequenced worker).              *)
THEOREM ToldInductive == ListsSpec => []ToldInv
<1>1. ToldInv /\ [ListsNext]_listVars => ToldInv'
  BY ToldSteps
<1> QED
  BY ToldStarts, <1>1, PTL DEF ListsSpec

(* The store and the coordinator keep to their kinds: every generation and *)
(* pointer that is written is one the formats allow, and everything still  *)
(* to download is one of the downloads (filter_list_store.h,               *)
(* baseline_list_updater.h).                                               *)
THEOREM ListsTyped == ListsSpec => []ListsTypeOK
<1>1. ToldInv => ListsTypeOK
  BY ToldFacts DEF TypesInv
<1> QED
  BY <1>1, ToldInductive, PTL

LEMMA ToldSaved == ToldInv => ToldIsSaved
<1> SUFFICES ASSUME ToldInv, used.damages = 0, NEW u \in Urls
             PROVE  \/ told[u] = None
                    \/ mutation # None /\ mutation.url = u
                    \/ StatusOf(u) = told[u]
  BY DEF ToldIsSaved
<1>1. Intact(u) \/ (Landed /\ mutation.url = u)
  BY ToldFacts DEF SaidOfDisk
<1>2. Landed => mutation # None
  BY ToldFacts DEF SaidOfDisk
<1>3. StatusOf(u) = StatusIn(Now, u)
  BY ToldFacts, NowIsKept
<1> QED
  BY <1>1, <1>2, <1>3 DEF Intact

(* The user is told that a subscription was added, removed, enabled or     *)
(* disabled only when the lists a next start reads say so, through later   *)
(* updates, failed writes, restarts and the end of the profile             *)
(* (BaselineListUpdater::MutationCompleted).                               *)
THEOREM ToldHolds == ListsSpec => []ToldIsSaved
  BY ToldSaved, ToldInductive, PTL

-----------------------------------------------------------------------------
(* What the store promises *)

\* What a second pointer may name beside a first one.
Pairs(p, c, q) ==
  p # None /\ p.previous # None =>
    \/ c = p.current /\ q \in {p.current, p.previous, None}
    \/ c = p.previous /\ q \in {p.previous, None}

Chosen == IF state = None THEN None ELSE state.current
Spare == IF state = None \/ state.previous = state.current THEN None ELSE state.previous

\* What the pointers and a write name, whatever was damaged.
NamesOK ==
  /\ state # None => state.current # None
  /\ backup # None => backup.current # None
  /\ state # None /\ state.previous # None => backup # None
  /\ backup # None => Pairs(state, backup.current, backup.previous)
  /\ Writing(job) =>
       /\ ValidSet(job.target)
       /\ job.previous # job.target => job.rollback = job.previous
       /\ job.previous # None => Pairs(state, job.previous, job.rollback)
       /\ job.at = "delete" => ~Reads(job.target)
       /\ job.at = "state" /\ job.previous # None =>
            backup # None /\ backup.current = job.previous /\ backup.previous = job.rollback

\* The second pointer names nothing of its own.
BackupWithin == Named(backup) \subseteq {state.current, state.previous}

\* A write that began with the first pointer's selection, and its rollback.
FromCurrent(j) ==
  /\ j.previous = Chosen
  /\ j.previous = j.target =>
       j.rollback = IF state.previous = j.target THEN None ELSE state.previous

\* Nothing was damaged.
SoundOK ==
  /\ IF state = None THEN backup = None ELSE BackupWithin
  /\ Writing(job) => FromCurrent(job)

\* One file was: what the write under way found or made is it, or reads.
OnceOK ==
  /\ Writing(job) /\ job.previous # None /\ ~Reads(job.previous) =>
       state # None /\ FromCurrent(job) /\ BackupWithin
  /\ job # None /\ job.at \in {"backup", "state"} /\ ~Reads(job.target) =>
       /\ FromCurrent(job)
       /\ IF state = None THEN backup = None ELSE BackupWithin
       /\ \A g \in {job.previous, job.rollback} \ {None, job.target} : Reads(g)
  /\ job # None /\ job.at = "prune" =>
       /\ Named(state) \subseteq {job.target, job.rollback}
       /\ \/ Named(backup) \subseteq {job.target, job.rollback}
          \/ Reads(job.target) /\ state # None /\ state.current = job.target

FilesInv ==
  /\ NamesOK
  /\ used.damages = 0 => SoundOK
  /\ used.damages = 1 => OnceOK

\* What a start selects, of the generations that are whole.
First(p, S) ==
  IF p = None THEN None
  ELSE IF p.current \in S THEN p.current
  ELSE IF p.previous \in S THEN p.previous ELSE None
Select(p, q, S) == IF First(p, S) # None THEN First(p, S) ELSE First(q, S)
Whole == {g \in DOMAIN gens : Reads(g)}

Selected ==
  /\ Now = Select(state, backup, Whole)
  /\ AfterDamage = Select(state, backup, Whole \ {Now})
  /\ \A g : g \in Whole <=> Reads(g)

LEMMA Selects == Selected
<1>1. \A g : g \in Whole <=> Reads(g)
  BY DEF Whole, Reads, ReadBaselineListGeneration
<1>2. \A p : ReadState(p) = First(p, Whole)
  BY <1>1 DEF ReadState, First, Reads
<1>3. Now = Select(state, backup, Whole)
  BY <1>2 DEF Now, ReadBaselineListStore, Select
<1> DEFINE left == [g \in DOMAIN gens \ {ReadBaselineListStore} |-> gens[g]]
           Left(g) == g \in DOMAIN left /\ left[g] /\ ValidSet(g)
           LeftFirst0(p) == IF p = None THEN None
                            ELSE IF Left(p.current) THEN p.current
                            ELSE IF Left(p.previous) THEN p.previous ELSE None
<1>4. \A g : Left(g) <=> g \in Whole \ {Now}
  BY DEF Whole, Reads, ReadBaselineListGeneration, Now
<1>5. AfterDamage = IF LeftFirst0(state) # None THEN LeftFirst0(state) ELSE LeftFirst0(backup)
  BY DEF AfterDamage
<1> HIDE DEF left, Left
<1>6. \A p : LeftFirst0(p) = First(p, Whole \ {Now})
  BY <1>4 DEF First
<1> HIDE DEF LeftFirst0
<1>7. AfterDamage = Select(state, backup, Whole \ {Now})
  BY <1>5, <1>6 DEF Select
<1> QED
  BY <1>1, <1>3, <1>7 DEF Selected

LEMMA SelectsNext == Selected'
BY Selects, PTL

LEMMA SelectIn ==
  ASSUME NEW p, NEW q, NEW S, None \notin S
  PROVE  /\ Select(p, q, S) # None => Select(p, q, S) \in S \cap (Named(p) \cup Named(q))
         /\ Select(p, q, S) = None => S \cap (Named(p) \cup Named(q)) = {}
BY DEF Select, First, Named

LEMMA SelectFewer ==
  ASSUME NEW p, NEW q, NEW S, NEW T, None \notin S, T \subseteq S,
         Select(p, q, S) \in T \cup {None}
  PROVE  Select(p, q, T) = Select(p, q, S)
BY DEF Select, First

LEMMA SelectMore ==
  ASSUME NEW p, NEW q, NEW S, NEW g, None \notin S, g # None
  PROVE  Select(p, q, S \cup {g}) \in {Select(p, q, S), g}
BY DEF Select, First

LEMMA SelectNamed ==
  ASSUME NEW p, NEW q, NEW S, NEW T, None \notin S, None \notin T,
         S \cap (Named(p) \cup Named(q)) = T \cap (Named(p) \cup Named(q))
  PROVE  Select(p, q, S) = Select(p, q, T)
<1>1. \A g \in Named(p) \cup Named(q) : g \in S <=> g \in T
  OBVIOUS
<1> QED
  BY <1>1 DEF Select, First, Named

LEMMA SelectSame ==
  ASSUME NEW p, NEW q, NEW r, NEW S, p = None <=> r = None,
         p # None => r.current = p.current /\ r.previous = p.previous
  PROVE  Select(r, q, S) = Select(p, q, S)
BY DEF Select, First

DiskKinds ==
  /\ None \notin Whole /\ Whole \subseteq Generation
  /\ Now \in Whole \cup {None} /\ AfterDamage \in Whole \cup {None}
  /\ DiskInv
  /\ job # None => job.target # None /\ job.target \in Generation
  /\ \A g \in Whole : g \in Generation /\ ValidSet(g)

LEMMA DiskKindsHold == ToldInv => DiskKinds
<1> SUFFICES ASSUME ToldInv PROVE DiskKinds
  OBVIOUS
<1>1. DOMAIN gens \subseteq Generation /\ DiskInv /\ (job # None => job \in Job)
  BY ToldFacts
<1>2. None \notin Whole /\ Whole \subseteq Generation
  BY <1>1, NoneAssumption DEF Whole
<1>3. Now \in Whole \cup {None} /\ AfterDamage \in Whole \cup {None}
  BY <1>2, Selects, SelectIn DEF Selected
<1>4. job # None => job.target # None /\ job.target \in Generation
  BY <1>1, NoneAssumption DEF Job
<1>5. \A g \in Whole : g \in Generation /\ ValidSet(g)
  BY <1>2, Selects DEF Selected, Reads, ReadBaselineListGeneration
<1> QED
  BY <1>1, <1>2, <1>3, <1>4, <1>5 DEF DiskKinds

LEMMA DiskKindsNext == ToldInv' => DiskKinds'
BY DiskKindsHold, PTL

\* While nothing was damaged the first pointer alone says what is selected and
\* what is kept.
SoundChoice ==
  /\ Now = Chosen /\ AfterDamage = Spare
  /\ Named(state) \cup Named(backup) \subseteq Whole

LEMMA SoundSelects == DiskKinds /\ NamesOK /\ SoundOK /\ used.damages = 0 => SoundChoice
<1> SUFFICES ASSUME DiskKinds, NamesOK, SoundOK, used.damages = 0 PROVE SoundChoice
  OBVIOUS
<1>1. Named(state) \cup Named(backup) \subseteq Whole /\ None \notin Whole
  <2>1. \A g \in Named(state) \cup Named(backup) : Reads(g)
    BY DEF DiskKinds, DiskInv, Undamaged, Needed
  <2> QED
    BY <2>1, Selects DEF Selected, DiskKinds
<1>2. CASE state = None
  <2>1. backup = None
    BY <1>2 DEF SoundOK
  <2>2. \A S : Select(state, backup, S) = None
    BY <1>2, <2>1 DEF Select, First
  <2> QED
    BY <1>1, <1>2, <2>2, Selects DEF SoundChoice, Selected, Chosen, Spare
<1>3. CASE state # None
  <2>1. PICK c, p : c = state.current /\ p = state.previous
    OBVIOUS
  <2>2. c # None /\ c \in Whole /\ (p # None => p \in Whole) /\ Named(backup) \subseteq {c, p}
    BY <1>1, <1>3, <2>1 DEF NamesOK, SoundOK, BackupWithin, Named
  <2>3. Now = c
    BY <1>3, <2>1, <2>2, Selects DEF Selected, Select, First
  <2>4. CASE p # None /\ p # c
    <3>1. Select(state, backup, Whole \ {c}) = p
      BY <1>3, <2>1, <2>2, <2>4 DEF Select, First
    <3> QED
      BY <1>1, <1>3, <2>1, <2>3, <2>4, <3>1, Selects DEF SoundChoice, Selected, Chosen, Spare
  <2>5. CASE p = None \/ p = c
    <3>1. First(state, Whole \ {c}) = None
      BY <1>1, <1>3, <2>1, <2>5 DEF First
    <3>2. First(backup, Whole \ {c}) = None
      BY <1>1, <2>2, <2>5 DEF First, Named
    <3> QED
      BY <1>1, <1>3, <2>1, <2>3, <2>5, <3>1, <3>2, Selects DEF SoundChoice, Selected, Chosen, Spare, Select
  <2> QED
    BY <2>4, <2>5
<1> QED
  BY <1>2, <1>3

LEMMA SoundSelectsNext ==
  (DiskKinds /\ NamesOK /\ SoundOK /\ used.damages = 0)' => SoundChoice'
BY SoundSelects, PTL

\* A step that keeps the promise, or leaves it as it is.
KeepsPromise == [Promise!PromiseNext]_(Promise!promiseVars)

LEMMA Stutters ==
  ASSUME Now' = Now, AfterDamage' = AfterDamage, WriteInProgress' = WriteInProgress,
         used'.damages = used.damages
  PROVE  KeepsPromise
BY DEF KeepsPromise, Promise!promiseVars, Now

\* What is damaged is counted by Damage alone.
LEMMA DamagesSame ==
  ASSUME DiskInv, [ListsNext]_listVars
  PROVE  Damage \/ used'.damages = used.damages
<1>1. used \in [Troubles -> Nat] /\ {"faults", "mutations", "closes", "restarts", "shifts"} \subseteq Troubles
  BY DEF DiskInv, Troubles
<1>2. ASSUME NEW what \in {"faults", "mutations", "closes", "restarts", "shifts"}, Spend(what)
      PROVE  used'.damages = used.damages
  BY <1>1, <1>2 DEF Spend
<1>3. \/ Damage \/ used' = used
      \/ \E what \in {"faults", "mutations", "closes", "restarts", "shifts"} : Spend(what)
  <2>1. CASE MaybeCreate \/ TimerFires \/ Network \/ RedirectRefused
    BY <2>1 DEF MaybeCreate, TimerFires, Network, RedirectRefused
  <2>2. CASE Replies
    BY <2>2 DEF Replies, ReplyDropped, Refreshed, PlanLoaded, CatalogPlanLoaded,
                UpdatesInstalled, MutationSaved
  <2>3. CASE (\E c \in Checks : CheckNow(c)) \/ (\E m \in Mutations : BeginMutation(m))
             \/ ProfileDestroyed \/ ProcessRestarts
    BY <2>3 DEF CheckNow, BeginMutation, ProfileDestroyed, ProcessRestarts
  <2>4. CASE WorkerReads \/ WorkerBegins \/ WorkerWrites \/ WorkerReturns
    BY <2>4 DEF WorkerReads, WorkerBegins, WorkerWrites, WorkerReturns
  <2>5. CASE Tick \/ ClockSetBack \/ UNCHANGED listVars
    BY <2>5 DEF Tick, ClockSetBack, listVars
  <2> QED
    BY <2>1, <2>2, <2>3, <2>4, <2>5 DEF ListsNext, Worker
<1> QED
  BY <1>2, <1>3

\* Nothing on disk changes but the times, and nothing is written.
LEMMA SameFiles ==
  ASSUME FilesInv, \A g : Reads(g)' <=> Reads(g), backup' = backup,
         used'.damages = used.damages,
         state = None <=> state' = None,
         state # None => state'.current = state.current /\ state'.previous = state.previous
  PROVE  /\ Now' = Now /\ AfterDamage' = AfterDamage /\ Whole' = Whole
         /\ Named(state)' = Named(state) /\ Named(backup)' = Named(backup)
         /\ Chosen' = Chosen /\ (state # None => (BackupWithin' <=> BackupWithin))
         /\ \A c, q : Pairs(state, c, q)' <=> Pairs(state, c, q)
<1>1. Whole' = Whole
  <2>1. \A g : g \in Whole' <=> g \in Whole
    BY Selects, SelectsNext DEF Selected
  <2>2. Whole = {g \in Whole : TRUE} /\ Whole' = {g \in Whole' : TRUE}
    OBVIOUS
  <2> QED
    BY <2>1, <2>2
<1>2. Now' = Now
  <2>1. Now = Select(state, backup, Whole) /\ Now' = Select(state', backup', Whole')
    BY Selects, SelectsNext DEF Selected
  <2> QED
    BY <1>1, <2>1, SelectSame
<1>3. AfterDamage' = AfterDamage
  <2>1. /\ AfterDamage = Select(state, backup, Whole \ {Now})
        /\ AfterDamage' = Select(state', backup', Whole' \ {Now'})
    BY Selects, SelectsNext DEF Selected
  <2> QED
    BY <1>1, <1>2, <2>1, SelectSame
<1>4. /\ Named(state)' = Named(state) /\ Named(backup)' = Named(backup)
      /\ Chosen' = Chosen /\ (state # None => (BackupWithin' <=> BackupWithin))
      /\ \A c, q : Pairs(state, c, q)' <=> Pairs(state, c, q)
  BY DEF Named, Chosen, BackupWithin, Pairs
<1> QED
  BY <1>1, <1>2, <1>3, <1>4

LEMMA SameNames ==
  ASSUME FilesInv, \A g : Reads(g)' <=> Reads(g), backup' = backup,
         used'.damages = used.damages,
         state = None <=> state' = None,
         state # None => state'.current = state.current /\ state'.previous = state.previous,
         job' = job \/ job' = None \/ job'.at \in {"failed", "done"}
  PROVE  FilesInv'
<1> USE SameFiles
<1>1. CASE job' = job
  <2>1. NamesOK'
    BY <1>1 DEF FilesInv, NamesOK
  <2>2. SoundOK => SoundOK'
    BY <1>1 DEF SoundOK, FromCurrent
  <2>3. OnceOK => OnceOK'
    BY <1>1 DEF OnceOK, FromCurrent
  <2> QED
    BY <2>1, <2>2, <2>3 DEF FilesInv
<1>2. CASE job' = None \/ job'.at \in {"failed", "done"}
  <2>1. ~Writing(job') /\ (job' # None => job'.at \notin {"backup", "state", "prune"})
    BY <1>2 DEF Writing
  <2>2. NamesOK'
    BY <2>1 DEF FilesInv, NamesOK
  <2>3. SoundOK => SoundOK'
    BY <2>1 DEF SoundOK
  <2>4. OnceOK'
    BY <2>1 DEF OnceOK
  <2> QED
    BY <2>2, <2>3, <2>4 DEF FilesInv
<1> QED
  BY <1>1, <1>2

\* A step that moves no file: the call returns, fails or is cut short.
LEMMA EndsKeep ==
  ASSUME FilesInv, UNCHANGED files, used'.damages = used.damages,
         job' = None \/ (job # None /\ Goto("failed") /\ job \in Job)
  PROVE  FilesInv' /\ KeepsPromise
<1>1. UNCHANGED <<gens, state, backup>>
  BY DEF files
<1>2. WriteInProgress' = None /\ (job' = None \/ job'.at \in {"failed", "done"})
  BY DEF WriteInProgress, Goto, Job
<1>3. FilesInv' /\ Now' = Now /\ AfterDamage' = AfterDamage
  BY <1>1, <1>2, SameReads, SameFiles, SameNames
<1>4. CASE WriteInProgress = None
  BY <1>2, <1>3, <1>4, Stutters
<1>5. CASE WriteInProgress # None
  <2>1. Promise!EndSet
    BY <1>2, <1>3, <1>5 DEF Promise!EndSet, Now
  <2> QED
    BY <1>3, <2>1 DEF KeepsPromise, Promise!PromiseNext
<1> QED
  BY <1>4, <1>5

\* A step that has nothing to do with the files.
LEMMA OthersPromise ==
  ASSUME FilesInv, UNCHANGED storeVars, used'.damages = used.damages
  PROVE  FilesInv' /\ KeepsPromise
<1>1. UNCHANGED <<gens, state, backup, job>>
  BY DEF storeVars, files
<1>2. WriteInProgress' = WriteInProgress
  BY <1>1 DEF WriteInProgress
<1> QED
  BY <1>1, <1>2, SameReads, SameFiles, SameNames, Stutters

\* A write begins from what a start would read.
LEMMA BeginPromise ==
  ASSUME ToldInv, FilesInv, used'.damages = used.damages,
         NEW g \in Generation, NEW t, NEW w, BeginWrite(g, t, w)
  PROVE  FilesInv' /\ KeepsPromise
<1> DEFINE first == FirstStep(g)
           rollback == Rollback(g)
<1>1. /\ UNCHANGED <<gens, state, backup>> /\ job = None
      /\ job' = [target |-> g, checked |-> t, previous |-> Now,
                 rollback |-> rollback, clean |-> w, at |-> first]
  BY DEF BeginWrite, NewJob, files, Now
<1>2. DiskKinds /\ Selected /\ g # None
  BY DiskKindsHold, Selects, NoneAssumption
<1>3. /\ first \in {"failed", "backup", "delete", "fill"}
      /\ first # "failed" => ValidSet(g)
      /\ first = "backup" => Reads(g)
      /\ first = "delete" => ~Reads(g)
  BY DEF FirstStep, Reads
<1>4. rollback = IF Now # g THEN Now
                 ELSE IF state # None /\ state.previous # g /\ Reads(state.previous)
                   THEN state.previous ELSE None
  BY DEF Rollback, Now, Reads
<1> HIDE DEF first, rollback
<1>5. /\ job'.target = g /\ job'.previous = Now /\ job'.rollback = rollback
      /\ job'.at = first
  BY <1>1
<1>6. Now' = Now /\ AfterDamage' = AfterDamage /\ (\A h : Reads(h)' <=> Reads(h))
      /\ Chosen' = Chosen /\ (state # None => (BackupWithin' <=> BackupWithin))
      /\ \A c, q : Pairs(state, c, q)' <=> Pairs(state, c, q)
  BY <1>1, SameReads, SameFiles
<1>7. Now # None => Now \in Named(state) \cup Named(backup) /\ Reads(Now)
  BY <1>2, SelectIn DEF DiskKinds, Selected
<1>8. Now # None => Pairs(state, Now, rollback)
  BY <1>4, <1>7 DEF FilesInv, NamesOK, Pairs, Named
<1>9. NamesOK'
  BY <1>1, <1>3, <1>4, <1>5, <1>6, <1>8 DEF FilesInv, NamesOK, Writing
<1>10. used.damages = 0 => SoundOK'
  <2>1. SUFFICES ASSUME used.damages = 0 PROVE SoundOK'
    OBVIOUS
  <2>2. SoundChoice /\ SoundOK
    BY <1>2, <2>1, SoundSelects DEF FilesInv
  <2>3. Now = g => rollback = IF state.previous = g THEN None ELSE state.previous
    <3>1. ASSUME Now = g PROVE rollback = IF state.previous = g THEN None ELSE state.previous
      <4>1. state # None
        BY <1>2, <2>2, <3>1 DEF SoundChoice, Chosen
      <4>2. state.previous # None => Reads(state.previous)
        BY <1>2, <2>2, <4>1 DEF SoundChoice, Named, Selected
      <4> QED
        BY <1>4, <3>1, <4>1, <4>2
    <3> QED
      BY <3>1
  <2>4. FromCurrent(job)'
    BY <1>1, <1>5, <1>6, <2>2, <2>3 DEF FromCurrent, SoundChoice
  <2> QED
    BY <1>1, <1>6, <2>2, <2>4 DEF SoundOK, FromCurrent
<1>11. OnceOK'
  BY <1>1, <1>3, <1>5, <1>6, <1>7 DEF OnceOK
<1>12. KeepsPromise
  <2>1. WriteInProgress = None
    BY <1>1 DEF WriteInProgress
  <2>2. CASE job' = None \/ first = "failed"
    <3>1. WriteInProgress' = None
      BY <1>5, <2>2 DEF WriteInProgress
    <3> QED
      BY <1>6, <2>1, <3>1, Stutters
  <2>3. CASE job' # None /\ first # "failed"
    <3>1. WriteInProgress' = [from |-> Now, to |-> g] /\ g \in {h \in Generation : ValidSet(h)}
      BY <1>3, <1>5, <2>3 DEF WriteInProgress
    <3>2. WriteInProgress' \in [from: {Now}, to: {h \in Generation : ValidSet(h)}]
      BY <3>1
    <3>3. Promise!BeginSet
      BY <1>6, <2>1, <3>2 DEF Promise!BeginSet, Now
    <3> QED
      BY <3>3 DEF KeepsPromise, Promise!PromiseNext
  <2> QED
    BY <2>2, <2>3
<1> QED
  BY <1>9, <1>10, <1>11, <1>12 DEF FilesInv

\* What a start would read, and what it would read after a damage, are none
\* together.
LEMMA NoneSelected ==
  /\ DiskKinds /\ Now = None => AfterDamage = None
  /\ DiskKinds' /\ Now' = None => AfterDamage' = None
<1>1. DiskKinds /\ Now = None => AfterDamage = None
  <2>1. DiskKinds /\ Now = None => Whole \ {Now} = Whole
    BY DEF DiskKinds
  <2> QED
    BY <2>1, Selects DEF Selected
<1>2. (DiskKinds /\ Now = None => AfterDamage = None)'
  BY <1>1, PTL
<1> QED
  BY <1>1, <1>2

\* A step of a write that meets a damage.
LEMMA Repairs ==
  ASSUME DiskKinds, DiskKinds', used.damages \in Nat \ {0}, used'.damages = used.damages,
         WriteInProgress # None, WriteInProgress' = WriteInProgress,
         used.damages = 1 =>
           /\ Now' \in {Now, WriteInProgress.from, WriteInProgress.to}
           /\ Now' = None => Now = None
  PROVE  KeepsPromise
<1>1. CASE Now' = None /\ Now = None
  BY <1>1, NoneSelected, Stutters
<1>2. CASE ~(Now' = None /\ Now = None)
  <2>1. {Now', AfterDamage'} \subseteq {g \in Generation : ValidSet(g)} \cup {None}
    BY DEF DiskKinds
  <2>2. Promise!Repair
    BY <1>2, <2>1 DEF Promise!Repair, Now
  <2> QED
    BY <2>2 DEF KeepsPromise, Promise!PromiseNext
<1> QED
  BY <1>1, <1>2

\* A write goes on.
LEMMA WriteGoes ==
  ASSUME ToldInv, job # None, job.at # "failed", NEW step \in Steps, step # "failed", Goto(step)
  PROVE  /\ WriteInProgress = [from |-> job.previous, to |-> job.target]
         /\ WriteInProgress # None /\ WriteInProgress' = WriteInProgress
         /\ job' # None /\ job'.at = step
         /\ job'.target = job.target /\ job'.previous = job.previous
         /\ job'.rollback = job.rollback
<1>1. /\ job' # None /\ job'.at = step
      /\ job'.target = job.target /\ job'.previous = job.previous
      /\ job'.rollback = job.rollback
      /\ job.target \in Generation /\ job.previous \in Generation \cup {None}
  BY StepFields
<1>2. /\ WriteInProgress = [from |-> job.previous, to |-> job.target]
      /\ WriteInProgress' = WriteInProgress
  BY <1>1 DEF WriteInProgress
<1>3. WriteInProgress \in [from: Generation \cup {None}, to: Generation]
  BY <1>1, <1>2
<1> QED
  BY <1>1, <1>2, <1>3, WriteAssumption

\* A generation that does not read is removed.
LEMMA DeletePromise ==
  ASSUME ToldInv, FilesInv, used'.damages = used.damages, DeleteCorrupt
  PROVE  FilesInv' /\ KeepsPromise
<1>1. /\ UNCHANGED <<state, backup>> /\ job # None /\ job.at = "delete" /\ Goto("fill")
      /\ gens' = [g \in DOMAIN gens \ {job.target} |-> gens[g]]
  BY DEF DeleteCorrupt
<1>2. ~Reads(job.target)
  BY <1>1 DEF FilesInv, NamesOK, Writing
<1>3. \A g : Reads(g)' <=> Reads(g)
  BY <1>1, <1>2 DEF Reads, ReadBaselineListGeneration
<1>4. /\ job' # None /\ job'.at = "fill" /\ job'.target = job.target
      /\ job'.previous = job.previous /\ job'.rollback = job.rollback
      /\ WriteInProgress' = WriteInProgress
  BY <1>1, WriteGoes DEF Steps
<1>5. /\ Now' = Now /\ AfterDamage' = AfterDamage
      /\ Chosen' = Chosen /\ (state # None => (BackupWithin' <=> BackupWithin))
      /\ \A c, q : Pairs(state, c, q)' <=> Pairs(state, c, q)
  BY <1>1, <1>3, SameFiles
<1>6. NamesOK'
  BY <1>1, <1>4, <1>5 DEF FilesInv, NamesOK, Writing
<1>7. SoundOK => SoundOK'
  BY <1>1, <1>4, <1>5 DEF SoundOK, FromCurrent, Writing
<1>8. OnceOK => OnceOK'
  BY <1>1, <1>3, <1>4, <1>5 DEF OnceOK, FromCurrent, Writing
<1> QED
  BY <1>4, <1>5, <1>6, <1>7, <1>8, Stutters DEF FilesInv

\* A generation is filled.
LEMMA MovePromise ==
  ASSUME ToldInv, ToldInv', FilesInv, used'.damages = used.damages, MoveDirectory
  PROVE  FilesInv' /\ KeepsPromise
<1>1. /\ UNCHANGED <<state, backup>> /\ job # None /\ job.at = "fill" /\ Goto("backup")
      /\ gens' = [g \in DOMAIN gens \cup {job.target} |->
                    IF g = job.target THEN TRUE ELSE gens[g]]
  BY DEF MoveDirectory
<1>2. /\ job' # None /\ job'.at = "backup" /\ job'.target = job.target
      /\ job'.previous = job.previous /\ job'.rollback = job.rollback
      /\ WriteInProgress = [from |-> job.previous, to |-> job.target]
      /\ WriteInProgress # None /\ WriteInProgress' = WriteInProgress
  BY <1>1, WriteGoes DEF Steps
<1>3. \A g : Reads(g)' <=> Reads(g) \/ g = job.target
  <2>1. ValidSet(job.target)
    BY <1>1 DEF FilesInv, NamesOK, Writing
  <2> QED
    BY <1>1, <2>1 DEF Reads, ReadBaselineListGeneration
<1>4. DiskKinds /\ DiskKinds' /\ Selected /\ Selected'
  BY DiskKindsHold, DiskKindsNext, Selects, SelectsNext
<1>5. /\ Chosen' = Chosen /\ Spare' = Spare /\ (BackupWithin' <=> BackupWithin)
      /\ \A c, q : Pairs(state, c, q)' <=> Pairs(state, c, q)
  BY <1>1 DEF Chosen, Spare, BackupWithin, Pairs, Named
<1>6. NamesOK'
  BY <1>1, <1>2, <1>5 DEF FilesInv, NamesOK, Writing
<1>7. SoundOK => SoundOK'
  BY <1>1, <1>2, <1>5 DEF SoundOK, FromCurrent, Writing
<1>8. OnceOK => OnceOK'
  BY <1>1, <1>2, <1>3, <1>5 DEF OnceOK, FromCurrent, Writing
<1>9. CASE used.damages = 0
  <2>1. SoundChoice /\ SoundChoice'
    BY <1>4, <1>6, <1>7, <1>9, SoundSelects, SoundSelectsNext DEF FilesInv
  <2> QED
    BY <1>2, <1>5, <1>6, <1>7, <1>9, <2>1, Stutters DEF FilesInv, SoundChoice
<1>10. CASE used.damages # 0
  <2>1. Whole' = Whole \cup {job.target}
    <3>1. \A g : g \in Whole' <=> g \in Whole \cup {job.target}
      BY <1>3, <1>4 DEF Selected
    <3> QED
      BY <3>1
  <2>2. Now' \in {Now, job.target} /\ job.target # None
    <3>1. None \notin Whole /\ job.target # None
      BY <1>1, <1>4 DEF DiskKinds
    <3>2. Select(state, backup, Whole \cup {job.target}) \in {Select(state, backup, Whole), job.target}
      BY <3>1, SelectMore
    <3> QED
      BY <1>1, <1>4, <2>1, <3>1, <3>2 DEF Selected
  <2>3. used.damages \in Nat
    BY <1>4 DEF DiskKinds, DiskInv, Troubles
  <2>4. KeepsPromise
    BY <1>2, <1>4, <1>10, <2>2, <2>3, Repairs
  <2> QED
    BY <1>6, <1>8, <1>10, <2>4 DEF FilesInv
<1> QED
  BY <1>9, <1>10

\* What such a write names is what the first pointer named.
LEMMA FromWithin ==
  ASSUME NEW j, FromCurrent(j), state # None, j.previous # None,
         j.previous # j.target => j.rollback = j.previous
  PROVE  /\ j.previous = state.current /\ j.rollback \in {state.current, state.previous, None}
BY DEF FromCurrent, Chosen

\* The second pointer is written.
LEMMA BackupPromise ==
  ASSUME ToldInv, ToldInv', FilesInv, used'.damages = used.damages, WriteBackup
  PROVE  FilesInv' /\ KeepsPromise
<1>1. /\ UNCHANGED <<gens, state>> /\ job # None /\ job.at = "backup" /\ Goto("state")
      /\ backup' = IF job.previous = None THEN backup
                   ELSE [current |-> job.previous, previous |-> job.rollback,
                         checked |-> None]
  BY DEF WriteBackup
<1>2. /\ job' # None /\ job'.at = "state" /\ job'.target = job.target
      /\ job'.previous = job.previous /\ job'.rollback = job.rollback
      /\ WriteInProgress = [from |-> job.previous, to |-> job.target]
      /\ WriteInProgress # None /\ WriteInProgress' = WriteInProgress
  BY <1>1, WriteGoes DEF Steps
<1>3. job.previous # None => /\ backup' # None /\ backup'.current = job.previous
                             /\ backup'.previous = job.rollback
  <2>1. /\ job.previous \in Generation \cup {None} /\ job.rollback \in Generation \cup {None}
        /\ job.checked \in Times
    BY <1>1, StepFields DEF Steps
  <2> QED
    BY <1>1, <2>1, PointersAre
<1>4. \A g : Reads(g)' <=> Reads(g)
  BY <1>1, SameReads
<1>5. DiskKinds /\ DiskKinds' /\ Selected /\ Selected'
  BY DiskKindsHold, DiskKindsNext, Selects, SelectsNext
<1>6. /\ Chosen' = Chosen /\ Spare' = Spare
      /\ \A c, q : Pairs(state, c, q)' <=> Pairs(state, c, q)
  BY <1>1 DEF Chosen, Spare, Pairs
<1>7. /\ NamesOK /\ ValidSet(job.target) /\ (job.previous # job.target => job.rollback = job.previous)
      /\ job.previous # None => Pairs(state, job.previous, job.rollback)
  BY <1>1 DEF FilesInv, NamesOK, Writing
<1>8. NamesOK'
  BY <1>1, <1>2, <1>3, <1>6, <1>7 DEF NamesOK, Writing
<1>9. state # None /\ FromCurrent(job) /\ (BackupWithin \/ job.previous # None) => BackupWithin'
  <2>1. CASE job.previous = None
    BY <1>1, <2>1 DEF BackupWithin, Named
  <2>2. CASE job.previous # None
    <3>1. Named(backup)' \subseteq {job.previous, job.rollback} \ {None}
      BY <1>3, <2>2 DEF Named
    <3> QED
      BY <1>1, <1>7, <2>2, <3>1, FromWithin DEF BackupWithin
  <2> QED
    BY <2>1, <2>2
<1>10. FromCurrent(job) /\ state = None => backup' = backup
  BY <1>1 DEF FromCurrent, Chosen
<1>11. FromCurrent(job)' <=> FromCurrent(job)
  BY <1>1, <1>2, <1>6 DEF FromCurrent
<1>12. SoundOK => SoundOK'
  <2>1. SUFFICES ASSUME SoundOK PROVE SoundOK'
    OBVIOUS
  <2>2. FromCurrent(job)
    BY <1>1, <2>1 DEF SoundOK, Writing
  <2> QED
    BY <1>1, <1>9, <1>10, <1>11, <2>1, <2>2 DEF SoundOK
<1>13. OnceOK => OnceOK'
  <2>1. SUFFICES ASSUME OnceOK PROVE OnceOK'
    OBVIOUS
  <2>2. ASSUME job'.previous # None, ~Reads(job.previous)'
        PROVE  state' # None /\ FromCurrent(job)' /\ BackupWithin'
    <3>1. job.previous # None /\ ~Reads(job.previous)
      <4>1. PICK g : g = job'.previous
        OBVIOUS
      <4> QED
        BY <1>2, <1>4, <2>2, <4>1
    <3>2. state # None /\ FromCurrent(job)
      BY <1>1, <2>1, <3>1 DEF OnceOK, Writing
    <3> QED
      BY <1>1, <1>9, <1>11, <3>1, <3>2
  <2>3. ASSUME ~Reads(job.target)'
        PROVE  /\ FromCurrent(job)'
               /\ IF state' = None THEN backup' = None ELSE BackupWithin'
               /\ \A g \in {job'.previous, job'.rollback} \ {None, job'.target} : Reads(g)'
    <3>1. ~Reads(job.target)
      <4>1. PICK g : g = job'.target
        OBVIOUS
      <4> QED
        BY <1>2, <1>4, <2>3, <4>1
    <3>2. /\ FromCurrent(job)
          /\ IF state = None THEN backup = None ELSE BackupWithin
          /\ \A g \in {job.previous, job.rollback} \ {None, job.target} : Reads(g)
      BY <1>1, <2>1, <3>1 DEF OnceOK
    <3> QED
      BY <1>1, <1>2, <1>4, <1>9, <1>10, <1>11, <3>2
  <2> QED
    BY <1>2, <2>2, <2>3 DEF OnceOK, Writing
<1>14. CASE used.damages = 0
  <2>1. SoundChoice /\ SoundChoice'
    BY <1>5, <1>8, <1>12, <1>14, SoundSelects, SoundSelectsNext DEF FilesInv
  <2> QED
    BY <1>2, <1>6, <1>8, <1>12, <1>14, <2>1, Stutters DEF FilesInv, SoundChoice
<1>15. CASE used.damages # 0
  <2>1. Whole' = Whole /\ None \notin Whole
    <3>1. \A g : g \in Whole' <=> g \in Whole
      BY <1>4, <1>5 DEF Selected
    <3> QED
      BY <1>5, <3>1 DEF DiskKinds
  <2>2. Now = Select(state, backup, Whole) /\ Now' = Select(state, backup', Whole)
    BY <1>1, <1>5, <2>1 DEF Selected
  <2>3. ASSUME used.damages = 1
        PROVE  Now' \in {Now, job.previous, job.target} /\ (Now' = None => Now = None)
    <3>1. CASE First(state, Whole) # None \/ backup' = backup
      BY <2>2, <3>1 DEF Select
    <3>2. CASE First(state, Whole) = None /\ backup' # backup
      <4>1. job.previous # None /\ Now' = First(backup', Whole) /\ Now = First(backup, Whole)
        BY <1>1, <2>2, <3>2 DEF Select
      <4>2. CASE job.previous \in Whole
        BY <1>3, <2>1, <4>1, <4>2 DEF First
      <4>3. CASE job.previous \notin Whole
        <5>1. state # None /\ FromCurrent(job) /\ BackupWithin
          BY <1>1, <1>5, <2>3, <4>1, <4>3 DEF FilesInv, OnceOK, Writing, Selected
        <5>2. job.rollback \in {state.current, state.previous, None}
          BY <1>7, <4>1, <5>1, FromWithin
        <5>3. state.current \notin Whole /\ state.previous \notin Whole
          BY <2>1, <3>2, <5>1 DEF First
        <5>4. First(backup, Whole) = None
          BY <2>1, <5>1, <5>3 DEF First, BackupWithin, Named
        <5>5. First(backup', Whole) = None
          BY <1>3, <2>1, <4>1, <4>3, <5>2, <5>3 DEF First
        <5> QED
          BY <4>1, <5>4, <5>5
      <4> QED
        BY <4>2, <4>3
    <3> QED
      BY <3>1, <3>2
  <2>4. used.damages \in Nat
    BY <1>5 DEF DiskKinds, DiskInv, Troubles
  <2>5. KeepsPromise
    BY <1>2, <1>5, <1>15, <2>3, <2>4, Repairs
  <2> QED
    BY <1>8, <1>13, <1>15, <2>5 DEF FilesInv
<1> QED
  BY <1>14, <1>15

\* What the first pointer offers once a write has replaced it.
LEMMA NextSelected ==
  ASSUME NEW g, NEW r, NEW t, NEW q, NEW S, None \notin S, g # None
  PROVE  LET p == [current |-> g, previous |-> r, checked |-> t]
         IN  p # None =>
               /\ g \in S => Select(p, q, S) = g
               /\ g \notin S /\ r \in S => Select(p, q, S) = r
               /\ g \notin S /\ r \notin S => Select(p, q, S) = First(q, S)
BY DEF Select, First

\* The first pointer is written: the write takes effect as a whole.
LEMMA StatePromise ==
  ASSUME ToldInv, ToldInv', FilesInv, used'.damages = used.damages, WriteState
  PROVE  FilesInv' /\ KeepsPromise
<1>1. /\ UNCHANGED <<gens, backup>> /\ job # None /\ job.at = "state" /\ Goto("prune")
      /\ state' = [current |-> job.target, previous |-> job.rollback, checked |-> job.checked]
  BY DEF WriteState
<1>2. /\ job' # None /\ job'.at = "prune" /\ job'.target = job.target
      /\ job'.previous = job.previous /\ job'.rollback = job.rollback
      /\ WriteInProgress = [from |-> job.previous, to |-> job.target]
      /\ WriteInProgress # None /\ WriteInProgress' = WriteInProgress
  BY <1>1, WriteGoes DEF Steps
<1>3. state' # None /\ state'.current = job.target /\ state'.previous = job.rollback
  <2>1. /\ job.target \in Generation /\ job.rollback \in Generation \cup {None}
        /\ job.checked \in Times
    BY <1>1, StepFields DEF Steps
  <2> QED
    BY <1>1, <2>1, PointersAre
<1>4. (\A g : Reads(g)' <=> Reads(g)) /\ Named(backup)' = Named(backup)
  BY <1>1, SameReads DEF Named
<1>5. DiskKinds /\ DiskKinds' /\ Selected /\ Selected'
  BY DiskKindsHold, DiskKindsNext, Selects, SelectsNext
<1>6. /\ NamesOK /\ job.target # None /\ (job.previous # job.target => job.rollback = job.previous)
      /\ job.previous # None => backup # None /\ backup.current = job.previous
                                /\ backup.previous = job.rollback
  BY <1>1, <1>5 DEF FilesInv, NamesOK, Writing, DiskKinds
<1>7. job.previous # None => Named(backup) \subseteq {job.target, job.rollback}
  BY <1>6 DEF Named
<1>8. FromCurrent(job) /\ (state = None => backup = None) =>
        Named(backup) \subseteq {job.target, job.rollback}
  BY <1>6, <1>7 DEF FromCurrent, Chosen, NamesOK, Named
<1>9. NamesOK'
  <2>1. ~Writing(job')
    BY <1>2 DEF Writing
  <2>2. Pairs(state', backup.current, backup.previous) /\ (job.rollback # None => backup # None)
    BY <1>3, <1>6 DEF Pairs
  <2> QED
    BY <1>1, <1>3, <1>6, <2>1, <2>2 DEF NamesOK
<1>10. ~Writing(job')
  BY <1>2 DEF Writing
<1>11. SoundOK => SoundOK'
  <2>1. SUFFICES ASSUME SoundOK PROVE SoundOK'
    OBVIOUS
  <2>2. Named(backup) \subseteq {job.target, job.rollback}
    BY <1>1, <1>8, <2>1 DEF SoundOK, Writing
  <2>3. BackupWithin'
    BY <1>3, <1>4, <2>2 DEF BackupWithin
  <2> QED
    BY <1>3, <1>10, <2>3 DEF SoundOK
<1>12. OnceOK => OnceOK'
  <2>1. SUFFICES ASSUME OnceOK PROVE OnceOK'
    OBVIOUS
  <2>2. Named(state)' \subseteq {job.target, job.rollback}
    BY <1>3 DEF Named
  <2>3. Named(backup) \subseteq {job.target, job.rollback} \/ Reads(job.target)
    <3>1. ~Reads(job.target) => FromCurrent(job) /\ (state = None => backup = None)
      BY <1>1, <2>1 DEF OnceOK
    <3> QED
      BY <1>8, <3>1
  <2>4. \A g : g = job.target => (Reads(g)' <=> Reads(g))
    BY <1>4
  <2> QED
    BY <1>2, <1>3, <1>4, <1>10, <2>2, <2>3, <2>4 DEF OnceOK
<1>13. CASE used.damages = 0
  <2>1. SoundChoice /\ SoundChoice' /\ FromCurrent(job)
    BY <1>1, <1>5, <1>9, <1>11, <1>13, SoundSelects, SoundSelectsNext DEF FilesInv, SoundOK, Writing
  <2>2. /\ Now = job.previous /\ Now' = job.target
        /\ AfterDamage' = IF job.rollback = job.target THEN None ELSE job.rollback
    BY <1>3, <2>1 DEF SoundChoice, FromCurrent, Chosen, Spare
  <2>3. CASE job.previous = job.target
    <3>1. AfterDamage' = AfterDamage
      BY <1>6, <2>1, <2>2, <2>3 DEF SoundChoice, FromCurrent, Chosen, Spare
    <3> QED
      BY <1>2, <1>9, <1>11, <1>13, <2>2, <2>3, <3>1, Stutters DEF FilesInv
  <2>4. CASE job.previous # job.target
    <3>1. AfterDamage' = Now
      BY <1>6, <2>2, <2>4
    <3>2. WriteInProgress.to = job.target
      BY <1>2
    <3>3. Promise!Publish
      BY <1>2, <2>2, <2>4, <3>1, <3>2 DEF Promise!Publish, Now
    <3> QED
      BY <1>9, <1>11, <1>13, <3>3 DEF FilesInv, KeepsPromise, Promise!PromiseNext
  <2> QED
    BY <2>3, <2>4
<1>14. CASE used.damages # 0
  <2>1. Whole' = Whole /\ None \notin Whole
    <3>1. \A g : g \in Whole' <=> g \in Whole
      BY <1>4, <1>5 DEF Selected
    <3> QED
      BY <1>5, <3>1 DEF DiskKinds
  <2>2. /\ Now = Select(state, backup, Whole)
        /\ job.target \in Whole => Now' = job.target
        /\ job.target \notin Whole /\ job.rollback \in Whole => Now' = job.rollback
        /\ job.target \notin Whole /\ job.rollback \notin Whole => Now' = First(backup, Whole)
    <3>1. Now = Select(state, backup, Whole) /\ Now' = Select(state', backup, Whole)
      BY <1>1, <1>5, <2>1 DEF Selected
    <3> QED
      BY <1>1, <1>3, <1>6, <2>1, <3>1, NextSelected
  <2>3. ASSUME used.damages = 1
        PROVE  Now' \in {Now, job.previous, job.target} /\ (Now' = None => Now = None)
    <3>1. CASE job.target \in Whole
      BY <1>6, <2>2, <3>1
    <3>2. CASE job.target \notin Whole
      <4>1. /\ FromCurrent(job)
            /\ IF state = None THEN backup = None ELSE BackupWithin
            /\ \A g \in {job.previous, job.rollback} \ {None, job.target} : g \in Whole
        BY <1>1, <1>5, <2>3, <3>2 DEF FilesInv, OnceOK, Selected
      <4>2. CASE job.previous = job.target
        <5>1. /\ state # None /\ state.current = job.target
              /\ job.rollback = IF state.previous = job.target THEN None ELSE state.previous
          BY <1>6, <4>1, <4>2 DEF FromCurrent, Chosen
        <5>2. CASE job.rollback # None
          <6>1. job.rollback \in Whole /\ state.previous = job.rollback
            BY <4>1, <5>1, <5>2
          <6>2. Select(state, backup, Whole) = job.rollback
            BY <3>2, <5>1, <5>2, <6>1 DEF Select, First
          <6> QED
            BY <2>2, <3>2, <5>2, <6>1, <6>2
        <5>3. CASE job.rollback = None
          <6>1. First(backup, Whole) = None
            BY <1>6, <1>7, <2>1, <3>2, <4>2, <5>3 DEF First, Named
          <6>2. state.previous \notin Whole
            BY <2>1, <3>2, <5>1, <5>3
          <6>3. Select(state, backup, Whole) = None
            BY <3>2, <5>1, <6>1, <6>2 DEF Select, First
          <6> QED
            BY <2>1, <2>2, <3>2, <5>3, <6>1, <6>3
        <5> QED
          BY <5>2, <5>3
      <4>3. CASE job.previous # job.target /\ job.previous = None
        <5>1. state = None /\ backup = None /\ job.rollback = None
          BY <1>6, <4>1, <4>3 DEF FromCurrent, Chosen, NamesOK
        <5>2. First(backup, Whole) = None /\ Select(state, backup, Whole) = None
          BY <5>1 DEF First, Select
        <5> QED
          BY <2>1, <2>2, <3>2, <5>1, <5>2
      <4>4. CASE job.previous # job.target /\ job.previous # None
        <5>1. job.rollback = job.previous /\ job.rollback \in Whole
          BY <1>6, <4>1, <4>4
        <5> QED
          BY <2>2, <3>2, <4>4, <5>1
      <4> QED
        BY <4>2, <4>3, <4>4
    <3> QED
      BY <3>1, <3>2
  <2>4. used.damages \in Nat
    BY <1>5 DEF DiskKinds, DiskInv, Troubles
  <2>5. KeepsPromise
    BY <1>2, <1>5, <1>14, <2>3, <2>4, Repairs
  <2> QED
    BY <1>9, <1>12, <1>14, <2>5 DEF FilesInv
<1> QED
  BY <1>13, <1>14

\* What is selected is not pruned.
LEMMA PrunePromise ==
  ASSUME ToldInv, ToldInv', FilesInv, used'.damages = used.damages, Prune
  PROVE  FilesInv' /\ KeepsPromise
<1>1. UNCHANGED <<state, backup>> /\ job # None /\ job.at = "prune" /\ Goto("done")
  BY DEF Prune
<1>2. /\ job' # None /\ job'.at = "done"
      /\ WriteInProgress = [from |-> job.previous, to |-> job.target]
      /\ WriteInProgress # None /\ WriteInProgress' = WriteInProgress
  BY <1>1, WriteGoes DEF Steps
<1>3. PICK gone \in SUBSET Unused : gens' = [g \in DOMAIN gens \ gone |-> gens[g]]
  BY DEF Prune
<1>4. /\ \A g : Reads(g)' => Reads(g)
      /\ \A g \in {job.target, job.rollback} : Reads(g) => Reads(g)'
  BY <1>3 DEF Reads, ReadBaselineListGeneration, Unused
<1>5. DiskKinds /\ DiskKinds' /\ Selected /\ Selected'
  BY DiskKindsHold, DiskKindsNext, Selects, SelectsNext
<1>6. /\ Chosen' = Chosen /\ Spare' = Spare /\ (BackupWithin' <=> BackupWithin)
      /\ ~Writing(job') /\ \A c, q : Pairs(state, c, q)' <=> Pairs(state, c, q)
  BY <1>1, <1>2 DEF Chosen, Spare, BackupWithin, Pairs, Named, Writing
<1>7. NamesOK'
  BY <1>1, <1>6 DEF FilesInv, NamesOK
<1>8. SoundOK => SoundOK'
  BY <1>1, <1>6 DEF SoundOK
<1>9. OnceOK'
  BY <1>2, <1>6 DEF OnceOK
<1>10. CASE used.damages = 0
  <2>1. SoundChoice /\ SoundChoice'
    BY <1>5, <1>7, <1>8, <1>10, SoundSelects, SoundSelectsNext DEF FilesInv
  <2> QED
    BY <1>2, <1>6, <1>7, <1>8, <1>10, <2>1, Stutters DEF FilesInv, SoundChoice
<1>11. CASE used.damages # 0
  <2>1. Whole' \subseteq Whole /\ None \notin Whole
    BY <1>4, <1>5 DEF Selected, DiskKinds
  <2>2. ASSUME used.damages = 1 PROVE Now' = Now
    <3>1. /\ Named(state) \subseteq {job.target, job.rollback}
          /\ \/ Named(backup) \subseteq {job.target, job.rollback}
             \/ job.target \in Whole /\ state # None /\ state.current = job.target
      BY <1>1, <1>5, <2>2 DEF FilesInv, OnceOK, Selected
    <3>2. Now \in {job.target, job.rollback, None}
      <4>1. CASE Named(backup) \subseteq {job.target, job.rollback}
        BY <1>5, <2>1, <3>1, <4>1, SelectIn DEF Selected
      <4>2. CASE job.target \in Whole /\ state # None /\ state.current = job.target
        BY <1>5, <2>1, <4>2 DEF Selected, Select, First
      <4> QED
        BY <3>1, <4>1, <4>2
    <3>3. Now \in Whole' \cup {None}
      BY <1>4, <1>5, <3>2 DEF DiskKinds, Selected
    <3> QED
      BY <1>1, <1>5, <2>1, <3>3, SelectFewer DEF Selected
  <2>3. used.damages \in Nat
    BY <1>5 DEF DiskKinds, DiskInv, Troubles
  <2>4. KeepsPromise
    BY <1>2, <1>5, <1>11, <2>2, <2>3, Repairs
  <2> QED
    BY <1>7, <1>9, <1>11, <2>4 DEF FilesInv
<1> QED
  BY <1>10, <1>11

\* Time moves what is on disk only in its times.
LEMMA TimeMoves ==
  ASSUME ToldInv, Tick \/ ClockSetBack
  PROVE  /\ UNCHANGED <<gens, backup, job>> /\ (state = None <=> state' = None)
         /\ state # None => state'.current = state.current /\ state'.previous = state.previous
<1>1. /\ UNCHANGED <<gens, backup, job>>
      /\ state = None => state' = None
      /\ state # None => state' \in {[state EXCEPT !.checked = Older(@)],
                                     [state EXCEPT !.checked = Younger(@)]}
  BY DEF Tick, ClockSetBack, Shift, ShiftFiles
<1>2. ASSUME state # None PROVE state' # None /\ state'.current = state.current
                                /\ state'.previous = state.previous
  <2>1. state \in Pointer
    BY <1>2, ToldFacts DEF TypesInv, ListsTypeOK, StoreTypeOK
  <2>2. state.checked \in Times \cup {None}
    BY <2>1 DEF Pointer
  <2>3. PICK o, y : o = Older(state.checked) /\ y = Younger(state.checked)
    OBVIOUS
  <2>4. o \in Times \cup {None} /\ y \in Times \cup {None}
    BY <2>2, <2>3, TimesMove, TimesAre DEF IsTime
  <2>5. state' \in {[state EXCEPT !.checked = o], [state EXCEPT !.checked = y]}
    BY <1>1, <1>2, <2>3
  <2>6. /\ state' \in Pointer /\ state'.current = state.current
        /\ state'.previous = state.previous
    BY <2>1, <2>4, <2>5 DEF Pointer
  <2> QED
    BY <2>6, NoneAssumption
<1> QED
  BY <1>1, <1>2

LEMMA TimePromise ==
  ASSUME ToldInv, FilesInv, used'.damages = used.damages, Tick \/ ClockSetBack
  PROVE  FilesInv' /\ KeepsPromise
<1>1. /\ UNCHANGED <<gens, backup, job>> /\ (state = None <=> state' = None)
      /\ state # None => state'.current = state.current /\ state'.previous = state.previous
  BY TimeMoves
<1>2. WriteInProgress' = WriteInProgress
  BY <1>1 DEF WriteInProgress
<1>3. \A g : Reads(g)' <=> Reads(g)
  BY <1>1, SameReads
<1>4. FilesInv'
  BY <1>1, <1>3, SameNames
<1>5. Now' = Now /\ AfterDamage' = AfterDamage
  BY <1>1, <1>3, SameFiles
<1> QED
  BY <1>2, <1>4, <1>5, Stutters

\* The worker begins a write with a set of lists that is one.
LEMMA BeginsPromise ==
  ASSUME ToldInv, FilesInv, used'.damages = used.damages, WorkerBegins
  PROVE  FilesInv' /\ KeepsPromise
<1>1. CASE UNCHANGED storeVars
  BY <1>1, OthersPromise
<1>2. CASE Working("update")
  <2>1. \/ UNCHANGED storeVars
        \/ \E checked : BeginWrite(UpdateFilterLists(Head(queue), checked).lists,
                                   UpdateFilterLists(Head(queue), checked).checked,
                                   UpdateFilterLists(Head(queue), checked).clean)
    BY <1>2 DEF WorkerBegins, Working
  <2>2. ASSUME NEW checked,
               BeginWrite(UpdateFilterLists(Head(queue), checked).lists,
                          UpdateFilterLists(Head(queue), checked).checked,
                          UpdateFilterLists(Head(queue), checked).clean)
        PROVE  FilesInv' /\ KeepsPromise
    <3>1. UpdateFilterLists(Head(queue), checked).lists \in Generation
      BY ToldFacts, UpdateSays
    <3> QED
      BY <2>2, <3>1, BeginPromise
  <2> QED
    BY <1>1, <2>1, <2>2
<1>3. CASE ~Working("update")
  <2>1. /\ queue # <<>> /\ IsChange(Head(queue))
        /\ \/ UNCHANGED storeVars
           \/ /\ Refusal(Head(queue)) = ""
              /\ \E checked : BeginWrite(Changed(Head(queue)), checked, TRUE)
    BY <1>3 DEF WorkerBegins, Working, IsChange
  <2>2. ASSUME Refusal(Head(queue)) = "", NEW checked,
               BeginWrite(Changed(Head(queue)), checked, TRUE)
        PROVE  FilesInv' /\ KeepsPromise
    <3>1. PICK t : t = Head(queue)
      OBVIOUS
    <3>2. 1 \in DOMAIN queue /\ Head(queue) = queue[1]
      BY <2>1, ToldFacts, QueueEnds
    <3>3. TaskSays(t, mutation, told)
      BY <3>1, <3>2, ToldFacts
    <3>4. Changed(t) \in Generation
      BY <2>1, <2>2, <3>1, <3>3, ToldFacts, ChangeSays
    <3> QED
      BY <2>2, <3>1, <3>4, BeginPromise
  <2> QED
    BY <1>1, <2>1, <2>2
<1> QED
  BY <1>2, <1>3

LEMMA WorkerPromise ==
  ASSUME ToldInv, ToldInv', FilesInv, used'.damages = used.damages, Worker
  PROVE  FilesInv' /\ KeepsPromise
<1>1. CASE WorkerReads
  BY <1>1, OthersPromise DEF WorkerReads
<1>2. CASE WorkerBegins
  BY <1>2, BeginsPromise
<1>3. CASE WorkerWrites
  <2>1. CASE WriteFails
    <3>1. UNCHANGED files /\ job # None /\ Goto("failed") /\ job \in Job
      BY <2>1, ToldFacts DEF WriteFails
    <3> QED
      BY <3>1, EndsKeep
  <2>2. CASE WriteStep
    BY <2>2, DeletePromise, MovePromise, BackupPromise, StatePromise, PrunePromise
       DEF WriteStep
  <2> QED
    BY <1>3, <2>1, <2>2 DEF WorkerWrites
<1>4. CASE WorkerReturns
  BY <1>4, EndsKeep DEF WorkerReturns
<1> QED
  BY <1>1, <1>2, <1>3, <1>4 DEF Worker

LEMMA QuietPromise ==
  ASSUME ToldInv, FilesInv, used'.damages = used.damages,
         \/ MaybeCreate \/ TimerFires \/ Network \/ RedirectRefused \/ Replies
         \/ \E c \in Checks : CheckNow(c)
         \/ \E m \in Mutations : BeginMutation(m)
         \/ ProfileDestroyed \/ UNCHANGED listVars
  PROVE  FilesInv' /\ KeepsPromise
<1>1. CASE MaybeCreate \/ TimerFires \/ (\E c \in Checks : CheckNow(c))
           \/ (\E m \in Mutations : BeginMutation(m)) \/ ProfileDestroyed \/ UNCHANGED listVars
  <2>1. UNCHANGED storeVars
    BY <1>1 DEF MaybeCreate, TimerFires, CheckNow, BeginMutation, ProfileDestroyed, listVars
  <2> QED
    BY <2>1, OthersPromise
<1>2. CASE Network \/ RedirectRefused
  <2>1. UNCHANGED storeVars
    BY <1>2 DEF Network, RedirectRefused, Downloaded, CatalogDownloaded, LoaderReplies
  <2> QED
    BY <2>1, OthersPromise
<1>3. CASE Replies
  <2>1. UNCHANGED storeVars
    BY <1>3 DEF Replies, ReplyDropped, Refreshed, PlanLoaded, CatalogPlanLoaded,
                UpdatesInstalled, MutationSaved
  <2> QED
    BY <2>1, OthersPromise
<1> QED
  BY <1>1, <1>2, <1>3

\* Without the first pointer the second one offers what was selected, or what
\* it would have fallen back to.
LEMMA PointerLost ==
  ASSUME NEW s, NEW b, NEW S, None \notin S, s # None,
         s.previous # None => b # None,
         b # None => Pairs(s, b.current, b.previous)
  PROVE  LET now == Select(s, b, S)
         IN  Select(None, b, S) \in {now, Select(s, b, S \ {now})}
<1>1. PICK now : now = Select(s, b, S)
  OBVIOUS
<1>2. Select(None, b, S) = First(b, S)
  BY DEF Select, First
<1>3. CASE First(s, S) = None
  BY <1>2, <1>3 DEF Select
<1>4. CASE First(s, S) # None
  <2>1. now = First(s, S) /\ now \in S /\ now \in {s.current, s.previous}
    BY <1>1, <1>4 DEF Select, First
  <2>2. CASE s.previous = None
    <3>1. First(s, S \ {now}) = None /\ now = s.current
      BY <2>1, <2>2 DEF First
    <3>2. Select(s, b, S \ {now}) = First(b, S \ {now})
      BY <3>1 DEF Select
    <3>3. First(b, S) = now \/ First(b, S) = First(b, S \ {now})
      BY DEF First
    <3> QED
      BY <1>1, <1>2, <3>2, <3>3
  <2>3. CASE s.previous # None
    <3>1. /\ b # None
          /\ \/ b.current = s.current /\ b.previous \in {s.current, s.previous, None}
             \/ b.current = s.previous /\ b.previous \in {s.previous, None}
      BY <2>3 DEF Pairs
    <3>2. CASE s.current \in S
      <4>1. now = s.current
        BY <2>1, <3>2 DEF First
      <4>2. CASE s.previous \in S /\ s.previous # now
        <5>1. Select(s, b, S \ {now}) = s.previous
          BY <4>1, <4>2 DEF Select, First
        <5>2. First(b, S) \in {s.current, s.previous}
          BY <3>1, <3>2, <4>2 DEF First
        <5> QED
          BY <1>1, <1>2, <4>1, <5>1, <5>2
      <4>3. CASE ~(s.previous \in S /\ s.previous # now)
        <5>1. First(s, S \ {now}) = None
          BY <4>1, <4>3 DEF First
        <5>2. First(b, S \ {now}) = None
          BY <3>1, <4>1, <4>3 DEF First
        <5>3. First(b, S) \in {now, None}
          BY <3>1, <4>1, <4>3 DEF First
        <5> QED
          BY <1>1, <1>2, <5>1, <5>2, <5>3 DEF Select
      <4> QED
        BY <4>2, <4>3
    <3>3. CASE s.current \notin S
      <4>1. now = s.previous
        BY <2>1, <3>3
      <4>2. First(s, S \ {now}) = None /\ First(b, S \ {now}) = None
        BY <3>1, <3>3, <4>1 DEF First
      <4>3. First(b, S) \in {now, None}
        BY <3>1, <3>3, <4>1 DEF First
      <4> QED
        BY <1>1, <1>2, <4>2, <4>3 DEF Select
    <3> QED
      BY <3>2, <3>3
  <2> QED
    BY <2>2, <2>3
<1> QED
  BY <1>3, <1>4

\* A damage costs the first pointer or one generation.
LEMMA DamageIs ==
  ASSUME DiskInv, Damage
  PROVE  /\ used'.damages = used.damages + 1 /\ used.damages \in Nat
         /\ UNCHANGED <<backup, job>>
         /\ \/ state # None /\ state' = None /\ Whole' = Whole
            \/ state' = state /\ \E g : Whole' = Whole \ {g}
<1>1. /\ used'.damages = used.damages + 1 /\ used.damages \in Nat
  BY DEF Damage, Spend, DiskInv, Troubles
<1>2. CASE DamageState
  <2>1. UNCHANGED <<gens, backup, job>> /\ state # None /\ state' = None
    BY <1>2 DEF DamageState
  <2>2. Whole' = Whole
    BY <2>1, SameReads DEF Whole
  <2> QED
    BY <1>1, <2>1, <2>2
<1>3. ASSUME NEW g \in DOMAIN gens, DamageGeneration(g)
      PROVE  UNCHANGED <<state, backup, job>> /\ Whole' = Whole \ {g}
  <2>1. UNCHANGED <<state, backup, job>> /\ gens' = [gens EXCEPT ![g] = FALSE]
    BY <1>3 DEF DamageGeneration
  <2>2. \A h : Reads(h)' <=> (Reads(h) /\ h # g)
    BY <2>1 DEF Reads, ReadBaselineListGeneration
  <2>3. DOMAIN gens' = DOMAIN gens
    BY <2>1
  <2> QED
    BY <2>1, <2>2, <2>3 DEF Whole
<1> QED
  BY <1>1, <1>2, <1>3 DEF Damage

LEMMA DamageNames ==
  ASSUME ToldInv, FilesInv, Damage
  PROVE  FilesInv'
<1>1. /\ used'.damages = used.damages + 1 /\ used.damages \in Nat
      /\ backup' = backup /\ job' = job
      /\ (state # None /\ state' = None /\ Whole' = Whole)
         \/ (state' = state /\ \E g : Whole' = Whole \ {g})
  BY ToldFacts, DamageIs
<1>2. (\A g : g \in Whole <=> Reads(g)) /\ (\A g : g \in Whole' <=> Reads(g)')
  BY Selects, SelectsNext DEF Selected
<1>3. \A g : Reads(g)' => Reads(g)
  BY <1>1, <1>2
<1>4. Named(backup)' = Named(backup) /\ Named(state)' \subseteq Named(state)
  BY <1>1 DEF Named
<1>5. NamesOK'
  <2>1. state' = None \/ state' = state
    BY <1>1
  <2>2. \A c, q : Pairs(state, c, q) => Pairs(state, c, q)'
    BY <2>1 DEF Pairs
  <2>3. PICK h : h = job.target
    OBVIOUS
  <2>4. Reads(h)' => Reads(h)
    BY <1>3
  <2>5. job.at = "delete" /\ Writing(job) => ~Reads(job.target)'
    BY <1>1, <2>3, <2>4 DEF FilesInv, NamesOK
  <2> QED
    BY <1>1, <2>1, <2>2, <2>5 DEF FilesInv, NamesOK
<1>6. used.damages = 0 => OnceOK'
  <2>1. SUFFICES ASSUME used.damages = 0 PROVE OnceOK'
    OBVIOUS
  <2>2. SoundOK /\ (job # None => WriteOK(job))
    BY <2>1, ToldFacts DEF FilesInv, DiskInv, Undamaged
  <2>3. ASSUME NEW h, Reads(h), ~Reads(h)'
        PROVE  state' = state /\ (\A k : k # h /\ Reads(k) => Reads(k)')
    BY <1>1, <1>2, <2>3
  <2>4. ASSUME Writing(job), job.previous # None, ~Reads(job.previous)'
        PROVE  state # None /\ FromCurrent(job) /\ BackupWithin /\ state' = state
    <3>1. PICK h : h = job.previous
      OBVIOUS
    <3>2. Reads(h)
      BY <2>2, <2>4, <3>1 DEF Writing, WriteOK
    <3>3. ~Reads(h)'
      BY <1>1, <2>4, <3>1
    <3>4. state' = state
      BY <2>3, <3>2, <3>3
    <3>5. FromCurrent(job) /\ state # None
      BY <2>2, <2>4 DEF SoundOK, FromCurrent, Chosen
    <3> QED
      BY <2>2, <3>4, <3>5 DEF SoundOK
  <2>5. ASSUME job # None, job.at \in {"backup", "state"}, ~Reads(job.target)'
        PROVE  /\ FromCurrent(job) /\ state' = state
               /\ IF state = None THEN backup = None ELSE BackupWithin
               /\ \A g \in {job.previous, job.rollback} \ {None, job.target} : Reads(g)'
    <3>1. PICK h : h = job.target
      OBVIOUS
    <3>2. Reads(h)
      BY <2>2, <2>5, <3>1 DEF WriteOK
    <3>3. ~Reads(h)'
      BY <1>1, <2>5, <3>1
    <3>4. state' = state /\ (\A k : k # h /\ Reads(k) => Reads(k)')
      BY <2>3, <3>2, <3>3
    <3>5. \A g \in {job.previous, job.rollback} \ {None, job.target} : Reads(g)
      BY <2>2, <2>5 DEF WriteOK
    <3> QED
      BY <2>2, <2>5, <3>1, <3>4, <3>5 DEF SoundOK, Writing
  <2>6. job # None /\ job.at = "prune" =>
          /\ Named(state)' \subseteq {job.target, job.rollback}
          /\ Named(backup) \subseteq {job.target, job.rollback}
    BY <1>4, <2>2 DEF WriteOK
  <2>7. state' = state => /\ FromCurrent(job) => FromCurrent(job)'
                          /\ BackupWithin => BackupWithin'
    BY <1>1, <1>4 DEF FromCurrent, Chosen, BackupWithin
  <2>8. Writing(job)' <=> Writing(job)
    BY <1>1 DEF Writing
  <2> QED
    BY <1>1, <1>4, <2>4, <2>5, <2>6, <2>7, <2>8 DEF OnceOK
<1> QED
  BY <1>1, <1>5, <1>6 DEF FilesInv

\* A damage makes a reader fall back, and no further.
LEMMA DamagePromise ==
  ASSUME ToldInv, ToldInv', FilesInv, Damage
  PROVE  FilesInv' /\ KeepsPromise
<1>1. /\ used'.damages = used.damages + 1 /\ used.damages \in Nat
      /\ backup' = backup /\ job' = job
      /\ (state # None /\ state' = None /\ Whole' = Whole)
         \/ (state' = state /\ \E g : Whole' = Whole \ {g})
  BY ToldFacts, DamageIs
<1>2. DiskKinds /\ DiskKinds' /\ NamesOK /\ FilesInv'
  BY DiskKindsHold, DiskKindsNext, DamageNames DEF FilesInv
<1>3. /\ Now = Select(state, backup, Whole)
      /\ AfterDamage = Select(state, backup, Whole \ {Now})
      /\ Now' = Select(state', backup', Whole')
      /\ AfterDamage' = Select(state', backup', Whole' \ {Now'})
  BY Selects, SelectsNext DEF Selected
<1>4. None \notin Whole
  BY <1>2 DEF DiskKinds
<1>5. Now' \in {Now, AfterDamage}
  <2>1. CASE state # None /\ state' = None /\ Whole' = Whole
    <3>1. /\ state.previous # None => backup # None
          /\ backup # None => Pairs(state, backup.current, backup.previous)
      BY <1>2, <2>1 DEF NamesOK
    <3>2. Now' = Select(None, backup, Whole)
      BY <1>1, <1>3, <2>1
    <3> QED
      BY <1>3, <1>4, <2>1, <3>1, <3>2, PointerLost
  <2>2. ASSUME NEW g, state' = state, Whole' = Whole \ {g}
        PROVE  Now' \in {Now, AfterDamage}
    <3>1. CASE g = Now
      BY <1>1, <1>3, <2>2, <3>1
    <3>2. CASE g # Now
      <4>1. Now \in (Whole \ {g}) \cup {None}
        BY <1>2, <3>2 DEF DiskKinds
      <4>2. Now' = Select(state, backup, Whole \ {g})
        BY <1>1, <1>3, <2>2
      <4> QED
        BY <1>3, <1>4, <4>1, <4>2, SelectFewer
    <3> QED
      BY <3>1, <3>2
  <2> QED
    BY <1>1, <2>1, <2>2
<1>6. used.damages = 0 => AfterDamage' \in {AfterDamage, None}
  <2>1. SUFFICES ASSUME used.damages = 0 PROVE AfterDamage' \in {AfterDamage, None}
    OBVIOUS
  <2>2. SoundOK /\ Now = Chosen /\ AfterDamage = Spare
        /\ Named(state) \cup Named(backup) \subseteq Whole
    BY <1>2, <2>1, SoundSelects DEF FilesInv, SoundChoice
  <2>3. Named(state) \cup Named(backup) \subseteq {Now, AfterDamage}
    BY <2>2 DEF SoundOK, BackupWithin, Chosen, Spare, Named
  <2>4. AfterDamage' # None =>
          AfterDamage' \in (Whole' \ {Now'}) \cap (Named(state') \cup Named(backup))
    BY <1>1, <1>2, <1>3, SelectIn DEF DiskKinds
  <2>5. Named(state') \subseteq Named(state)
    BY <1>1 DEF Named
  <2>6. CASE Now' = Now
    BY <2>3, <2>4, <2>5, <2>6
  <2>7. CASE Now' # Now /\ state' = state
    <3>1. PICK g : Whole' = Whole \ {g}
      BY <1>1, <2>7
    <3>2. g = Now
      <4>1. CASE g # Now
        <5>1. Now \in (Whole \ {g}) \cup {None}
          BY <1>2, <4>1 DEF DiskKinds
        <5> QED
          BY <1>1, <1>3, <1>4, <2>7, <3>1, <5>1, SelectFewer
      <4> QED
        BY <4>1
    <3> QED
      BY <1>5, <2>3, <2>4, <2>5, <2>7, <3>1, <3>2
  <2>8. CASE Now' # Now /\ state' # state
    <3>1. state # None /\ state' = None /\ Whole' = Whole
      BY <1>1, <2>8
    <3>2. CASE backup = None
      BY <2>4, <3>1, <3>2 DEF Named
    <3>3. CASE backup # None
      <4>1. backup.current # None /\ backup.current \in Whole
        BY <1>2, <2>2, <3>3 DEF NamesOK, Named
      <4>2. Now' = backup.current
        BY <1>1, <1>3, <3>1, <3>3, <4>1 DEF Select, First
      <4>3. Now = state.current /\ Now' = state.previous /\ Now' # None
        BY <1>5, <2>2, <2>8, <3>1, <4>1, <4>2 DEF Chosen, Spare
      <4>4. backup.previous \in {state.previous, None}
        BY <1>2, <2>8, <3>1, <3>3, <4>2, <4>3 DEF NamesOK, Pairs
      <4>5. Named(state') \cup Named(backup) \subseteq {Now'}
        BY <3>1, <3>3, <4>2, <4>3, <4>4 DEF Named
      <4> QED
        BY <2>4, <4>5
    <3> QED
      BY <3>2, <3>3
  <2> QED
    BY <2>6, <2>7, <2>8
<1>7. AfterDamage' \in {g \in Generation : ValidSet(g)} \cup {None}
  BY <1>2 DEF DiskKinds
<1>8. WriteInProgress' = WriteInProgress
  BY <1>1 DEF WriteInProgress
<1>9. Promise!LoseFile
  BY <1>1, <1>5, <1>6, <1>7, <1>8 DEF Promise!LoseFile, Now
<1> QED
  BY <1>2, <1>9 DEF KeepsPromise, Promise!PromiseNext

LEMMA PromiseStarts == ListsInit => FilesInv /\ Promise!PromiseInit
<1> SUFFICES ASSUME ListsInit PROVE FilesInv /\ Promise!PromiseInit
  OBVIOUS
<1>1. PICK g \in Installed \cup {None} :
        /\ state = IF g = None THEN None
                   ELSE [current |-> g, previous |-> None, checked |-> 0]
        /\ backup = None /\ job = None
  BY DEF ListsInit, StoreInit
<1>2. used.damages = 0
  BY UpdaterAssumption DEF ListsInit, Troubles
<1>3. state = None \/ (state # None /\ state.current = g /\ state.previous = None /\ g # None)
  BY <1>1
<1>4. NamesOK /\ SoundOK
  BY <1>1, <1>3 DEF NamesOK, SoundOK, BackupWithin, Named, Writing
<1>5. DiskKinds
  BY ToldStarts, DiskKindsHold
<1>6. AfterDamage = Spare
  BY <1>2, <1>4, <1>5, SoundSelects DEF SoundChoice
<1>7. Spare = None /\ WriteInProgress = None
  BY <1>1, <1>3 DEF Spare, WriteInProgress
<1>8. Now \in {h \in Generation : ValidSet(h)} \cup {None}
  BY <1>5 DEF DiskKinds
<1>9. Promise!PromiseInit
  BY <1>2, <1>6, <1>7, <1>8 DEF Promise!PromiseInit, Now
<1> QED
  BY <1>2, <1>4, <1>9 DEF FilesInv

LEMMA PromiseSteps ==
  ASSUME ToldInv, ToldInv', FilesInv, [ListsNext]_listVars
  PROVE  FilesInv' /\ KeepsPromise
<1>1. CASE Damage
  BY <1>1, DamagePromise
<1>2. CASE used'.damages = used.damages
  <2>1. CASE Worker
    BY <1>2, <2>1, WorkerPromise
  <2>2. CASE Tick \/ ClockSetBack
    BY <1>2, <2>2, TimePromise
  <2>3. CASE ProcessRestarts
    <3>1. UNCHANGED files /\ job' = None
      BY <2>3 DEF ProcessRestarts, Restart
    <3> QED
      BY <1>2, <3>1, EndsKeep
  <2>4. CASE Damage
    BY <2>4, DamagePromise
  <2>5. CASE ~(Worker \/ Tick \/ ClockSetBack \/ ProcessRestarts \/ Damage)
    BY <1>2, <2>5, QuietPromise DEF ListsNext
  <2> QED
    BY <2>1, <2>2, <2>3, <2>4, <2>5
<1> QED
  BY <1>1, <1>2, ToldFacts, DamagesSame

(* What the two pointer files and a write under way name stays in step:    *)
(* the second pointer, and what a write found, are what the first pointer  *)
(* names or has named; and a write that no longer reads what it found or   *)
(* made after one damaged file began from the first pointer, with every    *)
(* other generation it names whole (WriteFilterListSet,                    *)
(* ReadBaselineListStore).                                                 *)
THEOREM FilesInductive == ListsSpec => []FilesInv
<1>1. ListsInit => FilesInv
  BY PromiseStarts
<1>2. ToldInv /\ ToldInv' /\ FilesInv /\ [ListsNext]_listVars => FilesInv'
  BY PromiseSteps
<1> QED
  BY <1>1, <1>2, ToldInductive, PTL DEF ListsSpec

(* The files keep the promise of the store: a write of several files takes *)
(* effect as a whole or not at all wherever it fails or the process dies,  *)
(* keeps the set before it to fall back to, and nothing but a damaged file *)
(* makes a reader fall back (WriteFilterListSet, ReadBaselineListStore).   *)
THEOREM PromiseHolds == ListsSpec => ImplementsPromise
<1>1. ListsInit => Promise!PromiseInit
  BY PromiseStarts
<1>2. ToldInv /\ ToldInv' /\ FilesInv /\ [ListsNext]_listVars =>
        [Promise!PromiseNext]_(Promise!promiseVars)
  BY PromiseSteps DEF KeepsPromise
<1> QED
  BY <1>1, <1>2, ToldInductive, FilesInductive, PTL
     DEF ListsSpec, ImplementsPromise, Promise!PromiseSpec

-----------------------------------------------------------------------------
(* The request *)

RedirectTo(to) == [kind |-> "redirect", to |-> to]
PipeReply(kind) == [kind |-> kind, to |-> Nothing]
LastReplies == {PipeReply("complete"), PipeReply("disconnect")}

Messages == [kind: {"redirect", "response", "complete"},
             by: Addresses \cup {"network", "replacement", "blocked", "error"}]

AtWorker == net.url # Nothing /\ ~net.waits
Waiting == net.url # Nothing /\ net.waits

\* The network service and its messages, at each stage of a request it has.
LineOK ==
  \/ ~awaiting /\ inbox = <<>> /\ AtWorker
  \/ ~awaiting /\ inbox = <<RedirectTo(net.to)>> /\ Waiting /\ net.to \in Addresses
  \/ /\ awaiting /\ inbox = <<>> /\ Waiting /\ net.to \in Addresses
     /\ ~rewritten => url = net.to
  \/ /\ ~awaiting /\ net = NoFetch
     /\ \E to \in Addresses, last \in LastReplies : inbox = <<RedirectTo(to), last>>
  \/ /\ ~awaiting /\ net = NoFetch
     /\ \E last \in LastReplies : inbox = <<PipeReply("response"), last>>
  \/ /\ net = NoFetch
     /\ \E last \in LastReplies : inbox = <<last>>

PipesOK ==
  /\ url \in Addresses /\ main \in BOOLEAN
  /\ {awaiting, start, rewritten, upstream, writing, reported} \subseteq BOOLEAN
  /\ life \in {"new", "alive", "gone"}
  /\ life = "alive" <=> awaiting \/ writing \/ upstream
  /\ start => awaiting /\ ~upstream
  /\ awaiting => start \/ upstream
  /\ writing => ~awaiting /\ ~upstream
  /\ IF upstream THEN LineOK ELSE inbox = <<>> /\ net = NoFetch

OnlyRedirects(s) == \A i \in DOMAIN s : s[i].kind = "redirect"
OneResponse(s, by) ==
  \E i \in DOMAIN s : /\ s[i] = [kind |-> "response", by |-> by]
                      /\ \A j \in DOMAIN s \ {i} : s[j].kind = "redirect"

\* What the page was told, at each stage of a request.
SaidOK ==
  /\ sent \in Seq(Messages)
  /\ life = "new" => sent = <<>>
  /\ reported => life = "gone" \/ writing
  /\ writing => reported /\ OneResponse(sent, "replacement")
  /\ life = "alive" /\ ~writing =>
       \/ OnlyRedirects(sent)
       \/ /\ OneResponse(sent, "network")
          /\ ~awaiting /\ \E last \in LastReplies : inbox = <<last>>
  /\ life = "gone" => OneStory

RequestInv == PipesOK /\ SaidOK

LEMMA RewrittenKind ==
  ASSUME NEW u \in Addresses
  PROVE  RewrittenUrl(u) \in Addresses \cup {Nothing}
BY RequestAssumption DEF RewrittenUrl

LEMMA AtMostOne ==
  ASSUME NEW x, NEW S, S \subseteq {x}
  PROVE  Cardinality(S) <= 1
<1>1. CASE S = {}
  BY <1>1, FS_EmptySet
<1>2. CASE S # {}
  <2>1. S = {x}
    BY <1>2
  <2> QED
    BY <2>1, FS_Singleton
<1> QED
  BY <1>1, <1>2

\* What the page was told when something more is told it.
LEMMA ToldMore ==
  ASSUME NEW m \in Messages, sent \in Seq(Messages), Tell(<<m>>)
  PROVE  /\ sent' \in Seq(Messages)
         /\ Len(sent') = Len(sent) + 1
         /\ DOMAIN sent' = DOMAIN sent \cup {Len(sent')}
         /\ Len(sent') \notin DOMAIN sent
         /\ \A i \in DOMAIN sent : sent'[i] = sent[i]
         /\ sent'[Len(sent')] = m
BY DEF Tell

\* The last thing the page is told.
LEMMA LastTold ==
  ASSUME NEW how \in {"network", "replacement", "blocked", "error"},
         RequestInv, life \in {"new", "alive"}, Complete(how),
         \/ OnlyRedirects(sent) /\ how # "replacement"
         \/ OneResponse(sent, how) /\ how \in {"network", "replacement"},
         how \in {"blocked", "replacement"} => reported',
         url' \in Addresses, reported' \in BOOLEAN
  PROVE  RequestInv'
<1> DEFINE m == [kind |-> "complete", by |-> how]
<1>1. m \in Messages
  BY DEF Messages
<1>2. /\ sent' \in Seq(Messages)
      /\ Len(sent') = Len(sent) + 1
      /\ DOMAIN sent' = DOMAIN sent \cup {Len(sent')}
      /\ Len(sent') \notin DOMAIN sent
      /\ \A i \in DOMAIN sent : sent'[i] = sent[i]
      /\ sent'[Len(sent')] = m
  BY <1>1, ToldMore DEF Complete, RequestInv, SaidOK
<1>3. life' = "gone" /\ PipesOK'
  BY DEF Complete, Destroy, RequestInv, PipesOK
<1>4. \A i \in DOMAIN sent : sent[i].kind # "complete"
  BY DEF OnlyRedirects, OneResponse
<1>5. \A i \in DOMAIN sent' : sent'[i].kind = "complete" => i = Len(sent')
  BY <1>2, <1>4
<1>6. m.kind = "complete" /\ m.by = how
  OBVIOUS
<1> HIDE DEF m
<1>7. CASE OnlyRedirects(sent) /\ how # "replacement"
  <2>1. \A i \in DOMAIN sent' : sent'[i].kind # "response"
    BY <1>2, <1>6, <1>7 DEF OnlyRedirects
  <2>2. {i \in DOMAIN sent' : sent'[i].kind = "response"} \subseteq {0}
    BY <2>1
  <2>3. Cardinality({i \in DOMAIN sent' : sent'[i].kind = "response"}) <= 1
    BY <2>2, AtMostOne
  <2>4. \A by : ~Said("response", by)'
    BY <2>1 DEF Said
  <2>5. \A by : Said("complete", by)' => by = how
    BY <1>2, <1>5, <1>6 DEF Said
  <2> QED
    BY <1>2, <1>3, <1>5, <1>7, <2>3, <2>4, <2>5 DEF OneStory, RequestInv, SaidOK, PipesOK
<1>8. CASE OneResponse(sent, how) /\ how \in {"network", "replacement"}
  <2>1. PICK k \in DOMAIN sent : /\ sent[k] = [kind |-> "response", by |-> how]
                                 /\ \A j \in DOMAIN sent \ {k} : sent[j].kind = "redirect"
    BY <1>8 DEF OneResponse
  <2>2. \A i \in DOMAIN sent' : sent'[i].kind = "response" => i = k
    BY <1>2, <1>6, <2>1
  <2>3. {i \in DOMAIN sent' : sent'[i].kind = "response"} \subseteq {k}
    BY <2>2
  <2>4. Cardinality({i \in DOMAIN sent' : sent'[i].kind = "response"}) <= 1
    BY <2>3, AtMostOne
  <2>5. \A by : Said("response", by)' => by = how
    BY <1>2, <2>1, <2>2 DEF Said
  <2>6. Said("response", how)'
    BY <1>2, <2>1 DEF Said
  <2>7. \A by : Said("complete", by)' => by = how
    BY <1>2, <1>5, <1>6 DEF Said
  <2> QED
    BY <1>2, <1>3, <1>5, <1>8, <2>4, <2>5, <2>6, <2>7 DEF OneStory, RequestInv, SaidOK, PipesOK
<1> QED
  BY <1>7, <1>8


LEMMA RedirectTold ==
  ASSUME NEW to \in Addresses, PassRedirect(to), sent \in Seq(Messages),
         OnlyRedirects(sent), rewritten \in BOOLEAN
  PROVE  /\ sent' \in Seq(Messages) /\ OnlyRedirects(sent')
         /\ url' \in Addresses /\ awaiting' = TRUE /\ rewritten' \in BOOLEAN
         /\ ~rewritten' => url' = to
<1> DEFINE m == [kind |-> "redirect", by |-> url']
<1>1. url' \in Addresses /\ (~rewritten' => url' = to) /\ awaiting' = TRUE
      /\ rewritten' \in BOOLEAN /\ sent' = sent \o <<m>>
  BY RewrittenKind, RequestAssumption DEF PassRedirect, RewritePending, Or, Tell
<1>2. m \in Messages /\ m.kind = "redirect"
  BY <1>1 DEF Messages
<1> HIDE DEF m
<1>3. /\ sent' \in Seq(Messages)
      /\ DOMAIN sent' = DOMAIN sent \cup {Len(sent')}
      /\ \A i \in DOMAIN sent : sent'[i] = sent[i]
      /\ sent'[Len(sent')] = m
  BY <1>1, <1>2, ToldMore DEF Tell
<1>4. OnlyRedirects(sent')
  BY <1>2, <1>3 DEF OnlyRedirects
<1> QED
  BY <1>1, <1>3, <1>4

LEMMA ResponseTold ==
  ASSUME NEW by \in {"network", "replacement"}, sent \in Seq(Messages),
         OnlyRedirects(sent), Tell(<<[kind |-> "response", by |-> by]>>)
  PROVE  sent' \in Seq(Messages) /\ OneResponse(sent', by)
<1> DEFINE m == [kind |-> "response", by |-> by]
<1>1. m \in Messages
  BY DEF Messages
<1>2. /\ sent' \in Seq(Messages)
      /\ DOMAIN sent' = DOMAIN sent \cup {Len(sent')}
      /\ Len(sent') \notin DOMAIN sent
      /\ \A i \in DOMAIN sent : sent'[i] = sent[i]
      /\ sent'[Len(sent')] = m
  BY <1>1, ToldMore
<1> QED
  BY <1>2 DEF OnlyRedirects, OneResponse

LEMMA DecisionStep ==
  ASSUME NEW u \in Addresses, RequestInv, CompleteDecision(u),
         OnlyRedirects(sent), life \in {"new", "alive"}
  PROVE  RequestInv'
<1>1. reported' = TRUE /\ url' = u
  BY DEF CompleteDecision, Report
<1>2. CASE Complete("blocked") \/ Complete("error")
  BY <1>1, <1>2, LastTold
<1>3. ASSUME Tell(<<[kind |-> "response", by |-> "replacement"]>>), DropUpstream,
             writing' = TRUE, awaiting' = FALSE, start' = FALSE, life' = "alive",
             UNCHANGED <<main, rewritten, redirects>>
      PROVE  RequestInv'
  <2>1. sent' \in Seq(Messages) /\ OneResponse(sent', "replacement")
    BY <1>3, ResponseTold DEF RequestInv, SaidOK
  <2>2. PipesOK'
    BY <1>1, <1>3 DEF RequestInv, PipesOK, DropUpstream
  <2> QED
    BY <1>1, <1>3, <2>1, <2>2 DEF RequestInv, SaidOK
<1> QED
  BY <1>2, <1>3 DEF CompleteDecision

LEMMA StartStep ==
  ASSUME RequestInv, StartLoader
  PROVE  RequestInv'
<1>1. /\ life = "new" /\ sent = <<>> /\ ~reported /\ ~awaiting /\ ~start /\ ~writing
      /\ ~upstream /\ inbox = <<>> /\ net = NoFetch /\ url \in Addresses
  BY DEF StartLoader, RequestInv, SaidOK, PipesOK
<1>2. OnlyRedirects(sent) /\ sent \in Seq(Messages) /\ rewritten \in BOOLEAN
  BY <1>1 DEF OnlyRedirects, RequestInv, PipesOK
<1>3. CASE CompleteDecision(url)
  BY <1>1, <1>2, <1>3, DecisionStep
<1>4. ASSUME StartUpstream(url), life' = "alive",
             UNCHANGED <<main, url, awaiting, start, rewritten, writing, reported,
                         sent, redirects>>
      PROVE  RequestInv'
  <2>1. LineOK' /\ upstream' = TRUE
    BY <1>1, <1>4, RequestAssumption DEF StartUpstream, LineOK, AtWorker, NoFetch
  <2>2. PipesOK'
    BY <1>1, <1>4, <2>1 DEF PipesOK, RequestInv
  <2> QED
    BY <1>1, <1>2, <1>4, <2>2 DEF RequestInv, SaidOK, OnlyRedirects
<1>5. ASSUME RewrittenUrl(url) # Nothing, CompleteBlocked
      PROVE  RequestInv'
  BY <1>1, <1>2, <1>5, LastTold DEF CompleteBlocked, Report
<1>6. ASSUME RewrittenUrl(url) # Nothing, Defer, life' = "alive",
             PassRedirect(RewrittenUrl(url)),
             UNCHANGED <<main, upstream, writing, reported, net, inbox, redirects>>
      PROVE  RequestInv'
  <2>1. RewrittenUrl(url) \in Addresses
    BY <1>1, <1>6, RewrittenKind
  <2>2. /\ sent' \in Seq(Messages) /\ OnlyRedirects(sent')
        /\ url' \in Addresses /\ awaiting' = TRUE /\ rewritten' \in BOOLEAN
    BY <1>2, <1>6, <2>1, RedirectTold
  <2>3. PipesOK'
    BY <1>1, <1>6, <2>2 DEF PipesOK, RequestInv, Defer
  <2> QED
    BY <1>1, <1>6, <2>2, <2>3 DEF RequestInv, SaidOK
<1> QED
  BY <1>3, <1>4, <1>5, <1>6 DEF StartLoader

LEMMA FollowStep ==
  ASSUME NEW new \in Addresses \cup {Nothing}, RequestInv, FollowRedirect(new)
  PROVE  RequestInv'
<1> DEFINE target == Or(new, url)
           override == Or(RewrittenUrl(target), new)
           heard == IF override = Nothing /\ rewritten THEN url ELSE override
<1>1. /\ life = "alive" /\ awaiting = TRUE /\ writing = FALSE /\ url \in Addresses
      /\ rewritten \in BOOLEAN /\ main \in BOOLEAN /\ upstream \in BOOLEAN
      /\ start \in BOOLEAN /\ reported \in BOOLEAN
  BY DEF FollowRedirect, RequestInv, PipesOK
<1>2. OnlyRedirects(sent) /\ sent \in Seq(Messages) /\ reported = FALSE
  BY <1>1 DEF RequestInv, SaidOK
<1>3. target \in Addresses
  BY <1>1 DEF Or
<1>4. override \in Addresses \cup {Nothing}
  BY <1>3, RewrittenKind DEF Or
<1>5. heard \in Addresses \cup {Nothing}
  BY <1>1, <1>4
<1>6. \/ CompleteBlocked
      \/ CompleteDecision(target)
      \/ Complete("error") /\ UNCHANGED <<url, reported>>
      \/ /\ start /\ url' = Or(override, target)
         /\ StartUpstream(url')
         /\ start' = FALSE
         /\ awaiting' = FALSE
         /\ UNCHANGED <<life, main, rewritten, writing, reported, sent, redirects>>
      \/ /\ ~start /\ awaiting' = FALSE
         /\ upstream => /\ url' = Or(heard, target) /\ rewritten' = FALSE
                        /\ FollowUpstream(heard)
         /\ ~upstream => UNCHANGED <<url, rewritten, net, inbox>>
         /\ UNCHANGED <<life, main, start, upstream, writing, reported, sent,
                        redirects>>
  BY DEF FollowRedirect
<1> HIDE DEF target, override, heard
<1>7. CASE CompleteBlocked
  BY <1>1, <1>2, <1>7, LastTold DEF CompleteBlocked, Report
<1>8. CASE CompleteDecision(target)
  BY <1>1, <1>2, <1>3, <1>8, DecisionStep
<1>9. CASE Complete("error") /\ UNCHANGED <<url, reported>>
  BY <1>1, <1>2, <1>9, LastTold
<1>10. ASSUME start, url' = Or(override, target), StartUpstream(url'),
              start' = FALSE, awaiting' = FALSE,
              UNCHANGED <<life, main, rewritten, writing, reported, sent, redirects>>
       PROVE  RequestInv'
  <2>1. url' \in Addresses
    BY <1>3, <1>4, <1>10 DEF Or
  <2>2. LineOK' /\ upstream' = TRUE
    BY <1>10, <2>1, RequestAssumption DEF StartUpstream, LineOK, AtWorker, NoFetch
  <2>3. PipesOK'
    BY <1>1, <1>10, <2>1, <2>2 DEF PipesOK
  <2> QED
    BY <1>1, <1>2, <1>10, <2>3 DEF RequestInv, SaidOK, OnlyRedirects
<1>11. ASSUME ~start, upstream, awaiting' = FALSE, url' = Or(heard, target),
              rewritten' = FALSE, FollowUpstream(heard),
              UNCHANGED <<life, main, start, upstream, writing, reported, sent,
                          redirects>>
       PROVE  RequestInv'
  <2>1. url' \in Addresses
    BY <1>3, <1>5, <1>11 DEF Or
  <2>2. \/ inbox = <<>> /\ Waiting /\ net.to \in Addresses
        \/ net = NoFetch /\ \E last \in LastReplies : inbox = <<last>>
    BY <1>1, <1>11 DEF RequestInv, PipesOK, LineOK
  <2>3. LineOK'
    <3>1. CASE net = NoFetch /\ \E last \in LastReplies : inbox = <<last>>
      BY <1>11, <3>1 DEF FollowUpstream, NoFetch, LineOK
    <3>2. CASE inbox = <<>> /\ Waiting /\ net.to \in Addresses
      <4>1. CASE heard # Nothing /\ Origin[heard] # Origin[net.to]
        <5>1. net' = NoFetch /\ inbox' = <<PipeReply("complete")>>
          BY <1>11, <3>2, <4>1 DEF FollowUpstream, Waiting, PipeReply
        <5> QED
          BY <5>1 DEF LineOK, LastReplies
      <4>2. CASE ~(heard # Nothing /\ Origin[heard] # Origin[net.to])
        <5>1. /\ net' = [NoFetch EXCEPT !.url = Or(heard, net.to)]
              /\ inbox' = <<>>
          BY <1>11, <3>2, <4>2 DEF FollowUpstream, Waiting
        <5>2. Or(heard, net.to) \in Addresses
          BY <1>5, <3>2 DEF Or
        <5> QED
          BY <1>11, <5>1, <5>2, RequestAssumption DEF LineOK, AtWorker, NoFetch
      <4> QED
        BY <4>1, <4>2
    <3> QED
      BY <2>2, <3>1, <3>2
  <2>4. PipesOK'
    BY <1>1, <1>11, <2>1, <2>3 DEF PipesOK
  <2> QED
    BY <1>1, <1>2, <1>11, <2>4 DEF RequestInv, SaidOK, OnlyRedirects
<1> QED
  <2>1. start \/ upstream
    BY <1>1 DEF RequestInv, PipesOK
  <2> QED
    BY <1>1, <1>6, <1>7, <1>8, <1>9, <1>10, <1>11, <2>1

LEMMA GoneStep ==
  ASSUME RequestInv, PageGone
  PROVE  RequestInv'
<1>1. life = "alive" /\ life' = "gone" /\ sent' = sent /\ sent \in Seq(Messages)
  BY DEF PageGone, Destroy, RequestInv, SaidOK
<1>2. PipesOK' /\ writing' = FALSE
  BY DEF PageGone, Destroy, RequestInv, PipesOK
<1>3. reported' = reported
  BY DEF PageGone
<1>4. CASE OnlyRedirects(sent)
  <2>1. \A i \in DOMAIN sent' : sent'[i].kind = "redirect"
    BY <1>1, <1>4 DEF OnlyRedirects
  <2>2. \A by : ~Said("response", by)' /\ ~Said("complete", by)'
    BY <2>1 DEF Said
  <2>3. {i \in DOMAIN sent' : sent'[i].kind = "response"} \subseteq {0}
    BY <2>1
  <2>4. Cardinality({i \in DOMAIN sent' : sent'[i].kind = "response"}) <= 1
    BY <2>3, AtMostOne
  <2>5. OneStory'
    BY <1>1, <2>1, <2>2, <2>4 DEF OneStory
  <2> QED
    BY <1>1, <1>2, <2>5 DEF RequestInv, SaidOK
<1>5. ASSUME NEW by \in {"network", "replacement"}, OneResponse(sent, by),
             by = "replacement" => reported
      PROVE  RequestInv'
  <2>1. PICK k \in DOMAIN sent : /\ sent[k] = [kind |-> "response", by |-> by]
                                 /\ \A j \in DOMAIN sent \ {k} : sent[j].kind = "redirect"
    BY <1>5 DEF OneResponse
  <2>2. \A i \in DOMAIN sent' : /\ sent'[i].kind # "complete"
                                /\ sent'[i].kind = "response" => i = k
    BY <1>1, <2>1
  <2>3. \A a : ~Said("complete", a)'
    BY <2>2 DEF Said
  <2>4. \A a : Said("response", a)' => a = by
    BY <1>1, <2>1, <2>2 DEF Said
  <2>5. {i \in DOMAIN sent' : sent'[i].kind = "response"} \subseteq {k}
    BY <2>2
  <2>6. Cardinality({i \in DOMAIN sent' : sent'[i].kind = "response"}) <= 1
    BY <2>5, AtMostOne
  <2>7. OneStory'
    BY <1>1, <1>3, <1>5, <2>2, <2>3, <2>4, <2>6 DEF OneStory
  <2> QED
    BY <1>1, <1>2, <2>7 DEF RequestInv, SaidOK
<1> QED
  BY <1>1, <1>4, <1>5 DEF RequestInv, SaidOK

LEMMA CreateStep ==
  ASSUME RequestInv, CreateLoader
  PROVE  RequestInv'
<1>1. PipesOK'
  BY DEF CreateLoader, RequestInv, PipesOK
<1>2. sent' = <<>> /\ life' = "new" /\ ~reported' /\ ~writing'
  BY DEF CreateLoader, RequestInv, PipesOK
<1> QED
  BY <1>1, <1>2 DEF RequestInv, SaidOK

LEMMA NetworkRedirectStep ==
  ASSUME NEW to \in Addresses, RequestInv, NetworkRedirects(to)
  PROVE  RequestInv'
<1>1. upstream /\ ~awaiting /\ inbox = <<>> /\ AtWorker
  BY DEF NetworkRedirects, RequestInv, PipesOK, LineOK, NoFetch, AtWorker, Waiting,
         LastReplies, RedirectTo
<1>2. inbox' = <<RedirectTo(to)>> /\ net' = [net EXCEPT !.waits = TRUE, !.to = to]
  BY <1>1 DEF NetworkRedirects, RedirectTo
<1>3. net'.waits /\ net'.to = to /\ net'.url = net.url
  BY <1>1, <1>2 DEF RequestInv, PipesOK
<1>4. LineOK'
  BY <1>1, <1>2, <1>3 DEF NetworkRedirects, LineOK, Waiting, AtWorker
<1>5. PipesOK'
  BY <1>1, <1>4 DEF NetworkRedirects, RequestInv, PipesOK
<1> QED
  BY <1>1, <1>5 DEF NetworkRedirects, RequestInv, SaidOK, OneStory, Said

LEMMA Pair ==
  ASSUME NEW x, NEW y
  PROVE  <<x>> \o <<y>> = <<x, y>>
<1> DEFINE S == {x, y}
<1>1. <<x>> \in Seq(S) /\ <<y>> \in Seq(S) /\ <<x, y>> \in Seq(S)
  OBVIOUS
<1>2. <<x>> \o <<y>> \in Seq(S) /\ Len(<<x>> \o <<y>>) = 2
  BY <1>1
<1>3. (<<x>> \o <<y>>)[1] = x /\ (<<x>> \o <<y>>)[2] = y
  BY <1>1
<1>4. \A i \in 1..2 : (<<x>> \o <<y>>)[i] = <<x, y>>[i]
  BY <1>3
<1> QED
  BY <1>1, <1>2, <1>4, SeqEqual

LEMMA NetworkEndStep ==
  ASSUME NEW ending \in Endings, RequestInv, NetworkEnds(ending)
  PROVE  RequestInv'
<1>1. /\ upstream /\ net' = NoFetch
      /\ \/ ~awaiting /\ inbox = <<>> /\ AtWorker
         \/ /\ ~awaiting /\ inbox = <<RedirectTo(net.to)>> /\ Waiting
            /\ net.to \in Addresses
         \/ awaiting /\ inbox = <<>> /\ Waiting
  BY DEF NetworkEnds, RequestInv, PipesOK, LineOK, NoFetch
<1>2. \/ inbox' = inbox \o <<PipeReply("response"), PipeReply("complete")>>
      \/ inbox' = inbox \o <<PipeReply("response"), PipeReply("disconnect")>>
      \/ inbox' = inbox \o <<PipeReply("complete")>>
      \/ inbox' = inbox \o <<PipeReply("disconnect")>>
  <2>1. CASE ending = <<"response", "complete">>
    <3>1. [i \in DOMAIN ending |-> [kind |-> ending[i], to |-> Nothing]]
            = <<PipeReply("response"), PipeReply("complete")>>
      BY <2>1 DEF PipeReply
    <3> QED
      BY <3>1 DEF NetworkEnds
  <2>2. CASE ending = <<"response", "disconnect">>
    <3>1. [i \in DOMAIN ending |-> [kind |-> ending[i], to |-> Nothing]]
            = <<PipeReply("response"), PipeReply("disconnect")>>
      BY <2>2 DEF PipeReply
    <3> QED
      BY <3>1 DEF NetworkEnds
  <2>3. CASE ending = <<"complete">>
    <3>1. [i \in DOMAIN ending |-> [kind |-> ending[i], to |-> Nothing]]
            = <<PipeReply("complete")>>
      BY <2>3 DEF PipeReply
    <3> QED
      BY <3>1 DEF NetworkEnds
  <2>4. CASE ending = <<"disconnect">>
    <3>1. [i \in DOMAIN ending |-> [kind |-> ending[i], to |-> Nothing]]
            = <<PipeReply("disconnect")>>
      BY <2>4 DEF PipeReply
    <3> QED
      BY <3>1 DEF NetworkEnds
  <2> QED
    BY <2>1, <2>2, <2>3, <2>4 DEF Endings
<1>3. Waiting => \E last \in LastReplies : inbox' = inbox \o <<last>>
  <2>1. ASSUME Waiting PROVE ending = <<"complete">> \/ ending = <<"disconnect">>
    <3>1. Len(<<"response", "complete">>) = 2 /\ Len(<<"response", "disconnect">>) = 2
      OBVIOUS
    <3>2. Len(ending) = 1
      BY <2>1 DEF NetworkEnds, Waiting
    <3> QED
      BY <3>1, <3>2 DEF Endings
  <2>2. ASSUME NEW k \in {"complete", "disconnect"}, ending = <<k>>
        PROVE  \E last \in LastReplies : inbox' = inbox \o <<last>>
    <3>1. [i \in DOMAIN ending |-> [kind |-> ending[i], to |-> Nothing]]
            = <<PipeReply(k)>>
      BY <2>2 DEF PipeReply
    <3> QED
      BY <2>2, <3>1 DEF NetworkEnds, LastReplies
  <2> QED
    BY <2>1, <2>2
<1>4. LineOK'
  <2>1. CASE ~awaiting /\ inbox = <<>> /\ AtWorker
    BY <1>1, <1>2, <2>1 DEF NetworkEnds, LineOK, LastReplies
  <2>2. CASE ~awaiting /\ inbox = <<RedirectTo(net.to)>> /\ Waiting /\ net.to \in Addresses
    <3> DEFINE first == RedirectTo(net.to)
    <3>1. PICK last \in LastReplies : inbox' = inbox \o <<last>>
      BY <1>3, <2>2
    <3>2. inbox = <<first>>
      BY <2>2
    <3> HIDE DEF first
    <3>3. inbox' = <<first, last>>
      BY <3>1, <3>2, Pair
    <3>4. inbox' = <<RedirectTo(net.to), last>>
      BY <3>3 DEF first
    <3> QED
      BY <1>1, <2>2, <3>4 DEF NetworkEnds, LineOK
  <2>3. CASE awaiting /\ inbox = <<>> /\ Waiting
    BY <1>1, <1>3, <2>3 DEF LineOK
  <2> QED
    BY <1>1, <2>1, <2>2, <2>3
<1>5. PipesOK'
  BY <1>1, <1>4 DEF NetworkEnds, RequestInv, PipesOK
<1>6. life = "alive" /\ ~writing
  BY <1>1 DEF RequestInv, PipesOK
<1>7. OnlyRedirects(sent)
  <2>1. \A last \in LastReplies : RedirectTo(net.to) # last
    BY DEF RedirectTo, LastReplies, PipeReply
  <2>2. ~awaiting => ~\E last \in LastReplies : inbox = <<last>>
    BY <1>1, <2>1, SMTT(30)
  <2> QED
    BY <1>6, <2>2 DEF RequestInv, SaidOK
<1> QED
  BY <1>5, <1>6, <1>7 DEF NetworkEnds, RequestInv, SaidOK, OnlyRedirects

LEMMA RedirectStep ==
  ASSUME RequestInv, OnReceiveRedirect
  PROVE  RequestInv'
<1>1. PICK to \in Addresses :
        /\ Head(inbox).to = to
        /\ upstream /\ ~awaiting
        /\ \/ inbox = <<RedirectTo(to)>> /\ Waiting /\ net.to = to
           \/ net = NoFetch /\ \E last \in LastReplies : inbox = <<RedirectTo(to), last>>
  <2>1. upstream /\ inbox # <<>> /\ Head(inbox).kind = "redirect"
    BY DEF OnReceiveRedirect, Arrives, RequestInv, PipesOK
  <2>2. \A k \in {"response", "complete", "disconnect"} : PipeReply(k).kind # "redirect"
    BY DEF PipeReply
  <2> QED
    BY <2>1, <2>2 DEF RequestInv, PipesOK, LineOK, LastReplies, RedirectTo
<1>2. /\ life = "alive" /\ ~writing /\ ~start /\ rewritten \in BOOLEAN
      /\ sent \in Seq(Messages) /\ url \in Addresses
  BY <1>1 DEF RequestInv, SaidOK, PipesOK
<1>3. OnlyRedirects(sent)
  BY <1>1, <1>2 DEF RequestInv, SaidOK, RedirectTo, LastReplies, PipeReply
<1>4. CASE CompleteBlocked
  BY <1>2, <1>3, <1>4, LastTold DEF CompleteBlocked, Report
<1>5. ASSUME PassRedirect(to), inbox' = Tail(inbox),
             UNCHANGED <<life, main, start, upstream, writing, reported, net,
                         redirects>>
      PROVE  RequestInv'
  <2>1. /\ sent' \in Seq(Messages) /\ OnlyRedirects(sent')
        /\ url' \in Addresses /\ awaiting' = TRUE /\ rewritten' \in BOOLEAN
        /\ ~rewritten' => url' = to
    BY <1>2, <1>3, <1>5, RedirectTold
  <2>2. LineOK'
    <3>1. CASE inbox = <<RedirectTo(to)>> /\ Waiting /\ net.to = to
      <4>1. inbox' = <<>> /\ net' = net
        BY <1>5, <3>1
      <4> QED
        BY <2>1, <3>1, <4>1 DEF LineOK, Waiting
    <3>2. ASSUME NEW last \in LastReplies, net = NoFetch,
                 inbox = <<RedirectTo(to), last>>
          PROVE  LineOK'
      <4>1. inbox' = <<last>> /\ net' = NoFetch
        BY <1>5, <3>2
      <4> QED
        BY <4>1 DEF LineOK
    <3> QED
      BY <1>1, <3>1, <3>2
  <2>3. PipesOK'
    BY <1>1, <1>2, <1>5, <2>1, <2>2 DEF RequestInv, PipesOK
  <2> QED
    BY <1>2, <1>5, <2>1, <2>3 DEF RequestInv, SaidOK
<1> QED
  BY <1>1, <1>4, <1>5 DEF OnReceiveRedirect

LEMMA ResponseStep ==
  ASSUME RequestInv, OnReceiveResponse
  PROVE  RequestInv'
<1>1. PICK last \in LastReplies :
        /\ inbox = <<PipeReply("response"), last>> /\ net = NoFetch
        /\ upstream /\ ~awaiting
  <2>1. upstream /\ inbox # <<>> /\ Head(inbox).kind = "response"
    BY DEF OnReceiveResponse, Arrives, RequestInv, PipesOK
  <2>2. \A k \in {"complete", "disconnect"} : PipeReply(k).kind # "response"
    BY DEF PipeReply
  <2>3. \A to : RedirectTo(to).kind # "response"
    BY DEF RedirectTo
  <2> QED
    BY <2>1, <2>2, <2>3 DEF RequestInv, PipesOK, LineOK, LastReplies
<1>2. life = "alive" /\ ~writing /\ sent \in Seq(Messages)
  BY <1>1 DEF RequestInv, SaidOK, PipesOK
<1>3. OnlyRedirects(sent)
  BY <1>1, <1>2 DEF RequestInv, SaidOK
<1>4. sent' \in Seq(Messages) /\ OneResponse(sent', "network")
  BY <1>2, <1>3, ResponseTold DEF OnReceiveResponse
<1>5. inbox' = <<last>> /\ net' = NoFetch
  BY <1>1 DEF OnReceiveResponse
<1>6. PipesOK'
  BY <1>1, <1>5 DEF OnReceiveResponse, RequestInv, PipesOK, LineOK
<1> QED
  BY <1>1, <1>2, <1>4, <1>5, <1>6 DEF OnReceiveResponse, RequestInv, SaidOK

LEMMA EndStep ==
  ASSUME RequestInv, OnComplete \/ UpstreamDisconnected \/ ReplacementWritten
  PROVE  RequestInv'
<1>1. CASE ReplacementWritten
  BY <1>1, LastTold DEF ReplacementWritten, RequestInv, SaidOK, PipesOK
<1>2. CASE OnComplete \/ UpstreamDisconnected
  <2>1. life = "alive" /\ ~writing
    <3>1. CASE inbox # <<>>
      BY <3>1 DEF RequestInv, PipesOK
    <3>2. CASE inbox = <<>>
      BY <1>2, <3>2
         DEF OnComplete, UpstreamDisconnected, Arrives, RequestInv, PipesOK
    <3> QED
      BY <3>1, <3>2
  <2>2. Complete("network") /\ UNCHANGED <<url, reported>>
    BY <1>2 DEF OnComplete, UpstreamDisconnected
  <2>3. OnlyRedirects(sent) \/ OneResponse(sent, "network")
    BY <2>1 DEF RequestInv, SaidOK
  <2>4. url' \in Addresses /\ reported' \in BOOLEAN
    BY <2>2 DEF RequestInv, PipesOK
  <2> QED
    BY <2>1, <2>2, <2>3, <2>4, LastTold
<1> QED
  BY <1>1, <1>2

\* What the page is told and what is on its way at every stage of a request.
THEOREM RequestInductive == FilterSpec => []RequestInv
<1>1. FilterInit => RequestInv
  <2> SUFFICES ASSUME FilterInit PROVE RequestInv
    OBVIOUS
  <2>1. PipesOK
    BY DEF FilterInit, PipesOK
  <2>2. SaidOK
    BY DEF FilterInit, SaidOK
  <2> QED
    BY <2>1, <2>2 DEF RequestInv
<1>2. RequestInv /\ [FilterNext]_filterVars => RequestInv'
  <2> SUFFICES ASSUME RequestInv, [FilterNext]_filterVars
               PROVE  RequestInv'
    OBVIOUS
  <2>1. CASE SettingsChange \/ UNCHANGED filterVars
    <3>1. UNCHANGED requestVars
      BY <2>1 DEF SettingsChange, filterVars
    <3>2. LineOK' = LineOK
      BY <3>1 DEF requestVars, LineOK, AtWorker, Waiting
    <3>3. PipesOK'
      BY <3>1, <3>2 DEF requestVars, RequestInv, PipesOK
    <3>4. OneStory' = OneStory
      BY <3>1 DEF requestVars, OneStory, Said
    <3>5. SaidOK'
      BY <3>1, <3>4 DEF requestVars, RequestInv, SaidOK
    <3> QED
      BY <3>3, <3>5 DEF RequestInv
  <2> QED
    BY <2>1, CreateStep, StartStep, FollowStep, GoneStep, NetworkRedirectStep,
       NetworkEndStep, RedirectStep, ResponseStep, EndStep DEF FilterNext
<1> QED
  BY <1>1, <1>2, PTL DEF FilterSpec

(* The user's settings, whose list of domains stays within its bound.      *)

LEMMA RulesAre ==
  ASSUME NEW f \in Rules
  PROVE  /\ DOMAIN f \subseteq Hosts /\ IsFiniteSet(DOMAIN f)
         /\ Cardinality(DOMAIN f) \in Nat
         /\ f = [d \in DOMAIN f |-> f[d]] /\ \A d \in DOMAIN f : f[d] \in BOOLEAN
<1>1. PICK S \in SUBSET Hosts : f \in [S -> BOOLEAN]
  BY DEF Rules
<1>2. IsFiniteSet(S)
  BY FiniteHosts, FS_Subset
<1> QED
  BY <1>1, <1>2, FS_CardinalityType

LEMMA AreRules ==
  ASSUME NEW S, S \subseteq Hosts, NEW f \in [S -> BOOLEAN]
  PROVE  f \in Rules
BY DEF Rules

LEMMA SettingsStart ==
  ASSUME SettingsInit
  PROVE  SettingsTypeOK
<1>1. blocked \in [{} -> BOOLEAN] /\ DOMAIN blocked = {}
  BY DEF SettingsInit
<1>2. blocked \in Rules /\ Cardinality(DOMAIN blocked) = 0
  BY <1>1, AreRules, FS_EmptySet
<1> QED
  BY <1>2, SettingsAssumption DEF SettingsInit, SettingsTypeOK

LEMMA SiteIsSet ==
  ASSUME SettingsTypeOK, NEW h \in Hosts, NEW on \in BOOLEAN,
         SetEnabledForSite(h, on)
  PROVE  SettingsTypeOK'
BY DEF SettingsTypeOK, SetEnabledForSite

\* An added domain finds room, a changed one takes none.
LEMMA DomainIsSet ==
  ASSUME SettingsTypeOK, NEW h \in Hosts, NEW on \in BOOLEAN,
         NEW replace \in BOOLEAN, SetBlockedDomain(h, on, replace)
  PROVE  SettingsTypeOK'
<1> DEFINE D == DOMAIN blocked
<1>1. /\ D \subseteq Hosts /\ IsFiniteSet(D) /\ Cardinality(D) \in Nat
      /\ \A d \in D : blocked[d] \in BOOLEAN
  BY RulesAre DEF SettingsTypeOK
<1>2. blocked' \in [D \cup {h} -> BOOLEAN]
  BY <1>1 DEF SetBlockedDomain
<1>3. blocked' \in Rules
  BY <1>1, <1>2, AreRules
<1>4. Cardinality(D \cup {h}) <= MaxBlockedDomains
  <2>1. Cardinality(D \cup {h}) = IF h \in D THEN Cardinality(D)
                                  ELSE Cardinality(D) + 1
    BY <1>1, FS_AddElement
  <2>2. Cardinality(D) <= MaxBlockedDomains
    BY DEF SettingsTypeOK
  <2>3. h \in D \/ Cardinality(D) # MaxBlockedDomains
    BY DEF SetBlockedDomain
  <2> QED
    BY <1>1, <2>1, <2>2, <2>3, SettingsAssumption
<1>5. DOMAIN blocked' = D \cup {h}
  BY <1>2
<1> QED
  BY <1>3, <1>4, <1>5 DEF SetBlockedDomain, SettingsTypeOK

LEMMA DomainsAreRemoved ==
  ASSUME SettingsTypeOK, NEW H, RemoveBlockedDomains(H)
  PROVE  SettingsTypeOK'
<1> DEFINE D == DOMAIN blocked
<1>1. /\ D \subseteq Hosts /\ IsFiniteSet(D)
      /\ Cardinality(D) \in Nat /\ Cardinality(D) <= MaxBlockedDomains
      /\ \A d \in D : blocked[d] \in BOOLEAN
  BY RulesAre DEF SettingsTypeOK
<1>2. blocked' \in [D \ H -> BOOLEAN] /\ DOMAIN blocked' = D \ H
  BY <1>1 DEF RemoveBlockedDomains, Restrict
<1>3. blocked' \in Rules
  BY <1>1, <1>2, AreRules
<1>4. /\ IsFiniteSet(D \ H) /\ Cardinality(D \ H) <= Cardinality(D)
  BY <1>1, FS_Subset
<1>5. Cardinality(D \ H) \in Nat
  BY <1>4, FS_CardinalityType
<1>6. Cardinality(D \ H) <= MaxBlockedDomains
  BY <1>1, <1>4, <1>5, SettingsAssumption
<1> QED
  BY <1>2, <1>3, <1>6 DEF RemoveBlockedDomains, SettingsTypeOK

\* An import that would be too long changes nothing.
LEMMA FileIsImported ==
  ASSUME SettingsTypeOK, ImportBlockedDomains
  PROVE  SettingsTypeOK'
<1> DEFINE D == DOMAIN blocked \cup DOMAIN file
<1>1. file \in Rules
  BY DEF SettingsTypeOK, ImportBlockedDomains
<1>2. /\ D \subseteq Hosts /\ IsFiniteSet(D)
      /\ \A d \in DOMAIN blocked : blocked[d] \in BOOLEAN
      /\ \A d \in DOMAIN file : file[d] \in BOOLEAN
  BY <1>1, RulesAre, FS_Union DEF SettingsTypeOK
<1>3. Merged \in [D -> BOOLEAN] /\ DOMAIN Merged = D
  BY <1>2 DEF Merged
<1>4. Merged \in Rules
  BY <1>2, <1>3, AreRules
<1>5. Cardinality(D) \in Nat
  BY <1>2, FS_CardinalityType
<1>6. ~TooMany(Merged) => Cardinality(DOMAIN Merged) <= MaxBlockedDomains
  BY <1>3, <1>5, SettingsAssumption DEF TooMany
<1>7. /\ blocked' \in Rules /\ Cardinality(DOMAIN blocked') <= MaxBlockedDomains
  BY <1>4, <1>6 DEF ImportBlockedDomains, SettingsTypeOK
<1> QED
  BY <1>7 DEF ImportBlockedDomains, SettingsTypeOK

LEMMA SettingsKept ==
  ASSUME SettingsTypeOK, UserChanges \/ FileParsed \/ UNCHANGED settingsVars
  PROVE  SettingsTypeOK'
<1>1. CASE UserChanges
  <2>1. ASSUME NEW f \in Rules, ReadDomainFile(f) PROVE SettingsTypeOK'
    BY <2>1 DEF ReadDomainFile, SettingsTypeOK
  <2> QED
    BY <1>1, <2>1, SiteIsSet, DomainIsSet, DomainsAreRemoved DEF UserChanges
<1>2. CASE FileParsed
  <2>1. CASE PageClosed
    BY <2>1 DEF PageClosed, SettingsTypeOK
  <2> QED
    BY <1>2, <2>1, FileIsImported DEF FileParsed
<1>3. CASE UNCHANGED settingsVars
  BY <1>3 DEF settingsVars, SettingsTypeOK
<1> QED
  BY <1>1, <1>2, <1>3

LEMMA NetKept ==
  ASSUME RequestInv, net \in NetStates, [FilterNext]_filterVars
  PROVE  net' \in NetStates
<1> USE DEF NetStates, NoFetch
<1>1. \A u \in Addresses : [NoFetch EXCEPT !.url = u] \in NetStates
  OBVIOUS
<1>2. NoFetch \in NetStates
  OBVIOUS
<1>3. url \in Addresses
  BY DEF RequestInv, PipesOK
<1>4. CASE StartLoader
  <2>1. net' = net \/ net' = NoFetch \/ net' = [NoFetch EXCEPT !.url = url]
    BY <1>4 DEF StartLoader, CompleteDecision, Complete, Destroy, DropUpstream,
                StartUpstream, CompleteBlocked
  <2> QED
    BY <1>1, <1>2, <1>3, <2>1
<1>5. ASSUME NEW new \in Addresses \cup {Nothing}, FollowRedirect(new)
      PROVE  net' \in NetStates
  <2> DEFINE target == Or(new, url)
             override == Or(RewrittenUrl(target), new)
             heard == IF override = Nothing /\ rewritten THEN url ELSE override
  <2>1. target \in Addresses
    BY <1>3 DEF Or
  <2>2. override \in Addresses \cup {Nothing} /\ heard \in Addresses \cup {Nothing}
    BY <1>3, <2>1, RewrittenKind DEF Or
  <2>3. Or(override, target) \in Addresses
    BY <2>1, <2>2 DEF Or
  <2>4. Or(heard, net.to) \in Addresses \cup {Nothing}
    BY <2>2 DEF Or
  <2> HIDE DEF target, override, heard
  <2>5. \/ net' = net \/ net' = NoFetch
        \/ net' = [NoFetch EXCEPT !.url = Or(override, target)]
        \/ net' = [NoFetch EXCEPT !.url = Or(heard, net.to)]
    BY <1>5 DEF FollowRedirect, CompleteBlocked, CompleteDecision, Complete, Destroy,
                DropUpstream, StartUpstream, FollowUpstream, target, override, heard
  <2> QED
    BY <1>1, <1>2, <2>3, <2>4, <2>5
<1>6. ASSUME NEW to \in Addresses, NetworkRedirects(to)
      PROVE  net' \in NetStates
  BY <1>6 DEF NetworkRedirects
<1>7. CASE \/ SettingsChange \/ CreateLoader \/ PageGone \/ OnReceiveRedirect
           \/ OnReceiveResponse \/ OnComplete \/ UpstreamDisconnected
           \/ ReplacementWritten \/ UNCHANGED filterVars
           \/ \E ending \in Endings : NetworkEnds(ending)
  <2>1. net' = net \/ net' = NoFetch
    BY <1>7 DEF SettingsChange, requestVars, CreateLoader, PageGone, Destroy,
                OnReceiveRedirect, CompleteBlocked, Complete, OnReceiveResponse,
                OnComplete, UpstreamDisconnected, ReplacementWritten, filterVars,
                NetworkEnds
  <2> QED
    BY <1>2, <2>1
<1> QED
  BY <1>4, <1>5, <1>6, <1>7 DEF FilterNext

(* Whatever the user changes, imports among it that were parsed before     *)
(* other changes, the blocked domains stay within their number; and the    *)
(* loader's pipes, deferred start and replacement exclude each other       *)
(* (content_blocking_service.cc, filtering_url_loader_factory.cc).         *)
THEOREM FilterTyped == FilterSpec => []FilterTypeOK
<1> DEFINE TInv == SettingsTypeOK /\ net \in NetStates
<1>1. FilterInit => TInv
  BY SettingsStart DEF FilterInit, NetStates, NoFetch
<1>2. RequestInv /\ TInv /\ [FilterNext]_filterVars => TInv'
  <2> SUFFICES ASSUME RequestInv, TInv, [FilterNext]_filterVars PROVE TInv'
    OBVIOUS
  <2>1. CASE SettingsChange
    BY <2>1, SettingsKept, NetKept DEF SettingsChange
  <2>2. CASE ~SettingsChange
    <3>1. UNCHANGED settingsVars
      BY <2>2 DEF FilterNext, filterVars, CreateLoader, StartLoader, FollowRedirect,
                  PageGone, NetworkRedirects, NetworkEnds, OnReceiveRedirect,
                  OnReceiveResponse, OnComplete, UpstreamDisconnected,
                  ReplacementWritten
    <3> QED
      BY <3>1, SettingsKept, NetKept
  <2> QED
    BY <2>1, <2>2
<1>3. RequestInv /\ TInv => FilterTypeOK
  BY DEF RequestInv, PipesOK, FilterTypeOK
<1> HIDE DEF TInv
<1> QED
  BY RequestInductive, <1>1, <1>2, <1>3, PTL DEF FilterSpec

(* A request is never left with nothing to move it on, and its page hears  *)
(* one story, once, for any addresses, rules and settings (Destroy,        *)
(* CompleteDecision, FollowRedirect, UpstreamDisconnected).                *)
THEOREM StoryHolds == FilterSpec => []StoryIsTold
<1>1. RequestInv => NeverStranded
  <2> SUFFICES ASSUME RequestInv, upstream, ~awaiting
               PROVE  inbox # <<>> \/ AtWorker
    BY DEF RequestInv, PipesOK, AtWorker, NeverStranded
  <2>1. LineOK
    BY DEF RequestInv, PipesOK
  <2> QED
    BY <2>1 DEF LineOK
<1>2. RequestInv => OneStory
  <2> SUFFICES ASSUME RequestInv PROVE OneStory
    OBVIOUS
  <2>1. CASE OnlyRedirects(sent) /\ life # "gone"
    <3>1. {i \in DOMAIN sent : sent[i].kind = "response"} \subseteq {0}
      BY <2>1 DEF OnlyRedirects
    <3>2. Cardinality({i \in DOMAIN sent : sent[i].kind = "response"}) <= 1
      BY <3>1, AtMostOne
    <3> QED
      BY <2>1, <3>2 DEF OneStory, OnlyRedirects, Said, RequestInv, SaidOK
  <2>2. ASSUME NEW by \in {"network", "replacement"}, OneResponse(sent, by),
               life # "gone", by = "replacement" => reported
        PROVE  OneStory
    <3>1. PICK k \in DOMAIN sent :
            /\ sent[k] = [kind |-> "response", by |-> by]
            /\ \A j \in DOMAIN sent \ {k} : sent[j].kind = "redirect"
      BY <2>2 DEF OneResponse
    <3>2. \A i \in DOMAIN sent : sent[i].kind # "complete"
      BY <3>1
    <3>3. {i \in DOMAIN sent : sent[i].kind = "response"} \subseteq {k}
      BY <3>1
    <3>4. Cardinality({i \in DOMAIN sent : sent[i].kind = "response"}) <= 1
      BY <3>3, AtMostOne
    <3> QED
      BY <2>2, <3>1, <3>2, <3>4 DEF OneStory, Said, RequestInv, SaidOK
  <2>3. CASE life = "new"
    <3>1. OnlyRedirects(sent)
      BY <2>3 DEF RequestInv, SaidOK, OnlyRedirects
    <3> QED
      BY <2>1, <2>3, <3>1
  <2>4. CASE life = "alive"
    BY <2>1, <2>2, <2>4 DEF RequestInv, SaidOK
  <2>5. CASE life = "gone"
    BY <2>5 DEF RequestInv, SaidOK
  <2> QED
    BY <2>3, <2>4, <2>5 DEF RequestInv, PipesOK
<1> QED
  BY <1>1, <1>2, RequestInductive, PTL DEF StoryIsTold

\* What is fetched when the page follows: the address the page asks for, or
\* its rewriting.
LEMMA FollowedFetch ==
  ASSUME NEW new \in Addresses \cup {Nothing}, RequestInv, FollowRedirect(new),
         Fetches
  PROVE  /\ Evaluate(Or(new, url)) = "allow"
         /\ net'.url = Or(Or(RewrittenUrl(Or(new, url)), new), Or(new, url))
<1> DEFINE target == Or(new, url)
           override == Or(RewrittenUrl(target), new)
           heard == IF override = Nothing /\ rewritten THEN url ELSE override
<1>1. /\ awaiting /\ url \in Addresses /\ Nothing \notin Addresses
      /\ upstream => \/ inbox = <<>> /\ Waiting /\ (~rewritten => url = net.to)
                     \/ net = NoFetch
  BY RequestAssumption DEF FollowRedirect, RequestInv, PipesOK, LineOK
<1>2. net'.url # Nothing /\ net' # net
  BY DEF Fetches
<1>3. ~(CompleteBlocked \/ CompleteDecision(target) \/ Complete("error"))
  BY <1>2 DEF CompleteBlocked, CompleteDecision, Complete, Destroy, DropUpstream,
              NoFetch
<1>4. \/ /\ Evaluate(target) = "allow" /\ url' = Or(override, target)
         /\ StartUpstream(url')
      \/ /\ Evaluate(target) = "allow" /\ ~start
         /\ IF upstream THEN FollowUpstream(heard) ELSE net' = net
  BY <1>3 DEF FollowRedirect, FollowDecision
<1>5. target \in Addresses
  BY <1>1 DEF Or
<1>6. override = Nothing => new = Nothing /\ target = url
  BY <1>5, RewrittenKind DEF Or
<1> HIDE DEF target, override, heard
<1>7. CASE Evaluate(target) = "allow" /\ url' = Or(override, target)
           /\ StartUpstream(url')
  <2>1. net'.url = url'
    BY <1>7 DEF StartUpstream, NoFetch
  <2> QED
    BY <1>7, <2>1 DEF target, override
<1>8. CASE Evaluate(target) = "allow" /\ upstream /\ FollowUpstream(heard)
  <2>1. Waiting /\ (~rewritten => url = net.to)
    BY <1>1, <1>2, <1>8 DEF FollowUpstream, NoFetch
  <2>2. net'.url = Or(heard, net.to)
    BY <1>2, <1>8, <2>1 DEF FollowUpstream, Waiting, NoFetch
  <2>3. Or(heard, net.to) = Or(override, target)
    <3>1. CASE override # Nothing
      BY <3>1 DEF heard, Or
    <3>2. CASE override = Nothing /\ rewritten
      BY <1>1, <1>6, <3>2 DEF heard, Or
    <3>3. CASE override = Nothing /\ ~rewritten
      BY <1>6, <2>1, <3>3 DEF heard, Or
    <3> QED
      BY <3>1, <3>2, <3>3
  <2> QED
    BY <1>8, <2>2, <2>3 DEF target, override
<1> QED
  BY <1>2, <1>4, <1>7, <1>8

\* Only the start of a request and the page's following fetch something.
LEMMA FetchSteps ==
  ASSUME RequestInv, [FilterNext]_filterVars, Fetches
  PROVE  \/ StartLoader
         \/ \E new \in Addresses \cup {Nothing} : FollowRedirect(new)
<1>1. net' # net /\ net'.url # Nothing /\ ~net'.waits
  BY DEF Fetches
<1>2. ~UNCHANGED filterVars /\ ~SettingsChange /\ ~CreateLoader /\ ~OnReceiveResponse
  BY <1>1 DEF filterVars, requestVars, SettingsChange, CreateLoader, OnReceiveResponse
<1>3. ~Destroy
  BY <1>1 DEF Destroy, NoFetch
<1>4. ~PageGone /\ ~OnComplete /\ ~UpstreamDisconnected /\ ~ReplacementWritten
      /\ ~CompleteBlocked
  BY <1>3 DEF PageGone, OnComplete, UpstreamDisconnected, ReplacementWritten,
              CompleteBlocked, Complete
<1>5. ~OnReceiveRedirect
  BY <1>1, <1>4 DEF OnReceiveRedirect
<1>6. ASSUME NEW to \in Addresses PROVE ~NetworkRedirects(to)
  <2>1. ASSUME NetworkRedirects(to) PROVE net'.waits
    <3>1. upstream
      BY <2>1 DEF NetworkRedirects, RequestInv, PipesOK, NoFetch
    <3>2. AtWorker
      BY <2>1 DEF NetworkRedirects, AtWorker
    <3> QED
      BY <2>1 DEF NetworkRedirects
  <2> QED
    BY <1>1, <2>1
<1>7. ASSUME NEW ending \in Endings PROVE ~NetworkEnds(ending)
  BY <1>1 DEF NetworkEnds, NoFetch
<1> QED
  BY <1>2, <1>4, <1>5, <1>6, <1>7 DEF FilterNext

(* Nothing is ever fetched but what the settings and rules of that moment  *)
(* allow, and a page that follows gets what it was told, for any addresses,*)
(* rules and settings (Start, FollowRedirect).                             *)
THEOREM FetchHolds == FilterSpec => FetchIsRight
<1>1. RequestInv /\ [FilterNext]_filterVars
        => (Fetches => \E u \in Addresses :
              Evaluate(u) = "allow" /\ net'.url \in {u, RewrittenUrl(u)})
  <2> SUFFICES ASSUME RequestInv, [FilterNext]_filterVars, Fetches
               PROVE  \E u \in Addresses :
                        Evaluate(u) = "allow" /\ net'.url \in {u, RewrittenUrl(u)}
    OBVIOUS
  <2>1. url \in Addresses
    BY DEF RequestInv, PipesOK
  <2>2. CASE StartLoader
    <3>1. net'.url # Nothing
      BY DEF Fetches
    <3>2. ~CompleteDecision(url) /\ ~CompleteBlocked
      BY <3>1 DEF CompleteBlocked, CompleteDecision, Complete, Destroy, DropUpstream,
                  NoFetch
    <3>3. net' # net
      BY DEF Fetches
    <3>4. Evaluate(url) = "allow" /\ StartUpstream(url)
      BY <2>2, <3>2, <3>3 DEF StartLoader
    <3> QED
      BY <2>1, <3>4 DEF StartUpstream, NoFetch
  <2>3. ASSUME NEW new \in Addresses \cup {Nothing}, FollowRedirect(new)
        PROVE  \E u \in Addresses :
                 Evaluate(u) = "allow" /\ net'.url \in {u, RewrittenUrl(u)}
    <3> DEFINE target == Or(new, url)
    <3>1. target \in Addresses
      BY <2>1, <2>3 DEF Or
    <3>2. /\ Evaluate(target) = "allow"
          /\ net'.url = Or(Or(RewrittenUrl(target), new), target)
      BY <2>3, FollowedFetch
    <3>3. new = Nothing \/ new = target
      BY DEF Or
    <3> HIDE DEF target
    <3>4. net'.url \in {target, RewrittenUrl(target)}
      BY <3>2, <3>3 DEF Or
    <3> QED
      BY <3>1, <3>2, <3>4
  <2> QED
    BY <2>2, <2>3, FetchSteps
<1>2. RequestInv => (FollowRedirect(Nothing) /\ Fetches =>
                       net'.url = Or(RewrittenUrl(url), url))
  <2> SUFFICES ASSUME RequestInv, FollowRedirect(Nothing), Fetches
               PROVE  net'.url = Or(RewrittenUrl(url), url)
    OBVIOUS
  <2>1. net'.url = Or(Or(RewrittenUrl(Or(Nothing, url)), Nothing), Or(Nothing, url))
    BY FollowedFetch
  <2> QED
    BY <2>1 DEF Or
<1> QED
  BY <1>1, <1>2, RequestInductive, PTL
     DEF FilterSpec, FetchIsRight, FetchIsAllowed, FetchedAsTold

-----------------------------------------------------------------------------
(* The document *)

Items == [root: Elements \cup {Root}, at: Elements \cup {Root, "start"}]
Batches == [document: 0..MaxDocuments, names: SUBSET Names]

\* a comes before e in the document.
Precedes(a, e) ==
  \E i \in DOMAIN dom : \E j \in DOMAIN dom : i < j /\ dom[i] = a /\ dom[j] = e

\* The walk of a queued node will come to e.
Visits(item, e) ==
  IF item.at = "start" THEN item.root \in {e, Root}
  ELSE item.root = Root /\ (item.at = Root \/ Precedes(item.at, e))

\* No walk rests at a node that is gone, and every element whose name is not
\* done yet will be visited.
WalksOK(walks, done) ==
  /\ \A i \in DOMAIN walks : walks[i].root = Root =>
        walks[i].at \in {"start", Root} \cup Connected
  /\ \A e \in Connected : name[e] \notin done \cup {NoName} =>
        rescan \/ \E i \in DOMAIN walks : Visits(walks[i], e)

ScriptOK ==
  /\ dom \in Seq(Elements) /\ IsInjective(dom)
  /\ name \in [Elements -> Names \cup {NoName}]
  /\ installed \in BOOLEAN /\ cut \in BOOLEAN /\ rescan \in BOOLEAN
  /\ work \in Seq(Items) /\ Len(work) <= MaxWork
  /\ seen \subseteq tried /\ tried \subseteq Names
  /\ installed /\ ~cut => WalksOK(work, tried)

BatchOK ==
  /\ document \in 0..MaxDocuments
  /\ {enabled, scheduled, inFlight} \subseteq BOOLEAN
  /\ work # <<>> \/ rescan => scheduled \/ inFlight
  /\ ~(scheduled /\ inFlight)
  /\ batches \in Seq(Batches)
  /\ \A i \in DOMAIN batches :
        /\ batches[i].document <= document
        /\ batches[i].document = document => batches[i].names \subseteq tried
  /\ IF inFlight
       THEN \E k \in DOMAIN batches :
              \A i \in DOMAIN batches : batches[i].document = document <=> i = k
       ELSE \A i \in DOMAIN batches : batches[i].document # document
  /\ styled \subseteq tried

DocumentInv == ScriptOK /\ BatchOK

\* Induction over the natural numbers, as a fact about sets of them.
LEMMA LeastNumber ==
  ASSUME NEW T, T \subseteq Nat, T # {}
  PROVE  \E n \in T : \A m \in T : n <= m
<1> DEFINE R == OpToRel(<, Nat)
<1>1. IsWellFoundedOn(R, Nat)
  BY NatLessThanWellFounded
<1>2. \A m, n \in Nat : m < n => <<m, n>> \in R
  BY DEF OpToRel
<1> HIDE DEF R
<1>3. PICK n \in T : \A m \in T : <<m, n>> \notin R
  BY <1>1, WFMin
<1>4. ASSUME NEW m \in T PROVE n <= m
  <2>1. m \in Nat /\ n \in Nat
    OBVIOUS
  <2>2. ~(m < n)
    BY <1>2, <1>3, <2>1
  <2> QED
    BY <2>1, <2>2
<1> QED
  BY <1>4

LEMMA Reached ==
  ASSUME NEW S, 0 \in S, \A n \in Nat : n \in S => n + 1 \in S
  PROVE  Nat \subseteq S
<1> SUFFICES ASSUME Nat \ S # {} PROVE FALSE
  OBVIOUS
<1>1. PICK n \in Nat \ S : \A m \in Nat \ S : n <= m
  BY LeastNumber
<1>2. n # 0 /\ n - 1 \in Nat
  BY <1>1
<1>3. n - 1 \in S
  BY <1>1, <1>2
<1>4. (n - 1) + 1 \in S
  BY <1>2, <1>3
<1> QED
  BY <1>1, <1>4

\* One turn of flush, if there is something left to do.
TurnOrStop(s) == IF Stops(s) THEN s ELSE Turn(s)
Begun == [work |-> work, seen |-> seen, batch |-> {}]

\* f says what the first n turns do.
TellsTurns(f, n) ==
  f = [k \in 0..n |-> IF k = 0 THEN Begun ELSE TurnOrStop(f[k - 1])]

LEMMA TurnsExist == \A n \in Nat : \E f : TellsTurns(f, n)
<1> DEFINE S == {n \in Nat : \E f : TellsTurns(f, n)}
<1>1. 0 \in S
  <2> DEFINE f == [k \in 0..0 |-> Begun]
  <2>1. TellsTurns(f, 0)
    BY DEF TellsTurns
  <2> QED
    BY <2>1
<1>2. ASSUME NEW n \in Nat, n \in S PROVE n + 1 \in S
  <2>1. PICK f : TellsTurns(f, n)
    BY <1>2
  <2> DEFINE g == [k \in 0..(n + 1) |-> IF k = n + 1 THEN TurnOrStop(f[n]) ELSE f[k]]
  <2>2. \A k \in 0..n : f[k] = IF k = 0 THEN Begun ELSE TurnOrStop(f[k - 1])
    BY <2>1 DEF TellsTurns
  <2>3. \A k \in 0..(n + 1) : g[k] = IF k = 0 THEN Begun ELSE TurnOrStop(g[k - 1])
    <3> SUFFICES ASSUME NEW k \in 0..(n + 1)
                 PROVE  g[k] = IF k = 0 THEN Begun ELSE TurnOrStop(g[k - 1])
      OBVIOUS
    <3>1. CASE k = n + 1
      <4>1. g[k] = TurnOrStop(f[n]) /\ g[k - 1] = f[n] /\ k # 0
        BY <3>1
      <4> QED
        BY <4>1
    <3>2. CASE k = 0
      BY <2>2, <3>2
    <3>3. CASE k \in 1..n
      <4>1. g[k] = f[k] /\ g[k - 1] = f[k - 1] /\ k # 0 /\ k \in 0..n
        BY <3>3
      <4> QED
        BY <2>2, <4>1
    <3> QED
      BY <3>1, <3>2, <3>3
  <2>4. TellsTurns(g, n + 1)
    <3>1. g = [k \in 0..(n + 1) |-> g[k]]
      OBVIOUS
    <3> HIDE DEF g
    <3> QED
      BY <2>3, <3>1 DEF TellsTurns
  <2> QED
    BY <2>4
<1> HIDE DEF S
<1>3. Nat \subseteq S
  BY <1>1, <1>2, Reached
<1> QED
  BY <1>3 DEF S

LEMMA TurnsAre ==
  /\ Turns[0] = Begun
  /\ \A k \in 1..MaxSteps : Turns[k] = TurnOrStop(Turns[k - 1])
<1>1. MaxSteps \in Nat
  BY DocumentAssumption
<1>2. Turns = CHOOSE f : TellsTurns(f, MaxSteps)
  BY DEF Turns, TellsTurns, Begun, TurnOrStop
<1>3. TellsTurns(Turns, MaxSteps)
  BY <1>1, <1>2, TurnsExist
<1> HIDE DEF Turns
<1> QED
  BY <1>1, <1>3 DEF TellsTurns

\* The node a walk comes to next.
After(node, e) == node = Root \/ Precedes(node, e)

LEMMA NodesAreDistinct ==
  ASSUME ScriptOK
  PROVE  /\ Connected \subseteq Elements /\ Root \notin Connected
         /\ "start" \notin Connected /\ Root # "start"
         /\ \A i, j \in DOMAIN dom : dom[i] = dom[j] => i = j
         /\ DOMAIN dom = 1..Len(dom) /\ Len(dom) \in Nat
         /\ Connected = {dom[i] : i \in DOMAIN dom}
<1>1. dom \in Seq(Elements)
  BY DEF ScriptOK
<1>2. DOMAIN dom = 1..Len(dom) /\ Len(dom) \in Nat /\ \A i \in DOMAIN dom : dom[i] \in Elements
  BY <1>1
<1>3. Connected = {dom[i] : i \in DOMAIN dom}
  BY DEF Connected, ToSet
<1>4. \A i, j \in DOMAIN dom : dom[i] = dom[j] => i = j
  BY DEF ScriptOK, IsInjective
<1>5. Root \notin Elements /\ "start" \notin Elements /\ Root # "start"
  BY DocumentAssumption
<1> QED
  BY <1>2, <1>3, <1>4, <1>5

LEMMA FirstNode ==
  ASSUME ScriptOK
  PROVE  NextNode(Root) = IF dom = <<>> THEN <<>> ELSE <<dom[1]>>
<1>1. dom \in Seq(Elements) /\ Len(dom) \in Nat
  <2>1. dom \in Seq(Elements)
    BY DEF ScriptOK
  <2> QED
    BY <2>1
<1>2. CASE dom = <<>>
  <2>1. \A n \in {1, Len(dom)} : n = 0 \/ n = 1
    BY <1>2
  <2>2. Len(dom) = 0
    BY <1>2
  <2>3. Min({1, Len(dom)}) = 0
    BY <2>2 DEF Min
  <2>4. SubSeq(dom, 1, 0) = <<>>
    BY SubSeqEmpty
  <2> QED
    BY <1>2, <2>3, <2>4 DEF NextNode
<1>3. CASE dom # <<>>
  <2>1. Len(dom) >= 1
    BY <1>1, <1>3
  <2>2. Min({1, Len(dom)}) = 1
    <3> DEFINE n == Len(dom)
    <3>1. n \in Nat /\ n >= 1
      BY <1>1, <2>1
    <3> HIDE DEF n
    <3>2. \A y \in {1, n} : 1 <= y
      BY <3>1
    <3>3. \A x \in {1, n} : (\A y \in {1, n} : x <= y) => x = 1
      BY <3>1
    <3>4. Min({1, n}) = 1
      BY <3>2, <3>3 DEF Min
    <3> QED
      BY <3>4 DEF n
  <2>3. SubSeq(dom, 1, 1) = <<dom[1]>>
    <3>1. \A i \in 1..1 : dom[i] \in Elements
      BY <1>1, <2>1
    <3>2. /\ SubSeq(dom, 1, 1) \in Seq(Elements)
          /\ Len(SubSeq(dom, 1, 1)) = 1
          /\ SubSeq(dom, 1, 1)[1] = dom[1]
      BY <3>1, SubSeqProperties
    <3>3. <<dom[1]>> \in Seq(Elements) /\ Len(<<dom[1]>>) = 1 /\ <<dom[1]>>[1] = dom[1]
      BY <3>1
    <3>4. \A i \in 1..1 : SubSeq(dom, 1, 1)[i] = <<dom[1]>>[i]
      BY <3>2, <3>3
    <3> QED
      BY <3>2, <3>3, <3>4, SeqEqual
  <2> QED
    BY <1>3, <2>2, <2>3 DEF NextNode
<1> QED
  BY <1>2, <1>3

LEMMA NextNodeIs ==
  ASSUME ScriptOK, NEW node
  PROVE  NextNode(node) = <<>> \/ \E next \in Connected : NextNode(node) = <<next>>
<1>1. CASE node = Root
  <2>1. dom # <<>> => 1 \in DOMAIN dom
    <3>1. dom \in Seq(Elements)
      BY DEF ScriptOK
    <3> QED
      BY <3>1
  <2> QED
    BY <1>1, <2>1, FirstNode, NodesAreDistinct
<1>2. CASE node # Root
  <2> DEFINE after == {i \in DOMAIN dom : i > 1 /\ dom[i - 1] = node}
             next == dom[CHOOSE i \in after : TRUE]
  <2>1. NextNode(node) = IF after = {} THEN <<>> ELSE <<next>>
    BY <1>2 DEF NextNode
  <2>2. after # {} => (CHOOSE i \in after : TRUE) \in after
    OBVIOUS
  <2>3. after # {} => next \in Connected
    BY <2>2, NodesAreDistinct
  <2> HIDE DEF after, next
  <2> QED
    BY <2>1, <2>3
<1> QED
  BY <1>1, <1>2

LEMMA NextNodeGoesOn ==
  ASSUME ScriptOK, NEW node \in {Root} \cup Connected, NEW e \in Connected,
         After(node, e)
  PROVE  \E next \in Connected : /\ NextNode(node) = <<next>>
                                 /\ e = next \/ After(next, e)
<1>1. CASE node = Root
  <2>1. dom # <<>>
    BY NodesAreDistinct
  <2>2. dom \in Seq(Elements)
    BY DEF ScriptOK
  <2>3. 1 \in DOMAIN dom
    BY <2>1, <2>2
  <2>4. NextNode(node) = <<dom[1]>>
    BY <1>1, <2>1, FirstNode
  <2>5. PICK j \in DOMAIN dom : e = dom[j]
    BY NodesAreDistinct
  <2>6. e = dom[1] \/ Precedes(dom[1], e)
    BY <2>3, <2>5, NodesAreDistinct DEF Precedes
  <2> QED
    BY <2>3, <2>4, <2>6, NodesAreDistinct DEF After
<1>2. CASE node # Root
  <2> DEFINE after == {i \in DOMAIN dom : i > 1 /\ dom[i - 1] = node}
  <2>1. NextNode(node) = IF after = {} THEN <<>> ELSE <<dom[CHOOSE i \in after : TRUE]>>
    BY <1>2 DEF NextNode
  <2>2. PICK i \in DOMAIN dom : \E j \in DOMAIN dom : i < j /\ dom[i] = node /\ dom[j] = e
    BY <1>2 DEF After, Precedes
  <2>3. PICK j \in DOMAIN dom : i < j /\ dom[i] = node /\ dom[j] = e
    BY <2>2
  <2>4. i + 1 \in DOMAIN dom /\ i + 1 > 1 /\ (i + 1) - 1 = i
    BY <2>3, NodesAreDistinct
  <2>5. i + 1 \in after
    BY <2>3, <2>4
  <2>6. \A k \in after : k = i + 1
    BY <2>3, NodesAreDistinct
  <2>7. (CHOOSE k \in after : TRUE) = i + 1
    BY <2>5, <2>6
  <2> HIDE DEF after
  <2>8. NextNode(node) = <<dom[i + 1]>>
    BY <2>1, <2>5, <2>7
  <2>9. e = dom[i + 1] \/ Precedes(dom[i + 1], e)
    <3>1. j = i + 1 \/ i + 1 < j
      BY <2>3, NodesAreDistinct
    <3> QED
      BY <2>3, <2>4, <3>1 DEF Precedes
  <2> QED
    BY <2>4, <2>8, <2>9, NodesAreDistinct DEF After
<1> QED
  BY <1>1, <1>2

LEMMA OnwardIs ==
  ASSUME ScriptOK, NEW item \in Items
  PROVE  \/ Onward(item) = <<>>
         \/ \E node \in Elements \cup {Root} : Onward(item) = <<node>>
BY NextNodeIs, NodesAreDistinct DEF Onward, Items

\* What a queued node will visit, it visits in this turn or later.
LEMMA OnwardVisits ==
  ASSUME ScriptOK, NEW item \in Items,
         item.root = Root => item.at \in {"start", Root} \cup Connected,
         NEW e \in Connected, Visits(item, e)
  PROVE  \E node \in {Root} \cup Connected :
            /\ Onward(item) = <<node>>
            /\ e = node \/ Visits([item EXCEPT !.at = node], e)
<1>1. CASE item.at = "start"
  <2>1. Onward(item) = <<item.root>> /\ item.root \in {e, Root}
    BY <1>1 DEF Onward, Visits
  <2>2. [item EXCEPT !.at = Root].root = item.root /\ [item EXCEPT !.at = Root].at = Root
    BY DEF Items
  <2> QED
    BY <2>1, <2>2, NodesAreDistinct DEF Visits
<1>2. CASE item.at # "start"
  <2>1. item.root = Root /\ After(item.at, e) /\ item.at \in {Root} \cup Connected
    BY <1>2 DEF Visits, After
  <2>2. PICK next \in Connected : /\ NextNode(item.at) = <<next>>
                                  /\ e = next \/ After(next, e)
    BY <2>1, NextNodeGoesOn
  <2>3. Onward(item) = <<next>>
    BY <1>2, <2>1, <2>2 DEF Onward
  <2>4. [item EXCEPT !.at = next].root = Root /\ [item EXCEPT !.at = next].at = next
    BY <2>1 DEF Items
  <2>5. next # "start"
    BY NodesAreDistinct
  <2> QED
    BY <2>2, <2>3, <2>4, <2>5 DEF Visits, After
<1> QED
  BY <1>1, <1>2

\* Where a walk of the document comes to is in the document.
LEMMA OnwardStays ==
  ASSUME ScriptOK, NEW item \in Items, item.root = Root, NEW node,
         Onward(item) = <<node>>
  PROVE  node \in {Root} \cup Connected
<1>1. <<node>>[1] = node
  OBVIOUS
<1>2. CASE item.at = "start"
  BY <1>1, <1>2 DEF Onward
<1>3. CASE item.at # "start"
  <2>1. NextNode(item.at) = <<node>>
    BY <1>3 DEF Onward
  <2>2. PICK next \in Connected : NextNode(item.at) = <<next>>
    BY <2>1, NextNodeIs
  <2> QED
    BY <1>1, <2>1, <2>2
<1> QED
  BY <1>2, <1>3

\* What every turn of flush leaves.
TurnOK(s) ==
  /\ s = [work |-> s.work, seen |-> s.seen, batch |-> s.batch]
  /\ s.work \in Seq(Items) /\ Len(s.work) <= MaxWork
  /\ s.batch \subseteq Names
  /\ s.seen \subseteq tried \cup s.batch
  /\ installed /\ ~cut => WalksOK(s.work, tried \cup s.batch)

LEMMA NamesKnown ==
  ASSUME ScriptOK, NEW N
  PROVE  NamesOf(N) \subseteq Names
BY NodesAreDistinct DEF NamesOf, ScriptOK

LEMMA TurnKeeps ==
  ASSUME ScriptOK, NEW s, TurnOK(s), ~Stops(s)
  PROVE  TurnOK(Turn(s))
<1> DEFINE item == Head(s.work)
           rest == Tail(s.work)
           to == Onward(item)
<1>1. s.work \in Seq(Items) /\ s.work # <<>> /\ Len(s.work) <= MaxWork
  BY DEF TurnOK, Stops
<1>2. /\ item \in Items /\ item = s.work[1]
      /\ rest \in Seq(Items) /\ Len(rest) = Len(s.work) - 1
      /\ \A i \in 1..Len(rest) : rest[i] = s.work[i + 1]
  BY <1>1, HeadTailProperties
<1>3. Len(s.work) \in Nat /\ DOMAIN s.work = 1..Len(s.work) /\ DOMAIN rest = 1..Len(rest)
      /\ MaxWork \in Nat
  BY <1>1, <1>2, DocumentAssumption
<1>4. \A i \in DOMAIN s.work : i = 1 \/ (i - 1 \in DOMAIN rest /\ rest[i - 1] = s.work[i])
  BY <1>2, <1>3
<1>5. \A i \in DOMAIN rest : i + 1 \in DOMAIN s.work /\ rest[i] = s.work[i + 1]
  BY <1>2, <1>3
<1>6. /\ s.batch \subseteq Names /\ s.seen \subseteq tried \cup s.batch
      /\ s = [work |-> s.work, seen |-> s.seen, batch |-> s.batch]
      /\ installed /\ ~cut => WalksOK(s.work, tried \cup s.batch)
  BY DEF TurnOK
<1>7. Turn(s) = IF to = <<>> THEN [s EXCEPT !.work = rest]
                ELSE LET new == NamesOf({to[1]}) \ s.seen
                     IN  [work |-> <<[item EXCEPT !.at = to[1]]>> \o rest,
                          seen |-> s.seen \cup new,
                          batch |-> s.batch \cup new]
  BY DEF Turn
<1>8. 1 \in DOMAIN s.work
  BY <1>1, <1>3
<1> HIDE DEF item, rest
<1>9. CASE to = <<>>
  <2>1. Turn(s) = [work |-> rest, seen |-> s.seen, batch |-> s.batch]
    BY <1>6, <1>7, <1>9
  <2>2. Len(rest) <= MaxWork
    BY <1>1, <1>2, <1>3
  <2>3. ASSUME installed, ~cut PROVE WalksOK(rest, tried \cup s.batch)
    <3>1. WalksOK(s.work, tried \cup s.batch)
      BY <1>6, <2>3
    <3>2. \A e \in Connected : ~Visits(item, e)
      <4>1. item.root = Root => item.at \in {"start", Root} \cup Connected
        BY <1>2, <1>8, <3>1 DEF WalksOK
      <4>2. \A node : <<node>> # <<>>
        OBVIOUS
      <4> QED
        BY <1>2, <1>9, <4>1, <4>2, OnwardVisits
    <3>3. \A i \in DOMAIN rest : rest[i].root = Root =>
            rest[i].at \in {"start", Root} \cup Connected
      BY <1>5, <3>1 DEF WalksOK
    <3>4. ASSUME NEW e \in Connected, name[e] \notin (tried \cup s.batch) \cup {NoName}, ~rescan
          PROVE  \E i \in DOMAIN rest : Visits(rest[i], e)
      <4>1. PICK i \in DOMAIN s.work : Visits(s.work[i], e)
        BY <3>1, <3>4 DEF WalksOK
      <4>2. i # 1
        BY <1>2, <3>2, <4>1
      <4> QED
        BY <1>4, <4>1, <4>2
    <3> QED
      BY <3>3, <3>4 DEF WalksOK
  <2> QED
    BY <1>2, <1>6, <2>1, <2>2, <2>3 DEF TurnOK
<1>10. CASE to # <<>>
  <2>1. PICK node \in Elements \cup {Root} : to = <<node>>
    BY <1>2, <1>10, OnwardIs
  <2> DEFINE next == [item EXCEPT !.at = node]
             walks == <<next>> \o rest
             new == NamesOf({node}) \ s.seen
             done == tried \cup (s.batch \cup new)
  <2>2. Turn(s) = [work |-> walks, seen |-> s.seen \cup new, batch |-> s.batch \cup new]
    <3>1. to # <<>> /\ to[1] = node
      BY <2>1
    <3> QED
      BY <1>7, <3>1
  <2>3. next \in Items /\ next.root = item.root /\ next.at = node
    BY <1>2 DEF Items
  <2> HIDE DEF next
  <2>4. /\ walks \in Seq(Items) /\ Len(walks) = Len(s.work)
        /\ walks[1] = next
        /\ \A i \in 2..Len(s.work) : walks[i] = rest[i - 1]
    <3>1. <<next>> \in Seq(Items) /\ Len(<<next>>) = 1 /\ <<next>>[1] = next
      BY <2>3
    <3>2. /\ walks \in Seq(Items) /\ Len(walks) = 1 + Len(rest)
          /\ \A i \in 1..1 + Len(rest) : walks[i] = IF i <= 1 THEN <<next>>[i] ELSE rest[i - 1]
      BY <1>2, <3>1, ConcatProperties
    <3> HIDE DEF walks
    <3>3. Len(rest) \in Nat /\ Len(s.work) = 1 + Len(rest)
      BY <1>2, <1>3
    <3>4. walks[1] = next
      BY <3>1, <3>2, <3>3
    <3>5. ASSUME NEW i \in 2..Len(s.work) PROVE walks[i] = rest[i - 1]
      <4>1. i \in 1..1 + Len(rest) /\ ~(i <= 1)
        BY <3>3
      <4> QED
        BY <3>2, <4>1
    <3> QED
      BY <3>2, <3>3, <3>4, <3>5
  <2> HIDE DEF walks
  <2>5. DOMAIN walks = 1..Len(s.work)
    BY <2>4
  <2>6. \A i \in DOMAIN walks : i = 1 \/ walks[i] = s.work[i]
    BY <1>3, <1>4, <2>4, <2>5
  <2>7. new \subseteq Names
    BY NamesKnown
  <2>8. s.seen \cup new \subseteq done
    BY <1>6
  <2>9. NamesOf({node}) \subseteq done
    BY <1>6
  <2>10. ASSUME installed, ~cut PROVE WalksOK(walks, done)
    <3>1. WalksOK(s.work, tried \cup s.batch)
      BY <1>6, <2>10
    <3>2. item.root = Root => item.at \in {"start", Root} \cup Connected
      BY <1>2, <1>8, <3>1 DEF WalksOK
    <3>3. item.root = Root => node \in {Root} \cup Connected
      BY <1>2, <2>1, OnwardStays
    <3>4. \A i \in DOMAIN walks : walks[i].root = Root =>
            walks[i].at \in {"start", Root} \cup Connected
      BY <1>3, <2>3, <2>4, <2>5, <2>6, <3>1, <3>3 DEF WalksOK
    <3>5. ASSUME NEW e \in Connected, name[e] \notin done \cup {NoName}, ~rescan
          PROVE  \E i \in DOMAIN walks : Visits(walks[i], e)
      <4>1. name[e] \notin (tried \cup s.batch) \cup {NoName}
        BY <3>5
      <4>2. PICK i \in DOMAIN s.work : Visits(s.work[i], e)
        BY <3>1, <3>5, <4>1 DEF WalksOK
      <4>3. CASE i # 1
        BY <1>3, <2>5, <2>6, <4>2, <4>3
      <4>4. CASE i = 1
        <5>1. Visits(item, e)
          BY <1>2, <4>2, <4>4
        <5>2. PICK other \in {Root} \cup Connected :
                /\ Onward(item) = <<other>>
                /\ e = other \/ Visits([item EXCEPT !.at = other], e)
          BY <1>2, <3>2, <5>1, OnwardVisits
        <5>3. other = node
          <6>1. <<other>> = <<node>>
            BY <2>1, <5>2
          <6> QED
            BY <6>1
        <5>4. e # node
          <6>1. ASSUME e = node PROVE FALSE
            <7>1. name[e] \in NamesOf({node})
              BY <3>5, <6>1 DEF NamesOf
            <7> QED
              BY <2>9, <3>5, <7>1
          <6> QED
            BY <6>1
        <5>5. Visits(next, e)
          BY <5>2, <5>3, <5>4 DEF next
        <5> QED
          BY <1>8, <1>3, <2>4, <2>5, <5>5
      <4> QED
        BY <4>3, <4>4
    <3> QED
      BY <3>4, <3>5 DEF WalksOK
  <2>11. Len(walks) <= MaxWork
    BY <1>1, <2>4
  <2>12. s.batch \cup new \subseteq Names
    BY <1>6, <2>7
  <2> HIDE DEF new
  <2> QED
    BY <2>2, <2>4, <2>8, <2>10, <2>11, <2>12 DEF TurnOK
<1> QED
  BY <1>9, <1>10

LEMMA FlushTurns ==
  ASSUME ScriptOK
  PROVE  TurnOK(Turns[MaxSteps])
<1> DEFINE S == {n \in Nat : n <= MaxSteps => TurnOK(Turns[n])}
<1>1. MaxSteps \in Nat
  BY DocumentAssumption
<1>2. 0 \in S
  <2>1. TurnOK(Begun)
    <3>1. tried \cup {} = tried
      OBVIOUS
    <3> QED
      BY <3>1 DEF ScriptOK, TurnOK, Begun
  <2> QED
    BY <2>1, TurnsAre
<1>3. ASSUME NEW n \in Nat, n \in S PROVE n + 1 \in S
  <2> SUFFICES ASSUME n + 1 <= MaxSteps PROVE TurnOK(Turns[n + 1])
    OBVIOUS
  <2>1. TurnOK(Turns[n])
    BY <1>1, <1>3
  <2>2. n + 1 \in 1..MaxSteps /\ (n + 1) - 1 = n
    BY <1>1
  <2>3. Turns[n + 1] = TurnOrStop(Turns[n])
    BY <2>2, TurnsAre
  <2>4. CASE Stops(Turns[n])
    BY <2>1, <2>3, <2>4 DEF TurnOrStop
  <2>5. CASE ~Stops(Turns[n])
    BY <2>1, <2>3, <2>5, TurnKeeps DEF TurnOrStop
  <2> QED
    BY <2>4, <2>5
<1> HIDE DEF S
<1>4. MaxSteps \in S
  BY <1>1, <1>2, <1>3, Reached
<1> QED
  BY <1>1, <1>4 DEF S

(* Steps of the script and the agent *)

LEMMA SameDocument ==
  ASSUME dom' = dom
  PROVE  /\ Connected' = Connected
         /\ \A item, e : Visits(item, e)' <=> Visits(item, e)
BY DEF Connected, ToSet, Visits, Precedes

LEMMA ScriptIdles ==
  ASSUME ScriptOK, UNCHANGED <<dom, name, installed, cut, rescan, work, seen, tried>>
  PROVE  ScriptOK'
<1>1. WalksOK(work, tried)' <=> WalksOK(work, tried)
  BY SameDocument DEF WalksOK
<1> QED
  BY <1>1 DEF ScriptOK, IsInjective

LEMMA WalkOfAll ==
  /\ Item(Root) \in Items /\ Item(Root).root = Root /\ Item(Root).at = "start"
  /\ <<Item(Root)>> \in Seq(Items) /\ Len(<<Item(Root)>>) = 1
  /\ DOMAIN <<Item(Root)>> = {1} /\ <<Item(Root)>>[1] = Item(Root)
  /\ \A e : Visits(Item(Root), e)
<1>1. Item(Root) \in Items /\ Item(Root).root = Root /\ Item(Root).at = "start"
  BY DEF Item, Items
<1> QED
  BY <1>1 DEF Visits

LEMMA FlushScript ==
  ASSUME ScriptOK, Flush
  PROVE  ScriptOK' /\ tried \subseteq tried'
<1> DEFINE end == Turns[MaxSteps]
           walks == IF end.work = <<>> /\ rescan THEN <<Item(Root)>> ELSE end.work
<1>1. TurnOK(end)
  BY FlushTurns
<1>2. /\ tried' = tried \cup end.batch
      /\ seen' = IF Cardinality(end.seen) > MaxSeen THEN {} ELSE end.seen
      /\ rescan' = (rescan /\ end.work # <<>>)
      /\ work' = walks
      /\ UNCHANGED <<document, dom, name, enabled, installed, styled, cut, pageSteps>>
  BY DEF Flush
<1> HIDE DEF end
<1>3. end.work \in Seq(Items) /\ Len(end.work) <= MaxWork /\ MaxWork \in Nat \ {0}
  BY <1>1, DocumentAssumption DEF TurnOK
<1>4. walks \in Seq(Items) /\ Len(walks) <= MaxWork
  BY <1>3, WalkOfAll
<1>5. seen' \subseteq tried' /\ tried' \subseteq Names
  BY <1>1, <1>2 DEF TurnOK, ScriptOK
<1>6. ASSUME installed, ~cut PROVE WalksOK(work, tried)'
  <2>1. WalksOK(end.work, tried \cup end.batch)
    BY <1>1, <1>6 DEF TurnOK
  <2>2. CASE end.work = <<>> /\ rescan
    <3>1. work' = <<Item(Root)>>
      BY <1>2, <2>2
    <3>2. \A i \in DOMAIN work' : work'[i] = Item(Root)
      BY <3>1, WalkOfAll
    <3>3. \A e : \E i \in DOMAIN work' : Visits(work'[i], e)
      BY <3>1, WalkOfAll
    <3> QED
      BY <1>2, <3>2, <3>3, SameDocument, WalkOfAll DEF WalksOK
  <2>3. CASE ~(end.work = <<>> /\ rescan)
    <3>1. work' = end.work /\ (rescan' <=> rescan)
      BY <1>2, <2>3
    <3> QED
      BY <1>2, <2>1, <3>1, SameDocument DEF WalksOK
  <2> QED
    BY <2>2, <2>3
<1> QED
  BY <1>2, <1>4, <1>5, <1>6 DEF ScriptOK, IsInjective

LEMMA NewDocumentScript ==
  ASSUME ScriptOK, BatchOK, NewDocument
  PROVE  ScriptOK'
<1>1. dom' = <<>> /\ Connected' = {}
  BY DEF NewDocument, Connected, ToSet
<1>2. name' \in [Elements -> Names \cup {NoName}]
  BY DEF NewDocument, Nameless
<1>3. work' \in Seq(Items) /\ Len(work') <= MaxWork
  BY WalkOfAll, DocumentAssumption DEF NewDocument
<1>4. \A i \in DOMAIN work' : work'[i].at = "start"
  BY WalkOfAll DEF NewDocument
<1>5. WalksOK(work, tried)'
  BY <1>1, <1>4 DEF WalksOK
<1>6. IsInjective(dom') /\ dom' \in Seq(Elements)
  BY <1>1 DEF IsInjective
<1>7. enabled \in BOOLEAN
  BY DEF BatchOK
<1> QED
  BY <1>2, <1>3, <1>5, <1>6, <1>7 DEF NewDocument, ScriptOK

(* Steps of the page *)

LEMMA EnqueueAdds ==
  ASSUME ScriptOK, NEW e \in Elements, Enqueue(e)
  PROVE  /\ work' \in Seq(Items) /\ Len(work') <= MaxWork
         /\ rescan' \in BOOLEAN /\ (rescan => rescan')
         /\ \A i \in DOMAIN work : i \in DOMAIN work' /\ work'[i] = work[i]
         /\ \A i \in DOMAIN work' \ DOMAIN work : work'[i].at = "start"
         /\ rescan' \/ \E i \in DOMAIN work' : work'[i].root = e /\ work'[i].at = "start"
<1>1. work \in Seq(Items) /\ Len(work) <= MaxWork /\ MaxWork \in Nat /\ rescan \in BOOLEAN
  BY DocumentAssumption DEF ScriptOK
<1>2. Item(e) \in Items /\ Item(e).root = e /\ Item(e).at = "start"
  BY DEF Item, Items
<1>3. CASE Len(work) < MaxWork
  <2>1. work' = Append(work, Item(e)) /\ rescan' = rescan
    BY <1>3 DEF Enqueue
  <2>2. /\ work' \in Seq(Items) /\ Len(work') = Len(work) + 1
        /\ \A i \in 1..Len(work) : work'[i] = work[i]
        /\ work'[Len(work) + 1] = Item(e)
    BY <1>1, <1>2, <2>1, AppendProperties
  <2>3. DOMAIN work = 1..Len(work) /\ DOMAIN work' = 1..(Len(work) + 1) /\ Len(work) \in Nat
    BY <1>1, <2>2
  <2> QED
    BY <1>1, <1>2, <1>3, <2>1, <2>2, <2>3
<1>4. CASE ~(Len(work) < MaxWork)
  BY <1>1, <1>4 DEF Enqueue
<1> QED
  BY <1>3, <1>4

\* A change of e that the script is told of.
LEMMA ObservedKeeps ==
  ASSUME ScriptOK, NEW e \in Elements, Observed(e),
         dom' \in Seq(Elements), IsInjective(dom'),
         name' \in [Elements -> Names \cup {NoName}],
         UNCHANGED <<installed, cut, seen, tried>>,
         Connected \subseteq Connected',
         \A c \in Connected' \ {e} : c \in Connected /\ name'[c] = name[c],
         \A a, c : Precedes(a, c) => Precedes(a, c)'
  PROVE  ScriptOK'
<1>1. CASE ~installed
  <2>1. work' = work /\ rescan' = rescan
    BY <1>1 DEF Observed
  <2>2. ~installed'
    BY <1>1
  <2> QED
    BY <2>1, <2>2 DEF ScriptOK
<1>2. CASE installed
  <2>1. /\ work' \in Seq(Items) /\ Len(work') <= MaxWork
        /\ rescan' \in BOOLEAN /\ (rescan => rescan')
        /\ \A i \in DOMAIN work : i \in DOMAIN work' /\ work'[i] = work[i]
        /\ \A i \in DOMAIN work' \ DOMAIN work : work'[i].at = "start"
        /\ rescan' \/ \E i \in DOMAIN work' : work'[i].root = e /\ work'[i].at = "start"
    BY <1>2, EnqueueAdds DEF Observed
  <2>2. \A item, c : Visits(item, c) => Visits(item, c)'
    BY DEF Visits
  <2>3. ASSUME ~cut PROVE WalksOK(work, tried)'
    <3>1. WalksOK(work, tried)
      BY <1>2, <2>3 DEF ScriptOK
    <3>2. ASSUME NEW i \in DOMAIN work', work'[i].root = Root
          PROVE  work'[i].at \in {"start", Root} \cup Connected'
      <4>1. CASE i \in DOMAIN work
        BY <2>1, <3>1, <3>2, <4>1 DEF WalksOK
      <4>2. CASE i \notin DOMAIN work
        BY <2>1, <4>2
      <4> QED
        BY <4>1, <4>2
    <3>3. ASSUME NEW c \in Connected', name'[c] \notin tried' \cup {NoName}, ~rescan'
          PROVE  \E i \in DOMAIN work' : \E item : item = work'[i] /\ Visits(item, c)'
      <4>1. CASE c = e
        <5>1. PICK i \in DOMAIN work' : work'[i].root = e /\ work'[i].at = "start"
          BY <2>1, <3>3
        <5>2. \A item : item.root = e /\ item.at = "start" => Visits(item, c)'
          BY <4>1 DEF Visits
        <5> QED
          BY <5>1, <5>2
      <4>2. CASE c # e
        <5>1. c \in Connected /\ name[c] \notin tried \cup {NoName} /\ ~rescan
          BY <2>1, <3>3, <4>2
        <5>2. PICK i \in DOMAIN work : Visits(work[i], c)
          BY <3>1, <5>1 DEF WalksOK
        <5>3. i \in DOMAIN work' /\ work'[i] = work[i]
          BY <2>1
        <5>4. \A item : item = work[i] => Visits(item, c)'
          BY <2>2, <5>2
        <5> QED
          BY <5>3, <5>4
      <4> QED
        BY <4>1, <4>2
    <3> QED
      BY <3>2, <3>3 DEF WalksOK
  <2> QED
    BY <2>1, <2>3 DEF ScriptOK
<1> QED
  BY <1>1, <1>2 DEF ScriptOK

LEMMA AddsScript ==
  ASSUME ScriptOK, NEW e \in Elements, NEW i \in 1..(Len(dom) + 1),
         NEW n \in Names \cup {NoName}, PageAdds(e, i, n),
         UNCHANGED <<installed, seen, tried>>
  PROVE  ScriptOK'
<1>1. dom \in Seq(Elements) /\ name \in [Elements -> Names \cup {NoName}]
  BY DEF ScriptOK
<1>2. dom' = SubSeq(dom, 1, i - 1) \o <<e>> \o SubSeq(dom, i, Len(dom))
  BY DEF PageAdds, InsertAt
<1>3. /\ dom' \in Seq(Elements) /\ Len(dom') = Len(dom) + 1
      /\ \A k \in 1..(i - 1) : dom'[k] = dom[k]
      /\ dom'[i] = e
      /\ \A k \in i..Len(dom) : dom'[k + 1] = dom[k]
  <2> DEFINE a == SubSeq(dom, 1, i - 1)
             z == SubSeq(dom, i, Len(dom))
  <2>1. Len(dom) \in Nat /\ i \in Nat /\ i >= 1 /\ i <= Len(dom) + 1
    BY <1>1
  <2>2. a \in Seq(Elements) /\ Len(a) = i - 1 /\ \A k \in 1..(i - 1) : a[k] = dom[k]
    <3>1. \A k \in 1..(i - 1) : dom[k] \in Elements
      BY <1>1, <2>1
    <3>2. a \in Seq(Elements) /\ Len(a) = IF 1 <= i - 1 THEN (i - 1) - 1 + 1 ELSE 0
      BY <2>1, <3>1, SubSeqProperties
    <3>3. \A k \in 1..((i - 1) - 1 + 1) : a[k] = dom[1 + k - 1]
      BY <2>1, <3>1, SubSeqProperties
    <3> HIDE DEF a
    <3>4. \A k \in 1..(i - 1) : k \in 1..((i - 1) - 1 + 1) /\ 1 + k - 1 = k
      BY <2>1
    <3>5. \A k \in 1..(i - 1) : a[k] = dom[k]
      BY <3>3, <3>4
    <3> QED
      BY <2>1, <3>2, <3>5
  <2>3. /\ z \in Seq(Elements) /\ Len(z) = Len(dom) - i + 1
        /\ \A k \in 1..(Len(dom) - i + 1) : z[k] = dom[i + k - 1]
    <3>1. \A k \in i..Len(dom) : dom[k] \in Elements
      BY <1>1, <2>1
    <3>2. z \in Seq(Elements) /\ Len(z) = IF i <= Len(dom) THEN Len(dom) - i + 1 ELSE 0
      BY <2>1, <3>1, SubSeqProperties
    <3>3. \A k \in 1..(Len(dom) - i + 1) : z[k] = dom[i + k - 1]
      BY <2>1, <3>1, SubSeqProperties
    <3> HIDE DEF z
    <3> QED
      BY <2>1, <3>2, <3>3
  <2>4. <<e>> \in Seq(Elements) /\ Len(<<e>>) = 1 /\ <<e>>[1] = e
    OBVIOUS
  <2> DEFINE ae == a \o <<e>>
  <2> HIDE DEF a, z
  <2>5. /\ ae \in Seq(Elements) /\ Len(ae) = i
        /\ \A k \in 1..i : ae[k] = IF k <= i - 1 THEN a[k] ELSE <<e>>[k - (i - 1)]
    <3>1. /\ ae \in Seq(Elements) /\ Len(ae) = Len(a) + Len(<<e>>)
          /\ \A k \in 1..(Len(a) + Len(<<e>>)) :
                ae[k] = IF k <= Len(a) THEN a[k] ELSE <<e>>[k - Len(a)]
      BY <2>2, <2>4, ConcatProperties
    <3> HIDE DEF ae
    <3>2. Len(a) + Len(<<e>>) = i
      BY <2>1, <2>2, <2>4
    <3> QED
      BY <2>2, <3>1, <3>2
  <2> HIDE DEF ae
  <2>6. (\A k \in 1..(i - 1) : ae[k] = dom[k]) /\ ae[i] = e
    <3>1. \A k \in 1..(i - 1) : k \in 1..i /\ k <= i - 1
      BY <2>1
    <3>2. i \in 1..i /\ ~(i <= i - 1) /\ i - (i - 1) = 1
      BY <2>1
    <3> QED
      BY <2>2, <2>4, <2>5, <3>1, <3>2
  <2>7. dom' = ae \o z
    BY <1>2 DEF ae, a, z
  <2>8. /\ dom' \in Seq(Elements) /\ Len(dom') = i + (Len(dom) - i + 1)
        /\ \A k \in 1..(i + (Len(dom) - i + 1)) :
              dom'[k] = IF k <= i THEN ae[k] ELSE z[k - i]
    <3>1. /\ ae \o z \in Seq(Elements) /\ Len(ae \o z) = Len(ae) + Len(z)
          /\ \A k \in 1..(Len(ae) + Len(z)) :
                (ae \o z)[k] = IF k <= Len(ae) THEN ae[k] ELSE z[k - Len(ae)]
      BY <2>3, <2>5, ConcatProperties
    <3> QED
      BY <2>3, <2>5, <2>7, <3>1
  <2>9. Len(dom') = Len(dom) + 1
    BY <2>1, <2>8
  <2>10. \A k \in 1..i : k \in 1..(i + (Len(dom) - i + 1)) /\ k <= i
    BY <2>1
  <2>11. \A k \in 1..i : dom'[k] = ae[k]
    BY <2>8, <2>10
  <2>12. ASSUME NEW k \in i..Len(dom) PROVE dom'[k + 1] = dom[k]
    <3>1. k + 1 \in 1..(i + (Len(dom) - i + 1)) /\ ~(k + 1 <= i)
      BY <2>1
    <3>2. k + 1 - i \in 1..(Len(dom) - i + 1) /\ i + (k + 1 - i) - 1 = k
      BY <2>1
    <3>3. dom'[k + 1] = z[k + 1 - i]
      BY <2>8, <3>1
    <3>4. z[k + 1 - i] = dom[k]
      BY <2>3, <3>2
    <3> QED
      BY <3>3, <3>4
  <2>13. \A k \in 1..(i - 1) : k \in 1..i
    BY <2>1
  <2>14. i \in 1..i
    BY <2>1
  <2> QED
    BY <2>6, <2>8, <2>9, <2>11, <2>12, <2>13, <2>14
<1>4. Len(dom) \in Nat /\ DOMAIN dom = 1..Len(dom) /\ DOMAIN dom' = 1..(Len(dom) + 1)
  BY <1>1, <1>3
<1> DEFINE at(k) == IF k < i THEN k ELSE k + 1
<1>5. ASSUME NEW k \in DOMAIN dom PROVE at(k) \in DOMAIN dom' /\ dom'[at(k)] = dom[k]
  <2>1. CASE k < i
    BY <1>3, <1>4, <2>1
  <2>2. CASE ~(k < i)
    BY <1>3, <1>4, <2>2
  <2> QED
    BY <2>1, <2>2
<1>6. ASSUME NEW j \in DOMAIN dom' PROVE j = i \/ \E k \in DOMAIN dom : j = at(k)
  <2>1. CASE j < i
    BY <1>4, <2>1
  <2>2. CASE j > i
    <3>1. j - 1 \in DOMAIN dom /\ at(j - 1) = j
      BY <1>4, <2>2
    <3> QED
      BY <3>1
  <2> QED
    BY <1>4, <2>1, <2>2
<1>7. \A j, k \in DOMAIN dom : j < k => at(j) < at(k)
  BY <1>4
<1> HIDE DEF at
<1>8. i \in DOMAIN dom'
  BY <1>4
<1>9. e \notin Connected /\ Connected = {dom[k] : k \in DOMAIN dom}
      /\ \A j, k \in DOMAIN dom : dom[j] = dom[k] => j = k
  BY NodesAreDistinct DEF PageAdds
<1>10. Connected' = Connected \cup {e}
  <2>1. Connected' = {dom'[k] : k \in DOMAIN dom'}
    BY DEF Connected, ToSet
  <2> QED
    BY <1>3, <1>5, <1>6, <1>8, <1>9, <2>1
<1>11. IsInjective(dom')
  <2> SUFFICES ASSUME NEW j \in DOMAIN dom', NEW k \in DOMAIN dom', dom'[j] = dom'[k]
               PROVE  j = k
    BY DEF IsInjective
  <2> QED
    BY <1>3, <1>5, <1>6, <1>9
<1>12. \A a, c : Precedes(a, c) => Precedes(a, c)'
  <2> SUFFICES ASSUME NEW a, NEW c, Precedes(a, c) PROVE Precedes(a, c)'
    OBVIOUS
  <2>1. PICK j \in DOMAIN dom : \E k \in DOMAIN dom : j < k /\ dom[j] = a /\ dom[k] = c
    BY DEF Precedes
  <2>2. PICK k \in DOMAIN dom : j < k /\ dom[j] = a /\ dom[k] = c
    BY <2>1
  <2>3. at(j) < at(k) /\ dom'[at(j)] = a /\ dom'[at(k)] = c
        /\ at(j) \in DOMAIN dom' /\ at(k) \in DOMAIN dom'
    BY <1>5, <1>7, <2>2
  <2> QED
    BY <2>3 DEF Precedes
<1>13. /\ name' \in [Elements -> Names \cup {NoName}]
       /\ \A c \in Elements \ {e} : name'[c] = name[c]
  BY <1>1 DEF PageAdds
<1>14. Connected \subseteq Elements
  BY NodesAreDistinct
<1>15. \A c \in Connected' \ {e} : c \in Connected /\ name'[c] = name[c]
  BY <1>10, <1>13, <1>14
<1>16. Observed(e) /\ cut' = cut
  BY DEF PageAdds
<1> QED
  BY <1>3, <1>10, <1>11, <1>12, <1>13, <1>15, <1>16, ObservedKeeps

LEMMA RenamesScript ==
  ASSUME ScriptOK, NEW e \in Elements, NEW n \in Names \cup {NoName},
         PageRenames(e, n), UNCHANGED <<installed, seen, tried>>
  PROVE  ScriptOK'
<1>1. dom' = dom /\ dom \in Seq(Elements) /\ IsInjective(dom)
  BY DEF PageRenames, ScriptOK
<1>2. /\ name' \in [Elements -> Names \cup {NoName}]
      /\ \A c \in Elements \ {e} : name'[c] = name[c]
  BY DEF PageRenames, ScriptOK
<1>3. Connected' = Connected /\ Connected \subseteq Elements
  BY <1>1, SameDocument, NodesAreDistinct
<1>4. \A a, c : Precedes(a, c) => Precedes(a, c)'
  BY <1>1 DEF Precedes
<1>5. Observed(e) /\ cut' = cut
  BY DEF PageRenames
<1>6. dom' \in Seq(Elements) /\ IsInjective(dom')
  BY <1>1
<1>7. \A c \in Connected' \ {e} : c \in Connected /\ name'[c] = name[c]
  BY <1>2, <1>3
<1> QED
  BY <1>2, <1>3, <1>4, <1>5, <1>6, <1>7, ObservedKeeps

LEMMA RemovesScript ==
  ASSUME ScriptOK, NEW i \in DOMAIN dom, PageRemoves(i),
         UNCHANGED <<installed, seen, tried>>
  PROVE  ScriptOK'
<1> DEFINE e == dom[i]
<1>1. dom \in Seq(Elements) /\ name \in [Elements -> Names \cup {NoName}]
  BY DEF ScriptOK
<1>2. dom' = SubSeq(dom, 1, i - 1) \o SubSeq(dom, i + 1, Len(dom))
  BY DEF PageRemoves, RemoveAt
<1>3. Len(dom) \in Nat /\ i \in Nat /\ i >= 1 /\ i <= Len(dom) /\ DOMAIN dom = 1..Len(dom)
  BY <1>1
<1>4. /\ dom' \in Seq(Elements) /\ Len(dom') = Len(dom) - 1
      /\ \A k \in 1..(i - 1) : dom'[k] = dom[k]
      /\ \A k \in (i + 1)..Len(dom) : dom'[k - 1] = dom[k]
  <2> DEFINE a == SubSeq(dom, 1, i - 1)
             z == SubSeq(dom, i + 1, Len(dom))
  <2>1. /\ a \in Seq(Elements) /\ Len(a) = i - 1
        /\ \A k \in 1..(i - 1) : a[k] = dom[k]
    <3>1. \A k \in 1..(i - 1) : dom[k] \in Elements
      BY <1>1, <1>3
    <3>2. a \in Seq(Elements) /\ Len(a) = IF 1 <= i - 1 THEN (i - 1) - 1 + 1 ELSE 0
      BY <1>3, <3>1, SubSeqProperties
    <3>3. \A k \in 1..((i - 1) - 1 + 1) : a[k] = dom[1 + k - 1]
      BY <1>3, <3>1, SubSeqProperties
    <3> HIDE DEF a
    <3>4. \A k \in 1..(i - 1) : k \in 1..((i - 1) - 1 + 1) /\ 1 + k - 1 = k
      BY <1>3
    <3>5. \A k \in 1..(i - 1) : a[k] = dom[k]
      BY <3>3, <3>4
    <3> QED
      BY <1>3, <3>2, <3>5
  <2>2. /\ z \in Seq(Elements) /\ Len(z) = Len(dom) - i
        /\ \A k \in 1..(Len(dom) - i) : z[k] = dom[i + k]
    <3>1. \A k \in (i + 1)..Len(dom) : dom[k] \in Elements
      BY <1>1, <1>3
    <3>2. /\ z \in Seq(Elements)
          /\ Len(z) = IF i + 1 <= Len(dom) THEN Len(dom) - (i + 1) + 1 ELSE 0
      BY <1>3, <3>1, SubSeqProperties
    <3>3. \A k \in 1..(Len(dom) - (i + 1) + 1) : z[k] = dom[i + 1 + k - 1]
      BY <1>3, <3>1, SubSeqProperties
    <3> HIDE DEF z
    <3>4. \A k \in 1..(Len(dom) - i) : k \in 1..(Len(dom) - (i + 1) + 1) /\ i + 1 + k - 1 = i + k
      BY <1>3
    <3>5. \A k \in 1..(Len(dom) - i) : z[k] = dom[i + k]
      BY <3>3, <3>4
    <3> QED
      BY <1>3, <3>2, <3>5
  <2>3. dom' = a \o z
    BY <1>2
  <2> HIDE DEF a, z
  <2>4. /\ dom' \in Seq(Elements) /\ Len(dom') = Len(a) + Len(z)
        /\ \A k \in 1..(Len(a) + Len(z)) : dom'[k] = IF k <= Len(a) THEN a[k] ELSE z[k - Len(a)]
    BY <2>1, <2>2, <2>3, ConcatProperties
  <2>5. Len(a) + Len(z) = Len(dom) - 1 /\ Len(a) = i - 1
    BY <1>3, <2>1, <2>2
  <2>6. ASSUME NEW k \in 1..(i - 1) PROVE dom'[k] = dom[k]
    <3>1. k \in 1..(Len(a) + Len(z)) /\ k <= Len(a)
      BY <1>3, <2>5
    <3>2. dom'[k] = a[k]
      BY <2>4, <3>1
    <3> QED
      BY <2>1, <3>2
  <2>7. ASSUME NEW k \in (i + 1)..Len(dom) PROVE dom'[k - 1] = dom[k]
    <3>1. k - 1 \in 1..(Len(a) + Len(z)) /\ ~(k - 1 <= Len(a)) /\ (k - 1) - Len(a) = k - i
      BY <1>3, <2>5
    <3>2. dom'[k - 1] = z[k - i]
      BY <2>4, <3>1
    <3>3. k - i \in 1..(Len(dom) - i) /\ i + (k - i) = k
      BY <1>3
    <3>4. z[k - i] = dom[k]
      BY <2>2, <3>3
    <3> QED
      BY <3>2, <3>4
  <2> QED
    BY <2>4, <2>5, <2>6, <2>7
<1>5. DOMAIN dom' = 1..(Len(dom) - 1)
  BY <1>4
<1> DEFINE at(k) == IF k < i THEN k ELSE k - 1
<1>6. ASSUME NEW k \in DOMAIN dom \ {i} PROVE at(k) \in DOMAIN dom' /\ dom'[at(k)] = dom[k]
  <2>1. CASE k < i
    BY <1>3, <1>4, <1>5, <2>1
  <2>2. CASE ~(k < i)
    BY <1>3, <1>4, <1>5, <2>2
  <2> QED
    BY <2>1, <2>2
<1>7. ASSUME NEW j \in DOMAIN dom' PROVE \E k \in DOMAIN dom \ {i} : j = at(k)
  <2>1. CASE j < i
    <3>1. j \in DOMAIN dom \ {i} /\ at(j) = j
      BY <1>3, <1>5, <2>1
    <3> QED
      BY <3>1
  <2>2. CASE ~(j < i)
    <3>1. j + 1 \in DOMAIN dom \ {i} /\ at(j + 1) = j
      BY <1>3, <1>5, <2>2
    <3> QED
      BY <3>1
  <2> QED
    BY <2>1, <2>2
<1>8. \A j, k \in DOMAIN dom \ {i} : j < k => at(j) < at(k)
  BY <1>3
<1>9. /\ Connected = {dom[k] : k \in DOMAIN dom} /\ Connected \subseteq Elements
      /\ \A j, k \in DOMAIN dom : dom[j] = dom[k] => j = k
  BY NodesAreDistinct
<1> HIDE DEF at
<1>10. Connected' = Connected \ {e}
  <2>1. Connected' = {dom'[k] : k \in DOMAIN dom'}
    BY DEF Connected, ToSet
  <2>2. \A c \in Connected' : c \in Connected \ {e}
    BY <1>6, <1>7, <1>9, <2>1
  <2>3. \A c \in Connected \ {e} : c \in Connected'
    BY <1>6, <1>9, <2>1
  <2> QED
    BY <2>2, <2>3
<1>11. IsInjective(dom')
  <2> SUFFICES ASSUME NEW j \in DOMAIN dom', NEW k \in DOMAIN dom', dom'[j] = dom'[k]
               PROVE  j = k
    BY DEF IsInjective
  <2> QED
    BY <1>6, <1>7, <1>9
<1>12. ASSUME NEW a, NEW c, Precedes(a, c), a # e, c # e PROVE Precedes(a, c)'
  <2>1. PICK j \in DOMAIN dom : \E k \in DOMAIN dom : j < k /\ dom[j] = a /\ dom[k] = c
    BY <1>12 DEF Precedes
  <2>2. PICK k \in DOMAIN dom : j < k /\ dom[j] = a /\ dom[k] = c
    BY <2>1
  <2>3. j \in DOMAIN dom \ {i} /\ k \in DOMAIN dom \ {i}
    BY <1>12, <2>2
  <2>4. at(j) < at(k) /\ dom'[at(j)] = a /\ dom'[at(k)] = c
        /\ at(j) \in DOMAIN dom' /\ at(k) \in DOMAIN dom'
    BY <1>6, <1>8, <2>2, <2>3
  <2> QED
    BY <2>4 DEF Precedes
<1>13. e \in Elements
  BY <1>9
<1>14. /\ name' \in [Elements -> Names \cup {NoName}]
       /\ \A c \in Elements \ {e} : name'[c] = name[c]
  BY <1>1, <1>13 DEF PageRemoves
<1>15. /\ UNCHANGED <<work, rescan>>
       /\ cut' = (cut \/ \E k \in DOMAIN work : work[k] = [root |-> Root, at |-> e])
  BY DEF PageRemoves
<1> HIDE DEF e
<1>16. ASSUME installed, ~cut' PROVE WalksOK(work, tried)'
  <2>1. ~cut /\ WalksOK(work, tried)
    BY <1>15, <1>16 DEF ScriptOK
  <2>2. work \in Seq(Items)
    BY DEF ScriptOK
  <2>3. \A k \in DOMAIN work : work[k] = [root |-> work[k].root, at |-> work[k].at]
    <3>1. \A x \in Items : x = [root |-> x.root, at |-> x.at]
      BY DEF Items
    <3> QED
      BY <2>2, <3>1
  <2>4. \A k \in DOMAIN work : work[k].root = Root => work[k].at # e
    BY <1>15, <1>16, <2>3
  <2>5. \A k \in DOMAIN work : work[k].root = Root =>
          work[k].at \in {"start", Root} \cup (Connected \ {e})
    BY <2>1, <2>4 DEF WalksOK
  <2>6. ASSUME NEW c \in Connected \ {e}, name'[c] \notin tried \cup {NoName}, ~rescan
        PROVE  \E k \in DOMAIN work : \E item : item = work[k] /\ Visits(item, c)'
    <3>1. name[c] \notin tried \cup {NoName}
      BY <1>9, <1>14, <2>6
    <3>2. PICK k \in DOMAIN work : Visits(work[k], c)
      BY <2>1, <2>6, <3>1 DEF WalksOK
    <3>3. \A item : item.at # "start" /\ item.root = Root /\ item.at # e /\ Visits(item, c)
            => Visits(item, c)'
      <4> SUFFICES ASSUME NEW item, item.at # "start", item.root = Root, item.at # e,
                          Visits(item, c)
                   PROVE  Visits(item, c)'
        OBVIOUS
      <4>1. item.at = Root \/ Precedes(item.at, c)
        BY DEF Visits
      <4>2. item.at = Root \/ Precedes(item.at, c)'
        BY <1>12, <2>6, <4>1
      <4> QED
        BY <4>2 DEF Visits
    <3>4. \A item : item.at = "start" /\ Visits(item, c) => Visits(item, c)'
      BY DEF Visits
    <3>5. work[k].at # "start" => work[k].root = Root
      BY <3>2 DEF Visits
    <3> QED
      BY <2>4, <3>2, <3>3, <3>4, <3>5
  <2> QED
    BY <1>10, <1>15, <2>5, <2>6 DEF WalksOK
<1>17. cut' \in BOOLEAN
  BY <1>15 DEF ScriptOK
<1> QED
  BY <1>4, <1>11, <1>14, <1>15, <1>16, <1>17 DEF ScriptOK

(* The batches at the worker *)

LEMMA FlushBatches ==
  ASSUME ScriptOK, BatchOK, Flush
  PROVE  BatchOK'
<1> DEFINE end == Turns[MaxSteps]
           posted == end.batch # {} /\ enabled
           batch == [document |-> document, names |-> end.batch]
           walks == IF end.work = <<>> /\ rescan THEN <<Item(Root)>> ELSE end.work
<1>1. end.batch \subseteq Names
  BY FlushTurns DEF TurnOK
<1>2. /\ scheduled
      /\ inFlight' = IF end.batch = {} THEN inFlight ELSE enabled
      /\ batches' = IF posted THEN Append(batches, batch) ELSE batches
      /\ tried' = tried \cup end.batch
      /\ rescan' = (rescan /\ end.work # <<>>)
      /\ work' = walks
      /\ scheduled' = (walks # <<>> /\ ~inFlight')
      /\ UNCHANGED <<document, enabled, styled>>
  BY DEF Flush
<1> HIDE DEF end
<1>3. /\ ~inFlight /\ \A i \in DOMAIN batches : batches[i].document # document
      /\ enabled \in BOOLEAN /\ inFlight \in BOOLEAN /\ document \in 0..MaxDocuments
      /\ batches \in Seq(Batches) /\ styled \subseteq tried
      /\ \A i \in DOMAIN batches : batches[i].document <= document
  BY <1>2 DEF BatchOK
<1>4. batch \in Batches
  BY <1>1, <1>3 DEF Batches
<1>5. batch.document = document /\ batch.names = end.batch
  OBVIOUS
<1>6. walks # <<>> \/ ~rescan'
  BY <1>2
<1> HIDE DEF batch, walks
<1>7. CASE posted
  <2>1. inFlight' = TRUE /\ scheduled' = FALSE /\ batches' = Append(batches, batch)
    BY <1>2, <1>3, <1>7
  <2>2. /\ batches' \in Seq(Batches) /\ Len(batches') = Len(batches) + 1
        /\ \A i \in 1..Len(batches) : batches'[i] = batches[i]
        /\ batches'[Len(batches) + 1] = batch
    BY <1>3, <1>4, <2>1, AppendProperties
  <2>3. /\ DOMAIN batches = 1..Len(batches) /\ Len(batches) \in Nat
        /\ DOMAIN batches' = 1..(Len(batches) + 1)
    BY <1>3, <2>2
  <2> DEFINE k == Len(batches) + 1
  <2>4. k \in DOMAIN batches' /\ batches'[k] = batch
    BY <2>2, <2>3
  <2>5. \A i \in DOMAIN batches' : i = k \/ (i \in DOMAIN batches /\ batches'[i] = batches[i])
    BY <2>2, <2>3
  <2>6. k \notin DOMAIN batches
    BY <2>3
  <2> HIDE DEF k
  <2>7. \A i \in DOMAIN batches' : /\ batches'[i].document <= document
                                   /\ batches'[i].document = document <=> i = k
    BY <1>3, <1>5, <2>4, <2>5, <2>6
  <2>8. batches'[k].names \subseteq tried'
    BY <1>2, <1>5, <2>4
  <2>9. styled' \subseteq tried' /\ document' = document /\ enabled' \in BOOLEAN
    BY <1>2, <1>3
  <2> QED
    BY <1>3, <2>1, <2>2, <2>4, <2>7, <2>8, <2>9 DEF BatchOK
<1>8. CASE ~posted
  <2>1. inFlight' = FALSE /\ batches' = batches
    BY <1>2, <1>3, <1>8
  <2>2. scheduled' = (work' # <<>>) /\ (rescan' => work' # <<>>)
    BY <1>2, <1>6, <2>1
  <2>3. styled' \subseteq tried' /\ document' = document /\ enabled' \in BOOLEAN
        /\ tried \subseteq tried'
    BY <1>2, <1>3
  <2> QED
    BY <1>3, <2>1, <2>2, <2>3 DEF BatchOK
<1> QED
  BY <1>7, <1>8

LEMMA InsertBatches ==
  ASSUME BatchOK, InsertGenericSelectors
  PROVE  BatchOK'
<1> DEFINE batch == Head(batches)
<1>1. /\ batches \in Seq(Batches) /\ batches # <<>> /\ batches' = Tail(batches)
      /\ UNCHANGED <<document, enabled, work, rescan, tried>>
  BY DEF InsertGenericSelectors, BatchOK
<1>2. /\ batch = batches[1] /\ batch \in Batches
      /\ batches' \in Seq(Batches) /\ Len(batches') = Len(batches) - 1
      /\ \A i \in 1..Len(batches') : batches'[i] = batches[i + 1]
  BY <1>1, HeadTailProperties
<1>3. /\ DOMAIN batches = 1..Len(batches) /\ Len(batches) \in Nat
      /\ DOMAIN batches' = 1..(Len(batches) - 1)
  BY <1>1, <1>2
<1>4. \A i \in DOMAIN batches' : /\ i + 1 \in DOMAIN batches /\ i + 1 # 1
                                 /\ batches'[i] = batches[i + 1]
  BY <1>2, <1>3
<1>5. \A i \in DOMAIN batches : i = 1 \/ (i - 1 \in DOMAIN batches' /\ (i - 1) + 1 = i)
  BY <1>3
<1>6. 1 \in DOMAIN batches
  BY <1>1, <1>3
<1> HIDE DEF batch
<1>7. \A i \in DOMAIN batches' :
        /\ batches'[i].document <= document
        /\ batches'[i].document = document => batches'[i].names \subseteq tried
  BY <1>4 DEF BatchOK
<1>8. CASE Current(batch)
  <2>1. batches[1].document = document /\ batches[1].names \subseteq tried
    BY <1>2, <1>6, <1>8 DEF Current, BatchOK
  <2>2. inFlight
    BY <1>6, <2>1 DEF BatchOK
  <2>3. \A i \in DOMAIN batches : batches[i].document = document => i = 1
    BY <1>6, <2>1, <2>2 DEF BatchOK
  <2>4. \A i \in DOMAIN batches' : batches'[i].document # document
    BY <1>4, <2>3
  <2>5. /\ styled' = IF enabled THEN styled \cup batch.names ELSE styled
        /\ inFlight' = FALSE
        /\ scheduled' = (scheduled \/ work # <<>> \/ rescan)
    BY <1>8 DEF InsertGenericSelectors, GenericComplete, batch
  <2>6. styled' \subseteq tried
    BY <1>2, <2>1, <2>5 DEF BatchOK
  <2>7. scheduled' \in BOOLEAN /\ (work # <<>> \/ rescan => scheduled')
    BY <2>5
  <2> QED
    BY <1>1, <1>2, <1>7, <2>4, <2>5, <2>6, <2>7 DEF BatchOK
<1>9. CASE ~Current(batch)
  <2>1. UNCHANGED <<styled, inFlight, scheduled>>
    BY <1>9 DEF InsertGenericSelectors, batch
  <2>2. batches[1].document # document
    BY <1>2, <1>9 DEF Current
  <2>3. CASE inFlight
    <3>1. PICK k \in DOMAIN batches :
            \A i \in DOMAIN batches : batches[i].document = document <=> i = k
      BY <2>3 DEF BatchOK
    <3>2. k # 1 /\ k - 1 \in DOMAIN batches' /\ (k - 1) + 1 = k
      BY <1>5, <2>2, <3>1
    <3>3. \A i \in DOMAIN batches' : i + 1 = k <=> i = k - 1
      BY <1>3
    <3>4. \A i \in DOMAIN batches' : batches'[i].document = document <=> i = k - 1
      BY <1>4, <3>1, <3>3
    <3> QED
      BY <1>1, <1>2, <1>7, <2>1, <2>3, <3>2, <3>4 DEF BatchOK
  <2>4. CASE ~inFlight
    <3>1. \A i \in DOMAIN batches' : batches'[i].document # document
      BY <1>4, <2>4 DEF BatchOK
    <3> QED
      BY <1>1, <1>2, <1>7, <2>1, <2>4, <3>1 DEF BatchOK
  <2> QED
    BY <2>3, <2>4
<1> QED
  BY <1>8, <1>9

LEMMA NewDocumentBatches ==
  ASSUME BatchOK, NewDocument
  PROVE  BatchOK'
<1>1. /\ document \in 0..MaxDocuments /\ enabled \in BOOLEAN
      /\ batches' = batches /\ batches \in Seq(Batches)
      /\ \A i \in DOMAIN batches : batches[i].document <= document
  BY DEF NewDocument, BatchOK
<1>2. document' \in 0..MaxDocuments /\ document' = document + 1
  BY <1>1, DocumentAssumption DEF NewDocument
<1>3. \A i \in DOMAIN batches : batches[i].document \in 0..MaxDocuments
  <2>1. \A x \in Batches : x.document \in 0..MaxDocuments
    BY DEF Batches
  <2>2. \A i \in DOMAIN batches : batches[i] \in Batches
    BY <1>1
  <2> QED
    BY <2>1, <2>2
<1>4. \A i \in DOMAIN batches : /\ batches[i].document <= document + 1
                                /\ batches[i].document # document + 1
  BY <1>1, <1>3
<1>5. /\ enabled' \in BOOLEAN /\ scheduled' \in BOOLEAN /\ inFlight' = FALSE
      /\ rescan' = FALSE /\ (work' # <<>> => scheduled') /\ styled' = {}
  BY <1>1 DEF NewDocument
<1> QED
  BY <1>1, <1>2, <1>4, <1>5 DEF BatchOK

LEMMA PageBatches ==
  ASSUME BatchOK, NEW e, Observed(e) \/ UNCHANGED <<work, rescan, scheduled>>,
         UNCHANGED <<document, enabled, inFlight, batches, styled, tried>>
  PROVE  BatchOK'
<1>1. /\ scheduled' \in BOOLEAN
      /\ work' # <<>> \/ rescan' => scheduled' \/ inFlight
      /\ ~(scheduled' /\ inFlight)
  <2>1. CASE UNCHANGED <<work, rescan, scheduled>>
    BY <2>1 DEF BatchOK
  <2>2. CASE Enqueue(e)
    BY <2>2 DEF Enqueue, BatchOK
  <2> QED
    BY <2>1, <2>2 DEF Observed
<1> QED
  BY <1>1 DEF BatchOK

(* The script and the agent keep account of what is to be examined, in     *)
(* every turn of every flush, for any document and any bounds.             *)
THEOREM DocumentInductive == DocumentSpec => []DocumentInv
<1>1. DocumentInit => DocumentInv
  <2> SUFFICES ASSUME DocumentInit PROVE DocumentInv
    OBVIOUS
  <2>1. dom = <<>> /\ Connected = {} /\ work = <<>> /\ batches = <<>>
    BY DEF DocumentInit, Connected, ToSet
  <2>2. ScriptOK
    <3>1. /\ dom \in Seq(Elements) /\ IsInjective(dom)
          /\ name \in [Elements -> Names \cup {NoName}]
      BY <2>1 DEF DocumentInit, IsInjective, Nameless
    <3>2. work \in Seq(Items) /\ Len(work) <= MaxWork
      BY <2>1, DocumentAssumption
    <3>3. /\ installed = FALSE /\ rescan = FALSE /\ cut = FALSE /\ seen = {} /\ tried = {}
      BY DEF DocumentInit
    <3> QED
      BY <3>1, <3>2, <3>3 DEF ScriptOK
  <2>3. BatchOK
    <3>1. document \in 0..MaxDocuments /\ document = 0
      BY DocumentAssumption DEF DocumentInit
    <3>2. batches \in Seq(Batches) /\ DOMAIN batches = {}
      BY <2>1
    <3>3. /\ enabled \in BOOLEAN /\ scheduled = FALSE /\ inFlight = FALSE /\ rescan = FALSE
          /\ styled = {} /\ tried = {}
      BY DEF DocumentInit
    <3> QED
      BY <2>1, <3>1, <3>2, <3>3 DEF BatchOK
  <2> QED
    BY <2>2, <2>3 DEF DocumentInv
<1>2. DocumentInv /\ [DocumentNext]_documentVars => DocumentInv'
  <2> SUFFICES ASSUME ScriptOK, BatchOK, [DocumentNext]_documentVars
               PROVE  ScriptOK' /\ BatchOK'
    BY DEF DocumentInv
  <2>1. CASE Flush
    BY <2>1, FlushScript, FlushBatches
  <2>2. CASE InsertGenericSelectors
    <3>1. UNCHANGED <<dom, name, installed, cut, rescan, work, seen, tried>>
      BY <2>2 DEF InsertGenericSelectors
    <3> QED
      BY <2>2, <3>1, ScriptIdles, InsertBatches
  <2>3. CASE NewDocument
    BY <2>3, NewDocumentScript, NewDocumentBatches
  <2>4. CASE SetSite
    <3>1. UNCHANGED <<dom, name, installed, cut, rescan, work, seen, tried>>
      BY <2>4 DEF SetSite, scriptVars
    <3>2. BatchOK'
      <4>1. /\ enabled' \in BOOLEAN
            /\ UNCHANGED <<document, work, rescan, scheduled, inFlight, batches, styled, tried>>
        BY <2>4 DEF SetSite, scriptVars, BatchOK
      <4> QED
        BY <4>1 DEF BatchOK
    <3> QED
      BY <3>1, <3>2, ScriptIdles
  <2>5. CASE PageStep
    <3>1. /\ UNCHANGED <<installed, seen, tried>>
          /\ UNCHANGED <<document, enabled, inFlight, batches, styled, tried>>
      BY <2>5 DEF PageStep
    <3>2. ASSUME NEW e \in Elements, NEW i \in 1..(Len(dom) + 1),
                 NEW n \in Names \cup {NoName}, PageAdds(e, i, n)
          PROVE  ScriptOK' /\ BatchOK'
      <4>1. Observed(e)
        BY <3>2 DEF PageAdds
      <4> QED
        BY <3>1, <3>2, <4>1, AddsScript, PageBatches
    <3>3. ASSUME NEW e \in Elements, NEW n \in Names \cup {NoName}, PageRenames(e, n)
          PROVE  ScriptOK' /\ BatchOK'
      <4>1. Observed(e)
        BY <3>3 DEF PageRenames
      <4> QED
        BY <3>1, <3>3, <4>1, RenamesScript, PageBatches
    <3>4. ASSUME NEW i \in DOMAIN dom, PageRemoves(i)
          PROVE  ScriptOK' /\ BatchOK'
      <4>1. UNCHANGED <<work, rescan, scheduled>>
        BY <3>4 DEF PageRemoves
      <4> QED
        BY <3>1, <3>4, <4>1, RemovesScript, PageBatches
    <3> QED
      BY <2>5, <3>2, <3>3, <3>4 DEF PageStep
  <2>6. CASE UNCHANGED documentVars
    <3>1. UNCHANGED <<dom, name, installed, cut, rescan, work, seen, tried>>
      BY <2>6 DEF documentVars, scriptVars
    <3>2. UNCHANGED <<document, enabled, work, rescan, scheduled, inFlight, batches,
                      styled, tried>>
      BY <2>6 DEF documentVars, scriptVars
    <3>3. BatchOK'
      BY <3>2 DEF BatchOK
    <3> QED
      BY <3>1, <3>3, ScriptIdles
  <2> QED
    BY <2>1, <2>2, <2>3, <2>4, <2>5, <2>6 DEF DocumentNext
<1> QED
  BY <1>1, <1>2, PTL DEF DocumentSpec

(* Every variable of script and agent keeps its kind, and the queue its    *)
(* number (enqueue, flush).                                                *)
THEOREM DocumentTypes == DocumentSpec => []DocumentTypeOK
<1>1. DocumentInv => DocumentTypeOK
  <2> SUFFICES ASSUME ScriptOK, BatchOK PROVE DocumentTypeOK
    BY DEF DocumentInv
  <2>1. Connected \subseteq Elements
    BY NodesAreDistinct
  <2>2. \A i \in DOMAIN work : /\ work[i].root \in Elements \cup {Root}
                               /\ work[i].at \in Elements \cup {Root, "start"}
    <3>1. \A x \in Items : /\ x.root \in Elements \cup {Root}
                           /\ x.at \in Elements \cup {Root, "start"}
      BY DEF Items
    <3>2. work \in Seq(Items)
      BY DEF ScriptOK
    <3>3. \A i \in DOMAIN work : work[i] \in Items
      BY <3>2
    <3> QED
      BY <3>1, <3>3
  <2>3. seen \cup styled \cup tried \subseteq Names
    BY DEF ScriptOK, BatchOK
  <2> QED
    BY <2>1, <2>2, <2>3 DEF DocumentTypeOK, ScriptOK, BatchOK
<1> QED
  BY <1>1, DocumentInductive, PTL

(* The script never stops with something to examine and has exactly one    *)
(* batch at the worker when it waits for one; and when it has nothing left *)
(* to do, every name in the document was looked up, for any document,      *)
(* names and bounds (enqueue, flush, the agent's completion).              *)
THEOREM NamesHold == DocumentSpec => []NamesAreExamined
<1>1. DocumentInv => BatchIsCarried
  <2> SUFFICES ASSUME BatchOK PROVE BatchIsCarried
    BY DEF DocumentInv
  <2> DEFINE now == {i \in DOMAIN batches : batches[i].document = document}
  <2>1. CASE inFlight
    <3>1. PICK k \in DOMAIN batches :
            \A i \in DOMAIN batches : batches[i].document = document <=> i = k
      BY <2>1 DEF BatchOK
    <3>2. now = {k}
      BY <3>1
    <3>3. Cardinality(now) = 1
      BY <3>2, FS_Singleton
    <3> QED
      BY <2>1, <3>3 DEF BatchIsCarried, BatchOK
  <2>2. CASE ~inFlight
    <3>1. now = {}
      BY <2>2 DEF BatchOK
    <3>2. Cardinality(now) = 0
      BY <3>1, FS_EmptySet
    <3> QED
      BY <2>2, <3>2 DEF BatchIsCarried, BatchOK
  <2> QED
    BY <2>1, <2>2
<1>2. DocumentInv => NothingMissed
  <2> SUFFICES ASSUME ScriptOK, Quiet, ~cut PROVE NamesOf(Elements) \subseteq tried
    BY DEF DocumentInv, NothingMissed
  <2>1. WalksOK(work, tried) /\ DOMAIN work = {} /\ ~rescan
    BY DEF ScriptOK, Quiet
  <2>2. \A e \in Connected : name[e] \in tried \cup {NoName}
    BY <2>1 DEF WalksOK
  <2> QED
    BY <2>2 DEF NamesOf
<1> QED
  BY <1>1, <1>2, DocumentInductive, PTL DEF NamesAreExamined
=============================================================================
