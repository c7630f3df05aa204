------------------------------ MODULE SettingsPage ------------------------------
(***************************************************************************)
(* The content blocking page of the settings (settings.svelte.ts,          *)
(* DomainImport.svelte) and the handler behind it                          *)
(* (content_blocking_settings_handler.cc).  Calls and answers travel in    *)
(* order; an answer that carries the state first reads the lists on the    *)
(* worker of the list store.  Other settings pages change the same things, *)
(* and the coordinator of the lists updates on its own.                    *)
(*                                                                         *)
(* The profile is a regular one with blocking on.  Texts and checks of     *)
(* what is typed are left out.                                             *)
(***************************************************************************)
EXTENDS ContentBlockingSettings, SequencesExt, Naturals

CONSTANTS
  Calls,  \* numbers of calls; one that is answered is given again
  Budgets \* how often each of Kinds of things may happen in a behaviour

Kinds == {"settings", "lists", "file", "flight", "other"}

ASSUME SettingsPageAssumption ==
  Calls \subseteq Nat /\ Nothing \notin Calls /\ Budgets \subseteq [Kinds -> Nat]

VARIABLES
  \* the page
  shown,   \* model.state, Nothing before the first answer
  latest,  \* the refresh that refreshEpoch belongs to, Nothing if none
  flags,   \* which of changingException, changingDomains, ... are set
  purpose, \* what each call without an answer is for
  text,    \* fileText
  asked,   \* the rules the page showed when it asked for a preview
  preview, \* the additions it was told of, with those rules
  \* the way between the page and the browser
  toBrowser, toPage,
  \* the browser
  parsing, \* the files being parsed on the thread pool
  flight,  \* what the coordinator is doing
  waiting, \* the call that waits for the flight, Nothing if none
  lists,   \* how often the lists on disk have changed
  worker,  \* tasks of the store's sequence
  fromWorker, \* and their replies
  left     \* what is left of the budget

pageVars == <<shown, latest, flags, purpose, text, asked, preview>>
workerVars == <<lists, worker, fromWorker>>
ownPageVars == <<pageVars, toBrowser, toPage, parsing, flight, waiting,
                 workerVars, left>>
settingsPageVars == <<settingsVars, ownPageVars>>

\* The flags the answer of a call clears.
Flags == [refresh |-> {}, exception |-> {"exception"}, domains |-> {"domains"},
          lists |-> {"lists"}, subscription |-> {"subscription"},
          preview |-> {"reading"}, import |-> {"domains", "reading"},
          imported |-> {"domains", "reading"}]

\* A call is for one of these.
ASSUME FlagsAssumption == Nothing \notin DOMAIN Flags

ChangeEvent == [event |-> TRUE]
Resolved(id, value) == [event |-> FALSE, id |-> id, ok |-> TRUE, value |-> value]
Rejected(id) == [event |-> FALSE, id |-> id, ok |-> FALSE]

Uses(kind) == left[kind] > 0 /\ left' = [left EXCEPT ![kind] = @ - 1]

-----------------------------------------------------------------------------
(* The page *)

\* The least number without a call: what a call is called says nothing.
NextCall(id) ==
  /\ purpose[id] = Nothing
  /\ \A c \in Calls : purpose[c] = Nothing => id <= c

\* sendWithPromise
Call(id, what, for) ==
  /\ NextCall(id)
  /\ purpose' = [purpose EXCEPT ![id] = for]
  /\ toBrowser' = Append(toBrowser, [id |-> id, what |-> what])

Disabled == {"reading", "domains"} \cap flags # {} \/ shown = Nothing
Stale == preview # Nothing /\ preview.rules # shown.blocked

\* The effect of DomainImport runs before anything else does.
EffectDue == ~Disabled /\ Stale

Edit(what, for) ==
  /\ shown # Nothing /\ Flags[for] \cap flags = {}
  /\ flags' = flags \cup Flags[for]
  /\ \E id \in Calls : Call(id, what, for)
  /\ UNCHANGED <<shown, latest, text, asked, preview>>

EditSettings ==
  \/ \E h \in Hosts, on \in BOOLEAN :
       Edit([do |-> "exception", host |-> h, on |-> on], "exception")
  \/ \E h \in Hosts, on, replace \in BOOLEAN :
       Edit([do |-> "domain", host |-> h, on |-> on, replace |-> replace],
            "domains")
  \/ \E H \in SUBSET Hosts \ {{}} :
       Edit([do |-> "remove", hosts |-> H], "domains")

EditLists ==
  /\ shown # Nothing /\ ~shown.updating
  /\ \/ Edit([do |-> "check"], "lists")
     \/ Edit([do |-> "subscription"], "subscription")

AskPreview(f) ==
  /\ \E id \in Calls : Call(id, [do |-> "preview", file |-> f], "preview")
  /\ flags' = flags \cup {"reading"}
  /\ text' = f
  /\ asked' = shown.blocked
  /\ UNCHANGED <<shown, latest>>

ReadFile(f) ==
  /\ ~Disabled
  /\ AskPreview(f)
  /\ preview' = Nothing

RefreshPreview ==
  /\ EffectDue
  /\ AskPreview(text)
  /\ UNCHANGED preview

Cancel ==
  /\ ~Disabled /\ preview # Nothing
  /\ preview' = Nothing /\ text' = Nothing /\ asked' = Nothing
  /\ UNCHANGED <<shown, latest, flags, purpose, toBrowser>>

ApprovedFile == text

\* Only the additions the user was shown are submitted.
Approved == preview.additions

Apply ==
  /\ ~Disabled /\ preview # Nothing /\ ~Stale
  /\ DOMAIN preview.additions # {}
  /\ flags' = flags \cup {"reading", "domains"}
  /\ \E id \in Calls : Call(id, [do |-> "import", file |-> Approved], "import")
  /\ UNCHANGED <<shown, latest, text, asked, preview>>

UserActs ==
  /\ ~EffectDue
  /\ \/ Uses("settings") /\ EditSettings
     \/ Uses("lists") /\ EditLists
     \/ Uses("file") /\ (Apply \/ Cancel \/ \E f \in Rules : ReadFile(f))
  /\ UNCHANGED <<settingsVars, toPage, parsing, flight, waiting, workerVars>>

PageRunsEffect ==
  /\ RefreshPreview
  /\ UNCHANGED <<settingsVars, toPage, parsing, flight, waiting, workerVars, left>>

-----------------------------------------------------------------------------
(* The handler and what it calls *)

Told == IF <<disabled, blocked>>' = <<disabled, blocked>> THEN <<>>
        ELSE <<ChangeEvent>>

Send(messages) == toPage' = toPage \o messages

\* GetStatus: what is in flight is noted now, the lists are read later.
SendState(id, busy) ==
  worker' = Append(worker, [do |-> "read", id |-> id, updating |-> busy])

GetState(m) ==
  /\ m.what.do = "get"
  /\ SendState(m.id, flight # "idle")
  /\ UNCHANGED <<settingsVars, toPage, parsing, flight, waiting>>

Refused(w) ==
  /\ w.do = "domain"
  /\ \/ w.replace # (w.host \in DOMAIN blocked)
     \/ ~w.replace /\ Cardinality(DOMAIN blocked) = MaxBlockedDomains

ChangeSettings(m) ==
  /\ \/ /\ m.what.do = "exception"
        /\ SetEnabledForSite(m.what.host, m.what.on)
     \/ /\ m.what.do = "domain" /\ ~Refused(m.what)
        /\ SetBlockedDomain(m.what.host, m.what.on, m.what.replace)
     \/ m.what.do = "remove" /\ RemoveBlockedDomains(m.what.hosts)
  /\ Send(Told)
  /\ SendState(m.id, flight # "idle")
  /\ UNCHANGED <<parsing, flight, waiting>>

RefuseDomain(m) ==
  /\ Refused(m.what)
  /\ Send(<<Rejected(m.id)>>)
  /\ UNCHANGED <<settingsVars, parsing, flight, waiting, worker>>

\* CheckNow: a check waits for an update, and ends at once during a change.
CheckWaits(m) ==
  /\ m.what.do = "check" /\ flight # "change"
  /\ flight' = "update" /\ waiting' = m.id
  /\ Send(IF flight = "idle" THEN <<ChangeEvent>> ELSE <<>>)
  /\ UNCHANGED <<settingsVars, parsing, worker>>

CheckEnds(m) ==
  /\ m.what.do = "check" /\ flight = "change"
  /\ SendState(m.id, TRUE)
  /\ UNCHANGED <<settingsVars, toPage, parsing, flight, waiting>>

\* BeginMutation
ChangeSubscription(m) ==
  /\ m.what.do = "subscription"
  /\ IF flight = "idle"
     THEN flight' = "change" /\ waiting' = m.id /\ Send(<<ChangeEvent>>)
     ELSE UNCHANGED <<flight, waiting>> /\ Send(<<Rejected(m.id)>>)
  /\ UNCHANGED <<settingsVars, parsing, worker>>

ReadFileOf(m) ==
  /\ m.what.do \in {"preview", "import"}
  /\ parsing' = parsing \cup {m}
  /\ IF m.what.do = "import" THEN ReadDomainFile(m.what.file)
     ELSE UNCHANGED settingsVars
  /\ UNCHANGED <<toPage, flight, waiting, worker>>

Receives ==
  /\ toBrowser # <<>>
  /\ toBrowser' = Tail(toBrowser)
  /\ LET m == Head(toBrowser)
     IN  \/ GetState(m) \/ ChangeSettings(m) \/ RefuseDomain(m)
         \/ CheckWaits(m) \/ CheckEnds(m) \/ ChangeSubscription(m)
         \/ ReadFileOf(m)
  /\ UNCHANGED <<pageVars, lists, fromWorker, left>>

Additions(f) == Restrict(f, DOMAIN f \ DOMAIN blocked)

\* DomainFileParsed
FileIsParsed(m) ==
  /\ m \in parsing
  /\ parsing' = parsing \ {m}
  /\ \/ /\ m.what.do = "import"
        /\ ImportBlockedDomains
        /\ Send(IF TooMany(Merged) THEN <<Rejected(m.id)>>
                ELSE Told \o <<Resolved(m.id, "added")>>)
     \/ /\ m.what.do = "preview"
        /\ Send(<<Resolved(m.id, Additions(m.what.file))>>)
        /\ UNCHANGED settingsVars
  /\ UNCHANGED <<pageVars, toBrowser, flight, waiting, workerVars, left>>

\* A timer, or another settings page.
FlightStarts ==
  /\ flight = "idle"
  /\ flight' \in {"update", "change"}
  /\ Send(<<ChangeEvent>>)
  /\ Uses("flight")
  /\ UNCHANGED <<settingsVars, pageVars, toBrowser, parsing, waiting, workerVars>>

Writing == \E t \in ToSet(worker) \cup ToSet(fromWorker) : t.do = "write"

FlightWrites ==
  /\ flight # "idle" /\ ~Writing
  /\ worker' = Append(worker, [do |-> "write"])
  /\ UNCHANGED <<settingsVars, pageVars, toBrowser, toPage, parsing, flight,
                 waiting, lists, fromWorker, left>>

FlightEndsUnanswered(ok) ==
  /\ flight' = "idle" /\ waiting' = Nothing
  /\ Send(<<ChangeEvent>>)
  /\ IF flight = "change" \/ waiting = Nothing THEN UNCHANGED worker
     ELSE SendState(waiting, FALSE)
  /\ UNCHANGED <<settingsVars, pageVars, toBrowser, parsing, lists, left>>

\* Completed and MutationCompleted
FlightEnds(ok) ==
  LET refused == flight = "change" /\ ~ok
  IN  /\ flight' = "idle" /\ waiting' = Nothing
      /\ Send(IF refused /\ waiting # Nothing
              THEN <<ChangeEvent, Rejected(waiting)>> ELSE <<ChangeEvent>>)
      /\ IF refused \/ waiting = Nothing THEN UNCHANGED worker
         ELSE SendState(waiting, FALSE)
      /\ UNCHANGED <<settingsVars, pageVars, toBrowser, parsing, lists, left>>

DownloadFails ==
  /\ flight = "change" /\ ~Writing
  /\ FlightEnds(FALSE)
  /\ UNCHANGED fromWorker

WithLists(t) == [do |-> "read", id |-> t.id, updating |-> t.updating,
                 lists |-> lists]

WorkerRuns ==
  /\ worker # <<>>
  /\ worker' = Tail(worker)
  /\ LET t == Head(worker)
     IN  \/ /\ t.do = "read"
            /\ fromWorker' = Append(fromWorker, WithLists(t))
            /\ UNCHANGED lists
         \/ /\ t.do = "write"
            /\ \E ok \in BOOLEAN :
                 /\ lists' = IF ok THEN lists + 1 ELSE lists
                 /\ fromWorker' = Append(fromWorker, [do |-> "write", ok |-> ok])
  /\ UNCHANGED <<settingsVars, pageVars, toBrowser, toPage, parsing, flight,
                 waiting, left>>

\* ResolveState: the settings as they are now, the lists as they were read.
State(r) == [sites |-> disabled, blocked |-> blocked, lists |-> r.lists,
             updating |-> r.updating]

ReplyRuns ==
  /\ fromWorker # <<>>
  /\ fromWorker' = Tail(fromWorker)
  /\ LET r == Head(fromWorker)
     IN  \/ /\ r.do = "read"
            /\ Send(<<Resolved(r.id, State(r))>>)
            /\ UNCHANGED <<settingsVars, pageVars, toBrowser, parsing, flight,
                           waiting, lists, worker, left>>
         \/ r.do = "write" /\ FlightEnds(r.ok)

OtherPageChanges ==
  /\ Uses("other")
  /\ \/ \E h \in Hosts, on \in BOOLEAN : SetEnabledForSite(h, on)
     \/ \E h \in Hosts, on, r \in BOOLEAN : SetBlockedDomain(h, on, r)
     \/ \E h \in Hosts : RemoveBlockedDomains({h})
  /\ Send(Told)
  /\ UNCHANGED <<pageVars, toBrowser, parsing, flight, waiting, workerVars>>

-----------------------------------------------------------------------------
(* What the page receives *)

\* The call id has its answer, and one more is made.
CallAgain(id, next, for) ==
  /\ NextCall(next)
  /\ purpose' = [purpose EXCEPT ![id] = Nothing, ![next] = for]
  /\ toBrowser' = Append(toBrowser, [id |-> next, what |-> [do |-> "get"]])
  /\ latest' = next

ChangedWhileAsking ==
  /\ Head(toPage).event
  /\ IF flags # {} THEN UNCHANGED <<purpose, toBrowser, latest>>
     ELSE \E id \in Calls : Call(id, [do |-> "get"], "refresh") /\ latest' = id
  /\ UNCHANGED <<shown, flags, text, asked, preview>>

SettingsChanged ==
  /\ Head(toPage).event
  /\ \E id \in Calls : Call(id, [do |-> "get"], "refresh") /\ latest' = id
  /\ UNCHANGED <<shown, flags, text, asked, preview>>

Over(id) ==
  /\ purpose' = [purpose EXCEPT ![id] = Nothing]
  /\ flags' = flags \ Flags[purpose[id]]
  /\ UNCHANGED toBrowser

RefreshEnds(m) ==
  /\ purpose[m.id] \in {"refresh", "imported"}
  /\ IF m.id = latest THEN shown' = m.value /\ latest' = Nothing
     ELSE UNCHANGED <<shown, latest>>
  /\ IF purpose[m.id] = "imported"
     THEN preview' = Nothing /\ text' = Nothing /\ asked' = Nothing
     ELSE UNCHANGED <<preview, text, asked>>
  /\ Over(m.id)

Done(m) ==
  /\ purpose[m.id] \in {"exception", "domains", "lists", "subscription"}
  /\ IF m.ok THEN shown' = m.value /\ latest' = Nothing
     ELSE UNCHANGED <<shown, latest>>
  /\ Over(m.id)
  /\ UNCHANGED <<text, asked, preview>>

Previewed(m) ==
  /\ purpose[m.id] = "preview"
  /\ preview' = [additions |-> m.value, rules |-> asked]
  /\ Over(m.id)
  /\ UNCHANGED <<shown, latest, text, asked>>

Imported(m) ==
  /\ purpose[m.id] = "import"
  /\ \/ ~m.ok /\ Over(m.id) /\ UNCHANGED latest
     \/ /\ m.ok
        /\ \E id \in Calls : CallAgain(m.id, id, "imported")
        /\ UNCHANGED flags
  /\ UNCHANGED <<shown, text, asked, preview>>

PageReceives ==
  /\ ~EffectDue
  /\ toPage # <<>>
  /\ toPage' = Tail(toPage)
  /\ \/ SettingsChanged
     \/ LET m == Head(toPage)
        IN  ~m.event /\ (RefreshEnds(m) \/ Done(m) \/ Previewed(m) \/ Imported(m))
  /\ UNCHANGED <<settingsVars, parsing, flight, waiting, workerVars, left>>

-----------------------------------------------------------------------------
\* The handler has just received the first call of a page.
SettingsPageInit ==
  /\ SettingsInit
  /\ shown = Nothing /\ flags = {} /\ text = Nothing /\ asked = Nothing
  /\ preview = Nothing
  /\ \E id \in Calls :
       /\ \A c \in Calls : id <= c
       /\ latest = id
       /\ purpose = [c \in Calls |-> IF c = id THEN "refresh" ELSE Nothing]
       /\ worker = <<[do |-> "read", id |-> id, updating |-> FALSE]>>
  /\ toBrowser = <<>> /\ toPage = <<>> /\ parsing = {} /\ flight = "idle"
  /\ waiting = Nothing /\ lists = 0 /\ fromWorker = <<>> /\ left \in Budgets

SettingsPageNext ==
  \/ UserActs \/ PageRunsEffect \/ PageReceives
  \/ Receives \/ (\E m \in parsing : FileIsParsed(m))
  \/ FlightStarts \/ FlightWrites \/ DownloadFails \/ WorkerRuns \/ ReplyRuns
  \/ OtherPageChanges

SettingsPageSpec == SettingsPageInit /\ [][SettingsPageNext]_settingsPageVars

-----------------------------------------------------------------------------
(* The kinds of the page's and the handler's state; the list of blocked     *)
(* domains stays within its bound, however an import is merged.             *)
SettingsPageTypeOK ==
  /\ SettingsTypeOK
  /\ shown \in [sites : SUBSET Hosts, blocked : Rules, lists : Nat,
                updating : BOOLEAN] \cup {Nothing}
  /\ latest \in Calls \cup {Nothing}
  /\ flags \subseteq {"exception", "domains", "lists", "subscription", "reading"}
  /\ purpose \in [Calls -> DOMAIN Flags \cup {Nothing}]
  /\ text \in Rules \cup {Nothing} /\ asked \in Rules \cup {Nothing}
  /\ preview \in [additions : Rules, rules : Rules] \cup {Nothing}
  /\ \A m \in parsing : m.what.file \in Rules
  /\ flight \in {"idle", "update", "change"}
  /\ waiting \in Calls \cup {Nothing}
  /\ lists \in Nat /\ left \in [Kinds -> Nat]

PageAtRest ==
  /\ toBrowser = <<>> /\ toPage = <<>> /\ parsing = {} /\ flight = "idle"
  /\ worker = <<>> /\ fromWorker = <<>> /\ ~EffectDue

\* Once nothing is on its way, the page shows what is saved: no answer that was
\* composed before a change of another page, of the page itself or of the lists
\* replaces a later one (refreshEpoch, and the event sent with each change).
ShownIsSaved ==
  PageAtRest => /\ shown.sites = disabled
            /\ shown.blocked = blocked
            /\ shown.lists = lists

Carried(id) ==
  LET calls == ToSet(toBrowser) \cup parsing
      tasks == {t \in ToSet(worker) \cup ToSet(fromWorker) : t.do = "read"}
      resolved == {m \in ToSet(toPage) : ~m.event}
  IN  /\ \E m \in calls \cup tasks \cup resolved \cup {[id |-> waiting]} : m.id = id
      /\ Cardinality({m \in calls \cup tasks \cup resolved : m.id = id}) <= 1

FlagIsAnswered ==
  /\ \A id \in Calls : purpose[id] # Nothing <=> Carried(id)
  /\ \A f \in flags : \E id \in Calls :
       purpose[id] # Nothing /\ f \in Flags[purpose[id]]

ImportIsShown ==
  \A m \in ToSet(toBrowser) \cup parsing :
    m.what.do = "import" => preview # Nothing /\ m.what.file = preview.additions

\* No call is forgotten or answered twice by the handler, the coordinator, the
\* parser and the worker between them, and every flag that disables a control
\* has a call whose answer clears it.  What an import on its way adds is what
\* the page still lists as new: neither another page's change nor a
\* recalculation replaces the list the user approved before the import is over.
PageKeepsItsWord == FlagIsAnswered /\ ImportIsShown
=============================================================================
