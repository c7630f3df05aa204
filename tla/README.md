# Yee in TLA+

TLA+ models of Yee, a Chromium-based browser shell with a native agent bridge,
content blocking and projects. The modules are translated from the C++ (and, where
it takes part in a protocol, the Python) of this repository; TLC checks them on
small instances and TLAPS proves what it can for every value of the constants.
`PROJECT.json` maps every definition to the lines it stands for.

It covers the parts of the program that keep state of their own and meet other
parties: the agent bridge, which lets an outside client act in the user's pages, and
its client; the filter lists on disk and the coordinator that updates them; a request
on its way through the filter; the cosmetic filtering of a document; the settings page
that changes all of this; projects and the tabs bound to them; the colour a tab's header
takes from its page; and the extensions page. Section 5 says what is left out.

## 1. Inventory

| Part | State it keeps | Operations | Talks to | Hard behaviour |
|---|---|---|---|---|
| **Agent request ledger** `browser/ui/agent_request_ledger.cc` | files of one mailbox: a claim and a result per request id, the session stop | claim, archive, store stop, read stop | called by the bridge on its I/O sequence; shared with the client by the file system | exclusive creation is the admission point; a write can fail before or after the file exists; the process can end between any two files |
| **Agent bridge** `agent_bridge.cc`, `agent_task_permissions.h`, `agent_bridge_script.h` | members of `AgentBridgeImpl` and one `GrantedAgentTab` per tab | one handler per callback: poll, request, stop and cancellation replies, script results, prompt replies, four timers, navigation, load stop, user input, tab close, visibility, accessibility events | I/O tasks and their replies, scripts and their callbacks, prompts, tab observers | every callback can be late, lost or meant for another request; interruptions while a script runs; consent and rules of a page that has been left |
| **Agent bridge prompt** `agent_bridge_prompt.cc` | the open dialog | show, accept, deny, close | replies to the bridge exactly once, also after the bridge closed it | a late denial; a prompt that cannot be shown |
| **Agent client** `tools/dev/yee-browser.py`, `yee-browser-mcp.py` | `client-pending.json`, `client-state.json`, a lock | publish, wait, recover, cancel a wait, stop | the mailbox | dies between journal and publication; retries |
| **Agent contract, input request, tab activity** | one input request's status; pure decisions | start, resolve, cancel, expire, invalidate | UI | expiry against a late answer; nothing but its unit test calls the input request yet |
| **Filter list store** `components/content_blocking/filter_list_store.cc`, `baseline_list_store.cc` | immutable generations, `state.json`, a backup pointer, caches | add, change, update, read with recovery, prune | the updater's worker; the next start of the browser | a crash between any two writes; pruning what is still in use |
| **Baseline list updater** `browser/content_blocking/baseline_list_updater.cc` | one update or one change in flight, downloads so far, timers, waiting callbacks | timer, check now, add, change, downloads, install | network loaders, the store, settings | operations that exclude each other; every path must end with the callbacks and a timer |
| **Request filtering** `filtering_url_loader_factory.cc`, `transport_filtering.cc` | per request: both pipes, a redirect being awaited, a deferred start, a rewrite | start, redirect, follow, response, completion, disconnects | renderer, network service, settings snapshot | redirects and overrides interleaved with policy changes; double or missing completion |
| **Content blocking settings** `content_blocking_service.cc`, `blocked_domains.cc` | two preferences and a locked snapshot of them | enable, block, import, replace | network sequence reads the snapshot | a stale snapshot |
| **Settings page** `settings.svelte.ts`, `DomainImport.svelte`, `bridge.ts`, `content_blocking_settings_handler.cc` | the page: the state shown, its refresh epoch, a flag per kind of edit, a preview; the handler: none but what is under way | edit, import a file, preview, check, subscribe; answer with the state, send change events | settings, list coordinator, the store's worker, a parser on the thread pool | answers composed at one time and received at another; events between them; other pages; a flag no answer clears |
| **Engine and document filtering** `engine.cc`, `document_engine.cc`, `document_filter_agent.cc`, `generic_cosmetic.js` | compiled rules; per document a queue of nodes, the names seen, one batch in flight | load, evaluate, observe mutations, flush, insert selectors | vendored Rust matcher, the renderer's idle callbacks | answers for a document that is gone; a queue at its limit; a page that changes under a walk |
| **Projects** `browser/projects/*` | projects, pages and their order in one preference; a tab-to-page binding per tab | create, rename, delete, attach, move, update, remove; watch, discard, move window, restore | tabs, session restore, views | two live tabs of a window for one page; a page deleted under its tab |
| **Browser surface colour** `browser_surface_color_controller.cc` | four timers, one capture, counters of attempts and of equal samples, the colours committed, shown and aimed at | navigation, paint, scroll, input, visibility, theme; sample, settle, verify late, animate | compositor captures, the header and popups of the tab | a capture answers for a document, theme or mode that is over; timers that arm each other |
| **Extensions page** `extensions.svelte.ts` | the items and profile shown, one read under way, dirty or not, one operation | connect, refresh, seven operations, dispose | Chromium's developerPrivate and management APIs and their events | a change during a read; an operation answered by an older read |
| Other internal pages (history, bookmarks, downloads) | what is shown of Chromium's data | search, open, remove | Chromium's page handlers | late answers, dropped by a counter |
| **Surface transition** `browser_surface_transition.cc` | one epoch per window | begin, commit, resolve | layout | an observation of an earlier transition |
| Shell views, branding, patches, build, tools, tests, vendored code, experiments | presentation, data | | | not modelled: no protocol of their own |

What makes each part correct, in one sentence each:

* ledger and bridge: a request is executed at most once and answered once, truthfully;
  nothing acts in a page without consent that still holds; a stop is final; late
  callbacks change nothing that is not theirs; and every request gets an answer;
* client: a request whose outcome is unknown is never published over or repeated;
* filter list store: whatever is on disk after a crash selects a complete generation;
* updater: operations exclude each other and each ends with its callback and a timer;
* request filtering: what is sent upstream was evaluated for the URL it is sent to,
  and each request completes once;
* document filtering: every name that stays in the document is looked up, once the script
  is at rest;
* settings page: at rest it shows what is saved, every call is answered once, and an import adds
  what was approved;
* surface colour: a colour is committed only from samples of the present document, theme and
  visibility; sampling ends; header and popups end with the same colour;
* extensions page: no change is lost, and no operation is followed by an older list;
* projects: the two sides of the page/project relation agree, and in one window a page
  is bound to at most one tab.

## 2. Modules

| Module | What it is |
|---|---|
| `AgentLedger` | the ledger's four operations as functions from the files before to the files after, with the outcome of the write as a parameter |
| `AgentBridge` | the state machine: bridge, I/O sequence, renderer, window, mailbox, and the end of the process |
| `AgentPromise` | the abstract specification: a request is admitted once, acts once and is told one final, true outcome |
| `AgentBridgeProperties` | invariants, action properties, fairness and liveness of `AgentBridge`, and its refinement of `AgentPromise` |
| `AgentBridgeProofs` | lemmas about each function of the bridge, the inductive invariant of its control and its theorems, and what each function can make of the request in hand (it goes on, sends one script, or answers), checked by TLAPS |
| `AgentBridgeLedgerProofs` | the inductive invariant of files, queues and scripts, the theorems about one request, and the refinement of `AgentPromise`, checked by TLAPS |
| `AgentBridgeUserProofs` | what the bridge owes its user. Stops, prompts' denials, cancelled waits and baselines: invariants about what is on its way. Consent, task rules and the scripts they allow: which functions can only give consent up, which grant it; what a stop on disk refuses. And the theorems, checked by TLAPS |
| `MCAgentBridge` | the requests and bounds of the runs; one `.cfg` per run |
| `AgentClient` | the command line client: lock, journal, mailbox, recovery, over a bridge that does whatever `AgentPromise` allows |
| `AgentClientProofs` | its inductive invariant and theorems, checked by TLAPS |
| `FilterListStore` | the profile's filter lists on disk, one file operation per step |
| `FilterListPromise` | the abstract specification of the store: one valid set selected, one to fall back to, a write whole or not at all |
| `BaselineListUpdater` | the coordinator on the UI thread, its timer and downloads, and the worker that runs the store's calls |
| `FilterListProperties` | properties of the two, and the refinement of `FilterListPromise` |
| `ContentBlockingSettings` | the exceptions and blocked domains as the settings service keeps and merges them |
| `SettingsPage` | the content blocking page, its handler, and what stands between the two and the lists |
| `FilteringRequest` | one request between the page's pipes and the network service's, under changing settings |
| `DocumentFilter` | generic cosmetic filtering of a frame: the script, the worker and the agent between them |
| `ContentBlockingProofs` | the inductive invariants of the lists' files and their coordinator, of one request and of a document, and their theorems, checked by TLAPS |
| `ProjectStore` | the store each operation of `ProjectService` leaves, and what it loads |
| `ProjectTabs` | tabs, windows, sessions and confirmations over that store |
| `ProjectTabsProofs` | their inductive invariant and theorems, checked by TLAPS |
| `BrowserSurfaceColor` | one tab's colour controller: timers, captures, settling and animation |
| `BrowserSurfaceColorProofs` | its inductive invariant and theorems, checked by TLAPS |
| `ExtensionsPage` | the extensions page: coalesced reads, operations and events |
| `InternalPagesProofs` | the inductive invariants of the extensions page and of the settings page, and their theorems, checked by TLAPS |
| `MCFilterLists` | constants for the list coordinator over its store |
| `MCContentBlocking` | four parts: lists, one request, one document, the settings page |
| `MCWorkspace` | four parts: projects and tabs, the client, a tab's colour, the extensions page |

`AgentBridge` EXTENDS `AgentLedger`; `AgentBridgeProperties` EXTENDS `AgentBridge` and
instantiates `AgentPromise`; `MCAgentBridge` and `AgentBridgeProofs` EXTEND
`AgentBridgeProperties`; `AgentBridgeLedgerProofs` EXTENDS `AgentBridgeProofs`,
and `AgentBridgeUserProofs` that. `BaselineListUpdater` EXTENDS
`FilterListStore`: the worker's tasks run the store's steps. `FilteringRequest` EXTENDS
`ContentBlockingSettings`, as does `SettingsPage`, and `ProjectTabs` EXTENDS `ProjectStore`. Each module of proofs
EXTENDS the module it is about; `ContentBlockingProofs` EXTENDS three, `FilterListProperties`, `FilteringRequest` and `DocumentFilter`,
and `InternalPagesProofs` two, `ExtensionsPage` and `SettingsPage`, and each of their theorems is about the specification of one. `AgentClient` instantiates
`AgentPromise` for its environment, the specification the run `crash` shows `AgentBridge` to implement.

`MCContentBlocking` EXTENDS `MCFilterLists`, `FilteringRequest`, `DocumentFilter` and `SettingsPage`; `MCWorkspace`
EXTENDS `ProjectTabs`, `AgentClient`, `BrowserSurfaceColor` and `ExtensionsPage`. Both hold parts that have no call
between them in the code either: both filters load their lists before the sandbox is entered and never read them again, a
request meets the settings page only through the settings, which change as that page may change them, and projects, colours,
extensions and the agent's client never meet. A behaviour runs one part and leaves the others where they start; the
runs are compositions in name only, and each property is about one part. (`FilteringRequest` with `ContentBlockingSettings`,
the coordinator with its store and worker, and the client with `AgentPromise` are compositions in earnest.)

### How the model of the bridge corresponds to the code

* **Members.** The record `b` holds the members of `AgentBridgeImpl`. Its boolean
  members are the set `b.on` (`busy_` is `"busy" \in b.on`); an `optional` is `Nil` when
  empty. `tab` is `web_contents()`, `granted` the tabs of `grants_`, `authorized` and
  `task` a grant's `authorized` and `permissions`.
* **Handlers.** The class's functions call each other before they return (a script result
  can end in `Finish` through `Answered` and `Approved`), so a function is an operator from the
  members before to the members after, and an action is one entry point the UI thread
  runs to its end. What a handler posts, dispatches or closes collects in `b.post`, `b.sent`
  and `b.closed`; `Return` hands it over.
* **Sequences.** Tasks on the I/O sequence run in posting order (`io`), and their replies
  come back in that order (`replies`). Scripts and their results have no order.
* **Files.** `request`, `answer`, `claims`, `archive`, `stopFile`, `clientStop` and
  `cancelFiles` outlive the process. `Crash` can hit between tasks and between the two
  steps of the three tasks that write two things.
* **Time.** `Expires` may set `expired` at any moment of a request; the checks of the
  deadline read it, and the deadline timer can fire only after it.
* **History.** `effects`, `approved`, `declined`, `waitCancels` and `published` record what
  happened, for the properties only.

### What is abstracted in the bridge

* A request that cannot be parsed, or whose id is empty or too long, is not enumerated. The
  checks of a command's own parameters (lengths, ranges, schemes, references) are the one
  flag `valid`.
* `base` stands for the document and revision of a snapshot; `partial` for `completed` > 0 or
  `partial_effect_possible`; a page's content is a version number.
* The page script is modelled by its outcomes. Its isolated-world target table is `world`:
  a script finds its targets only in the document it names.
* A page the bridge may not work on (another scheme, an error page, a crashed renderer)
  shows the origin `"other"`.
* `ResponseWritten` ends by calling `Poll`; in the model the timer runs that `Poll`.
* Failures of the plain write of `response.json` are left out: the client sees the
  previous answer and asks again, which the archive answers.
* The bridge destroyed with its window is not told apart from the end of the process.
* A prompt that cannot be shown (`PromptShown` contains `FALSE`) replies "denied" before
  `ShowAgentBridgePrompt` returns, as agent_bridge_prompt.cc:503-514 does, so the request ends
  as `user_cancelled` and `prompt_unavailable` is never the outcome.
* Pointer feedback, tab activity marks, timing and the text of prompts are left out.

### The other models and the code

**Filter lists.** `gens` are the directories, keyed by the content their digest identifies and marked
whether every file still has its digest; `state` and `backup` are the two pointer files. `job` is the
call of `WriteFilterListSet` the worker is in; each of its steps (delete a corrupt directory, move the
new one into place, write the backup, write the state, prune) is an action, each can fail, and
`Restart` can come between any two. `phase` is where the flight of the coordinator is, one value per
wait for a download or for the worker, and `in_flight_` is `phase # "idle"`. `queue` and `replies` are
the two ends of `PostTaskAndReplyWithResult`; a message's `live` is its weak pointer. Times are kept as the ticks
left until a check made then is a full interval old, so that nothing counts up without bound; `Tick`
happens only between flights, since a tick is hours and a flight minutes. `checked_at_` of a new
coordinator may be any value the process could have read at its start.
Left out: the compiled cache and the compatibility report (digests of their own), `list_checks` and
`failed_urls_` (shown, never read), refusal of addresses by their text, the path without the catalog
(`use_brave_catalog_` false, used by tests), a directory deleted only in part, and power loss (only the process ends:
a rename that returned is kept). The catalog's own sources are received or not as one step.

**Requests.** One action per message of the four pipe ends. The network service is
external: it fetches, redirects, ends and disconnects as the use of its interface in
`filtering_url_loader_factory.cc` shows; its messages wait in `inbox`. The filter rules are two functions of the
address, `Rule` and `Rewrite`; the CSP a rule may add, headers, the content and the priority are left out. `sent` is the
history of what the page was told. The page calls `FollowRedirect` only after a redirect it was sent. One request is
alive at a time, since requests share only the settings.
The matching runs on a thread of its own and reads the settings under a lock, hosts first and domains after; every
handler evaluates once, and with at most one change between the two reads a handler sees what it would have seen as
one step before or after that change. Two changes between the two reads of one handler are not modelled.

**Settings page.** Calls are numbered and travel in order (`toBrowser`, `toPage`); `purpose` tells what the page will do with
an answer, `flags` which controls are disabled. `ResolveState` asks the store's worker for the lists: the task (`worker`) and its reply
(`fromWorker`) are steps of their own, and between them everything else can happen. A change event has no payload; the page answers it with
a new refresh. `latest` is the refresh that `refreshEpoch` belongs to: an edit or a newer refresh makes an older answer stale. The list coordinator is `flight`:
begun, written on the worker, ended with its waiting call and its event, or failed; `BaselineListUpdater` has it in detail. A file to
import is parsed twice, for the preview and for the import, each time on the thread pool and against the domains saved when the parse replies.
The lists on disk are a counter of their changes. Left out: what is typed and its checks, texts, feedback, incognito, and blocking switched off.

**Documents.** `work` is the script's queue with the place each walk has reached, `scheduled`, `rescan`, `inFlight`
and `seen` its variables; `Flush` is one idle callback to its end, its loop the function `Turns`. The DOM is a list: the
walks of `TreeWalker` over nested elements, ids (looked up like classes), styles by host, procedural selectors and the
limits of a style sheet are left out. `cut` records that the page removed the very element at which a walk rested; from a removed
element a walker finds no next one, so the elements after it are then not examined until they change. `NothingMissed` names
that exception.

**Projects.** `store` is `projects_` and `pages_` (and the preference `Save` writes); `page`, `window` and `session` are
the tab's `page_id_`, its window and the id in its session data. `Save` includes the synchronous notification, in
which `OnProjectChanged` releases tabs. Every operation that only adds uses the store alone, because it
releases nothing. `dialogs` holds the confirmation of each window with what its callback is bound to. Discards keep the id and are
no action; names, titles, the order of projects, other profiles, and `opening_pages_` (a page is opened and bound in one call) are left out. Random
ids are taken from those nothing refers to.

**Surface colour.** Every callback, timer and capture of `BrowserSurfaceColorController` is an action; a timer that runs may fire
at any moment. Two colours are equal or unlike: the averaging of similar ones and the clustering of pixels are left out, a capture finds a
colour, none, or fails. At most one capture is under way because `CaptureTopStrip` returns while `inFlight` is set; its picture is taken between
request and answer, so the page can change on either side of it. The controller knows the theme's fallback from its first moment, because the container a
tab is bound to is in a widget (`BindWebContents`). An animation is `target` with `presented` = `Between` until its last frame. `viewed` and `missed`
record, for the properties only, what the strip showed and whether a capture failed since sampling was last restarted. The binding that hands a published colour to its header copies it and is not modelled.

**Extensions page.** `extensions` holds the fields of `ExtensionsModel`; what Chromium has is two counters of changes, each answer is composed at
a moment of its own between call and end, and events wait in `notices`. An operation makes one native call or two (`addHost`), or none if the item does not allow
it; a call may change something with an event, without one, or not at all. `profileVersion` is left out because every profile event also makes the read dirty.
The model starts once the page has subscribed.

**Client.** One action per file `run` writes or removes and per answer it takes; a process can fail or end between any two.
A named action is an observation and an action under one lock. The bridge may admit, act, answer, answer again, or die between its
files, within `AgentPromise`. The mailbox may start with a request of a client from before the journal existed. Left out: cancelling a wait (checked in `AgentBridge`), the
snapshot baseline in client-state.json, the wake-up socket and the output.

## 3. What the runs check

Every run of the bridge uses the constants in its `.cfg`; ids are symmetric except in the liveness runs.
Some properties are conjunctions of two that are about the same code: `UpdatesGoOn` (`NeverIdle`, `FlightIsCarried`), `FetchIsRight`
(`FetchIsAllowed`, `FetchedAsTold`), `StoryIsTold` (`OneStory`, `NeverStranded`), `NamesAreExamined` (`BatchIsCarried`, `NothingMissed`),
`PageKeepsItsWord` (`FlagIsAnswered`, `ImportIsShown`) and `TabIsSettled` (`HeaderAndPopupsAgree`, `HiddenIsQuiet`).
In the runs of the bridge `CHECK_DEADLOCK` is off because the system may really stop: a fenced bridge with nothing
left to write has no step, and the environment's steps are bounded.

| Run | Instance | Checks |
|---|---|---|
| `requests` | 2 ids, 1 tab, 2 origins, every kind of command, requests that arrive expired or with a bad deadline, 1 navigation | `TypeOK`, `ControlOK`, `SettledMeansQuiescent`, `HonestFailure`, `RulesCoverPage`, `BaselineIsCurrent`, `CancelIsUsers`, `AuthorizedDispatch`, `StopIsPermanent` |
| `tabs` | 2 ids, 2 tabs, room for 2 grants, prompts that may not show | `ConsentHeld` |
| `fence` | 3 ids, attach with rules and clicks, 1 stop by the client, 1 crash | `OneMutationInFlight`, `StopRefusesRequests` |
| `wait` | 3 ids, one attach and waits, client and menu cancellations | `CancelIsForThisWait` |
| `crash` | 2 ids, clicks valid or not, 1 crash, 1 second copy, writes done/refused/torn | `AtMostOnceEffect`, `ReceiptIsArchived`, `PromiseKept` |
| `wait_live` | 2 ids, 1 change of the page, `WaitSpec` | `WaitWakes` |
| `answer` | 2 ids, 1 stop, `FairSpec` | `ClaimedIsAnswered`, `StopArrives` |
| `interruption` | violated: a finding | `InterruptionPreserved` |
| `stop_survives` | violated: a finding | `StopSurvives` |
| `content_blocking` | lists: 2 addresses, good and bad texts, room for 1 subscription, intervals of 2 ticks and retries of 1, 1 manual check, and any 2 of: a change, up to 2 faults, a restart, up to 2 damaged files, a clock set back, a closed profile; requests: 5 addresses on 2 hosts, one each rewritten, replaced, blocked and of another origin, 2 redirects, 2 changes; documents: 2 elements, 2 names, a queue of 2, 2 turns per flush, batches and memory of 1, 2 documents, 3 changes of the page; settings page: the six budgets below | `ContentTypeOK`, `NoDangling`, `ToldIsSaved`, `UpdatesGoOn`, `ImplementsPromise`, `FetchIsRight`, `StoryIsTold`, `NamesAreExamined`, `ShownIsSaved`, `PageKeepsItsWord` |
| `workspace` | projects: 3 projects, 2 pages, 2 tabs, 2 windows, 6 events, 7 stored states with any session; client: 2 processes, 3 ids; colour: 2 colours, 2 events; extensions: 3 changes, operations, failures or retries | `WorkspaceTypeOK`, `OneTabPerPage`, `BoundIsKnown`, `MoveIsConfirmed`, `FenceCovers`, `ReportIsArchived`, `RestIsRight`, `TabIsSettled`, `CommittedWasViewed`, `SamplingWanes`, `ExtensionsAreShown` |
| `lists_retry` | violated: a finding | `RetryIsDue` |

**Why these bounds.** Two ids are one request and the next: every late callback, reply,
cancellation or second copy needs an earlier request and the current one. Three are used
where an attach must come before the two that interfere (`fence`, `wait`). `wait` is bounded
by the constraint `OneAttach`, which leaves a second attach between two waits unexplored
(`tabs` and `requests` attach again). Two tabs are the
one observed and the one in front. One navigation (`requests`, `tabs`), one close (`tabs`,
`interruption`), one crash and one stop each may happen at every point of every request; a
second of the same kind is not explored by TLC (the theorems of section 4 have no such bound). In `requests` the
tab may show either origin at first, so one navigation target is both the same origin and another
one. Lost callbacks, expiry, prompts' answers and takeover are not
bounded.

In `content_blocking` the budget lets any two troubles meet: a failed write and a restart, a damaged file
and a change, two failed downloads. Limits of 1 (subscriptions, bytes, batch, memory) put every counter at its limit
at once; a queue of 2 overflows with the third change. Two redirects are the first that is rewritten and one
that follows it; two changes of the settings are a rule set and taken back. In `workspace` six events suffice for two tabs bound to a page and
moved into one window, or two confirmations asked for and both answered around a removal. The client's part has no bound but its ids: three are
an earlier client's, a named action's first and its second. The settings page is given one of six budgets of what the user, other pages and the network do
(`MCBudgets`): two files and an edit, three files and another page's change, an edit and another page's change, an edit and an update, a check of the lists and an update, two checks;
each pair meets in every order, and a file is two calls, a preview and an import. Numbers of calls are eight, more than ever wait. Two events of a tab
are, for example, a navigation that begins while a capture of the last document is under way and a switch of tabs in the middle of the animation that follows;
sampling, settling, retries and the late verification after each run to their end. Three turns of the extensions page are an operation, a change elsewhere during its
read and a failed read. `CHECK_DEADLOCK` is on in `content_blocking` and off in
`workspace`, where the last event ends the part.

### Safety, in words

* *Control.* One request at a time; nothing of it outlives it; while a prompt is open nothing
  else of the request is under way; after a stop no consent and no rule is left and a request
  still in hand is on its way out with an error.
* *Execution.* An answer that says settled leaves no script that could still act; two
  requests never act at the same time; a settled failure without a possible partial effect
  really changed nothing; a script acts only with consent given for it or a rule for the
  origin the tab shows at that moment, in the tab in front.
* *Interruption.* A stop is permanent, for this process and through the file for later
  ones; a cancellation ends only the wait it names; the denial a closed prompt still sends
  is not a user's decision.
* *Promise.* `PromiseKept` is the refinement of `AgentPromise` with
  `admitted <- claims`, `acted <-` the ids with an effect and `told <-` the archived answers.
  It subsumes much of the above and is stated separately because it is what a client can rely on.

* *Lists.* What a pointer file names is there and reads after every single file operation; the store implements
  `FilterListPromise`; what the user was told of a subscription is what the next start reads; a coordinator always has a timer, a first read or a flight that
  will wake it; a flight that waits for the worker has exactly one task of its own outstanding.
* *Requests.* The network is told to fetch only what the settings and rules of that moment allow, and what the page was told; the page hears one response
  and one completion of one kind; a request that is alive has something that moves it on.
* *Documents.* One batch at the worker exactly when the script waits for one, and no sleep with work left; no name is missed.
* *Settings page.* Once nothing is on its way the page shows what is saved, whatever was composed before and received after; every call is carried by exactly one
  message, task or wait until it is answered, and a disabled control has a call whose answer enables it; an import adds the list the page still shows as new.
* *Surface colour.* A colour is committed only if the strip showed it since sampling was last restarted, or as what the page names after the last attempt; header and popups agree when no animation runs; a
  hidden tab has no timer and no capture; where sampling and animation have come to rest the colour is that of the strip, the metadata or the fallback of the present theme.
* *Extensions page.* At rest the page shows what is installed; after an operation never a list older than that operation.
* *Projects.* One tab per page and window; a bound page exists; a page moves only as a user confirmed it; the stored state always loads again.
* *Client.* A published request that may still act is the journaled one; an answer a command ends with is archived and settled.

### Liveness and fairness

* `WaitSpec` assumes that the renderer runs the script of the current request or its pipe
  reports a failure (Chromium's callback wrapper guarantees one of the two), that
  accessibility events arrive and that the 50 ms wakeup fires. Under it no change of a page is lost
  between a probe and the event that should repeat the probe.
* `FairSpec` adds the poll timer, the I/O sequence and its replies, the end of a page load,
  and the clock. Nothing is assumed of the user, the client or the mailbox: a prompt nobody answers
  is closed by the deadline.
* A bridge that lost a script's callback fences itself (`quarantined_`) and reads no more
  requests; the liveness properties name that outcome instead of hiding it.

* The filter lists, requests and documents have no liveness property: what they wait for is the network, the page and idle
  time, none of which the code can count on. `NeverIdle`, `FlightIsCarried`, `NeverStranded` and `BatchIsCarried` (and `FlagIsAnswered` for the settings page) say
  instead that at every moment the one callback that must come is outstanding, which is what a lost wake-up would break.
* That sampling a tab's colour ends is stated as a measure: `SamplingWanes` says that every timer, capture and answer without a new event leaves less to do
  than there was (`Work`), except while the page scrolls, which the scroll timer ends. With timers that fire and captures that answer this is termination, and as a property of steps
  it is also proved (section 4).

### Findings

* `InterruptionPreserved`: the comment of `Error` (agent_bridge.cc:1095-1097) says the first
  interruption is preserved as the outcome; `WebContentsDestroyed` clears `navigating_` before it
  calls `Error("tab_closed")`, so an interrupted navigation whose tab closes is answered
  `tab_closed`. The run shows a navigation, an interruption, and the close.
* `StopSurvives`: agent_request_ledger.h:21-22 says nothing may clear a stop; `StopSession`
  ignores the result of `StoreAgentSessionStop` (agent_bridge.cc:322-325), so a stop whose file could
  not be written ends with the process, although the client was told of it.
* `RetryIsDue`: the traffic annotation (baseline_list_updater.cc:325) says failed updates retry after six hours. `Refreshed` replaces
  `checked_at_` even while a manual check's update is in flight; when that update fails, `Completed` starts the retry timer but `Start` then finds the
  restored time too young and waits out the day. The run shows a start, a manual check before the first read has answered, and a failure.

Three more disagreements were met and have no run of their own; the models show each when the property is checked by hand:

* `GetStatus` notes what is in flight when it is called and answers after the worker (baseline_list_updater.cc:114). When an update ends in between, the change event
  reaches the page first, and the edit that was waiting for this answer then drops the newer refresh (settings.svelte.ts:58): the page goes on showing an update, with the
  list buttons disabled, until something else changes (docs/settings.md:37 and :135 say it follows change events). For that reason `ShownIsSaved` leaves the flag of an update out.
* `updatePreview` labels a preview with the rules the page showed when it asked (DomainImport.svelte:59), whatever rules it was calculated from; another page that
  changes the rules and changes them back leaves a label that fits and a preview that does not (docs/settings.md:173). An import still adds only what the page lists.
* A same-document navigation before the first frame clears `waiting_for_load_completion_` (browser_surface_color_controller.cc:303), so that samples of the page before may be
  committed (docs/browser-shell-spec.md:196 keeps the last colour until the first valid frame).

## 4. What is proved

TLAPS checks these theorems for every value of the constants: any set of ids, tabs, windows, pages, colours and
origins, any bounds, any number of crashes, whatever a request says within its type.

| Module | Theorem | States |
|---|---|---|
| `AgentBridgeProofs` | `Inductive` | `Spec => []IInv` |
| | `TypeCorrect` | `Spec => []TypeOK` |
| | `ControlCorrect` | `Spec => []ControlOK` |
| `AgentBridgeLedgerProofs` | `LedgerInductive` | `Spec => [](IInv /\ LInv)` |
| | `AtMostOnceHolds` | `Spec => []AtMostOnceEffect` |
| | `ReceiptHolds` | `Spec => []ReceiptIsArchived` |
| | `SettledQuiescent` | `Spec => []SettledMeansQuiescent` |
| | `FailureHonest` | `Spec => []HonestFailure` |
| | `OneMutation` | `Spec => []OneMutationInFlight` |
| | `ImplementsPromise` | `Spec => PromiseKept` |
| `AgentBridgeUserProofs` | `StopPermanent` | `Spec => StopIsPermanent` |
| | `UsersCancel` | `Spec => []CancelIsUsers`, if `PromptShown \subseteq {TRUE}` |
| | `CancelsThisWait` | `Spec => []CancelIsForThisWait` |
| | `BaselineCurrent` | `Spec => []BaselineIsCurrent`, if `Nil \notin Answer` |
| | `ConsentHolds` | `Spec => []ConsentHeld` |
| | `RulesHold` | `Spec => []RulesCoverPage` |
| | `DispatchAuthorized` | `Spec => AuthorizedDispatch` |
| | `StopRefused` | `Spec => StopRefusesRequests` |
| `ContentBlockingProofs` | `DiskInductive` | `ListsSpec => []DiskInv` |
| | `FilesHold` | `ListsSpec => []NoDangling` |
| | `UpdatesInductive` | `ListsSpec => []UpdatesInv` |
| | `UpdatesHold` | `ListsSpec => []UpdatesGoOn` |
| | `ToldInductive` | `ListsSpec => []ToldInv` |
| | `ToldHolds` | `ListsSpec => []ToldIsSaved` |
| | `ListsTyped` | `ListsSpec => []ListsTypeOK` |
| | `FilesInductive` | `ListsSpec => []FilesInv` |
| | `PromiseHolds` | `ListsSpec => ImplementsPromise` |
| | `RequestInductive` | `FilterSpec => []RequestInv` |
| | `StoryHolds` | `FilterSpec => []StoryIsTold` |
| | `FetchHolds` | `FilterSpec => FetchIsRight` |
| | `FilterTyped` | `FilterSpec => []FilterTypeOK` |
| | `DocumentInductive` | `DocumentSpec => []DocumentInv` |
| | `DocumentTypes` | `DocumentSpec => []DocumentTypeOK` |
| | `NamesHold` | `DocumentSpec => []NamesAreExamined` |
| `AgentClientProofs` | `ClientInductive` | `ClientSpec => []ClientInv` |
| | `FenceHolds` | `ClientSpec => []FenceCovers` |
| | `ReportHolds` | `ClientSpec => []ReportIsArchived` |
| | `ClientTyped` | `ClientSpec => []ClientTypeOK` |
| `ProjectTabsProofs` | `TabsInductive` | `ProjectsSpec => []TabsInv` |
| | `OneTabHolds` | `ProjectsSpec => []OneTabPerPage` |
| | `BoundHolds` | `ProjectsSpec => []BoundIsKnown` |
| | `MoveHolds` | `ProjectsSpec => MoveIsConfirmed` |
| | `ProjectsTyped` | `ProjectsSpec => []ProjectsTypeOK` |
| `BrowserSurfaceColorProofs` | `SurfaceInductive` | `SurfaceSpec => []SurfaceInv` |
| | `SettledHolds` | `SurfaceSpec => []TabIsSettled` |
| | `WanesHolds` | `SurfaceSpec => SamplingWanes` |
| | `RestHolds` | `SurfaceSpec => []RestIsRight` |
| | `ViewedHolds` | `SurfaceSpec => CommittedWasViewed` |
| | `SurfaceTyped` | `SurfaceSpec => []SurfaceTypeOK` |
| `InternalPagesProofs` | `ExtensionsInductive` | `ExtensionsSpec => []ExtensionsInv` |
| | `ShownHolds` | `ExtensionsSpec => []ExtensionsAreShown` |
| | `ExtensionsTyped` | `ExtensionsSpec => []ExtensionsTypeOK` |
| | `PageInductive` | `SettingsPageSpec => []PageInv` |
| | `SettingsShown` | `SettingsPageSpec => []ShownIsSaved` |
| | `WordKept` | `SettingsPageSpec => []PageKeepsItsWord` |
| | `SettingsPageTyped` | `SettingsPageSpec => []SettingsPageTypeOK` |

**Assumptions.** Of the bridge: `CallsAssumption` (a request's fields have the types `Received` reads them
with), `ActionsAssumption` (a valid `act` or `fill` has at least one action: an empty batch is answered `invalid_batch`, agent_bridge.cc:666, and a batch that
asked for nothing would otherwise be allowed by every rule), `OutcomesAssumption` (a write is done, refused or torn),
`PromptAssumption` (showing a prompt succeeds or fails) and `PagesAssumption` (a closed tab shows no origin). Of the others, only that the values that stand for "none" are
none of the things they stand beside (`ClientAssumption`, `ProjectStoreAssumption`, `ProjectTabsAssumption`, `SurfaceAssumption`,
`ExtensionsAssumption`, `RequestAssumption`, `DocumentAssumption`, `MutationAssumption`, `NoneAssumption`, `WriteAssumption`, `FlagsAssumption`, `SettingsPageAssumption`) and that bounds are numbers, the number of names in a batch, of nodes in the queue and of turns in a flush positive ones. `InstalledAssumption`
says of the lists an earlier session may have left that they are generations and what `WriteFilterListSet` lets through (`ValidSet`: it checks before its first file operation, filter_list_store.cc). `BaselineCurrent` has such a hypothesis too: `Nil`, the absence of an archived answer, is no answer. `UsersCancel` has
the one hypothesis that excludes something the program does: that every prompt finds a window. Without it `CancelIsUsers` is false, and the code is why: `ShowAgentBridgePrompt` replies "denied" when it
cannot show itself (agent_bridge_prompt.cc:503-514), which `Answered` cannot tell from a user's denial. Of finiteness only `FiniteHosts` is assumed, because
`FilterTyped` and `SettingsPageTyped` count blocked domains: a host name is at most 253 characters long (blocked_domains.cc:137), so there are finitely many. Nothing is assumed about the size of a bound.

### The bridge

`ControlOK` is not inductive. It says that a bridge that reads a
request is neither busy nor writing, but the step that takes the reply raises `busy`, and only
the fact that the reply arrives while `reading` is raised makes that sound. `IInv` adds three things:

* `ReadOnce`: over the two queues together at most one read of request.json is under way, and
  only while `reading` is raised. Its reply is therefore never delivered to a bridge that has
  a request in hand.
* `Full(b)`: `ControlOK`, and what ties flags to the command in hand. A navigation under way belongs to
  a `navigate`, a wait to a `wait-change`, a preflight to an acting command, and a wakeup
  to a wait; a `wait-change` never opens a prompt. Without the last two the wakeup timer
  might start a script under an open prompt.
* the types of everything in flight, on disk and in the window, since a handler is only as
  good as the id, reason or answer it is handed.

Handlers call each other, and in between the members satisfy less than
`Full`: `Error` is called with `deferred_error_` set and nothing under way any more, `StopSession` leaves
a stopped bridge busy, `Finish` is reached with a prompt still open. `Base` is what is left of `Full` at
every such call. The first part of `AgentBridgeProofs` has one lemma per function of `AgentBridgeImpl`, saying
from which of the two it may be called and that it returns `Full`; the early returns of a command are one lemma
per number of checks (`Checked1` to `Checked4`). The second part has one lemma per action: a
handler's action follows from its lemma and from `HandlerStep` (what `Return` does to the queues), a
task of the I/O sequence from `IoStep`. A handler other than `Received` must not clear `reading`; that is
`Keeps`.

### One request, from its claim to its answer

`LInv` of `AgentBridgeLedgerProofs` is the invariant behind everything a client relies on. None of the five properties is inductive; each speaks of files or
scripts, and is kept only because of what is on its way to them. TLC checked `LInv` on the instances of the runs before it was proved. It has three parts:

* *Queues* (`QueueInv`). At most one answer is on its way, as a task or as its reply, and only while `writing_response` is raised; a persisted answer in the queue is not yet archived
  and true to what happened; a cached answer and one to be written again are the archived ones; a fresh read of request.json is of a claimed id for which nothing was ever done.
* *Work* (`WorkInv`). A fenced bridge is idle. The request in hand is claimed and unanswered; without a script pending nothing in the renderer is its own, with one pending
  there is one script or one result of it, of the same command and document (`Outstanding`). A script that could change a page is the only such, has not done so, and belongs to the request in hand or
  is behind the quarantine. Nothing was ever done for an id that is not claimed.
* *Records* (`RecordInv`). The counter of effects, every archived answer (`Honest`: settled means that no script of the id can still act, and a settled error without
  a possible partial effect that none did), and response.json.

A handler runs through many functions and may end in any of a hundred places. The third part of `AgentBridgeProofs` shows of every function that, however it ends, its `Outcome` is one of three for
the request in hand: `Going` (as far as it was), `Sends` (one script, of this request), `Answers` (one answer, which is true about the quarantine and the claim). The invariant is then proved over
three outcomes (`HandlerKeeps`) for the actions that are one handler, and by a lemma of its own for each action that delivers a result, writes a file, runs a script, loses a callback or ends the process.
The outcomes carry more than `LInv` needs (stops, waits, prompts, the baseline), for the properties about interruptions.

The refinement of `AgentPromise` goes step by step. A claim that is created is an `Admit` (`ClaimAdmits`), an acting script that runs is an `Act` (`ScriptActs`), an archive that is created is a `Tell`
(`ArchiveTells`), the end of the process inside a task is whichever of the two its first half was, and everything else leaves claims, effects and archive alone.

### Interruptions

The first part of `AgentBridgeUserProofs` sorts the steps of the bridge by what they can make of the request in hand. In `GoesOn` a handler takes it up and ends in one of the three outcomes; in `Arrives` a reply brings
the next request, which ends in one of them; in `Quietly` the members stay as they are and at most a read is queued. Everything else is a task, the renderer, the mailbox or the end of the process. Each
property then needs one lemma per kind, over an invariant of its own:

* `StopIsPermanent` is an action property and needs none but `IInv` and `LInv`.
* `CancelIsUsers`: `CancelInv` says that while nobody has declined, nothing that could say so exists: neither a stop, a cause kept for the end of a script, a stop file or reply, nor an answer queued, cached or archived (`Innocent`).
  A prompt that was closed by the bridge still sends its denial; it is harmless because the reply names a prompt that is no longer open.
* `CancelIsForThisWait`: `WaitInv` says of every answer `wait_cancelled`, on its way or archived, that the cancellation was of its id and document (`WaitsTrue`), which needs that a request in hand and
  one just read say what was published under their id (`RequestsKept`); a republished request says the same.
* `BaselineIsCurrent`: `BaseInv` ties the baseline to the one answer it was taken from (`TakenFrom`): that answer is archived or queued, of the document observed now, and its id is claimed, so that no other answer of
  that id can follow. It rests on `LInv` for the last.

TLC checked `CancelInv`, `WaitInv` and `BaseInv` on the instances of the runs first.

### Consent

The invariant is short (`ConsentInv`: `ConsentHeld` and `RulesCoverPage`, with the user's grant behind every rule, and a preflight asks for at least one action); the work is in the
functions. Nearly all of them can only give consent up: `Narrows` says of the members before and after that no tab is granted, attached, authorized or given a rule that was not, and it composes.
Two grant it: the accepted prompt of an `attach` (`Approved`, with `Grant`), the only place where rules are set, and `SelectTab`, which comes back to an authorized tab; these are shown to keep
`Sober`, the invariant inside a handler, directly.
A navigation and a closed tab change the page under the members, so their lemmas (`NavigatedConsent`, `TabClosedConsent`) compare the members before with the page after.

`AuthorizedDispatch` needs to know which handlers can send a script that acts. `Prudent` is `Sober` and that the handler has sent none; every handler ends `Prudent` but two. The user's answer sends the script of the
request it accepts, and the renderer's answer to a preflight sends it if a rule allows every action it named (`ByRule`). In the second case the rule is of the origin shown, because `Consent` held
when the handler began and the handler has changed no rule since (`RuleAllows`).

`StopRefusesRequests` speaks of the step that takes up a request, and is about the time since the request was read: a stop may come to the disk in between. `StopInv` says why that does no harm. A stop on its way to
the disk was left by a bridge that is stopped (`StopsOwned`, from `Owned`, which every function keeps); a read of the client's control file never runs between the read of a request and its reply, because the two are
posted in that order and no stop is read while a request is (`ReadLast`); so a reply that brings a request and no stop meets a bridge that is stopped, or no stop on file (`StopKnown`). TLC checked it on the instances of the runs first.

### Filter lists

`NoDangling` says that what is named is whole, which each file operation of a write keeps only because of what the write did before: a generation is deleted only while nothing names it, a pointer is
saved only after its generation is filled, the old pointer becomes the backup before the new one replaces it, and pruning spares what both name and what runs. `WriteOK` says what each step of a write may rely on, and
`DiskInv` that as long as nothing was damaged from outside it may, that what is needed reads, and that pointers and writes have their shape. Its lemmas are about single operations: a write begins (`BeginKeeps`), goes on by a file, fails, or is
cut off by the end of the process. All handlers of the coordinator that touch no file are one case (`OthersKeepFiles`). TLC checked `DiskInv` on the run's instance first.

`UpdatesGoOn` counts messages. `UpdatesInv` says instead where the one message of a flight is: with the worker and nothing on its way back, or the other way round, or in neither queue because the flight waits for a download
(`CarriedOK`). A handler that takes a message or sends one moves the flight from one case to another, and a coordinator that ends leaves queues without a live message, so the next one starts with an empty account.

`ToldIsSaved` relates the user, two queues, a write and the disk. `ToldInv` says for each subscription that what was told of it is what a start would read (`Intact`), or that its change has landed: a write of it was published and
the answer is still to come. For this a write that is not published yet must say of its own subscription what the task asks for and of every other what a start reads now (`WriteSays`), and what a start reads must not change
while it is written: the worker is one sequence, and an update that takes new texts leaves every subscription there and switched as it was, whichever of them fit (`UpdateSays`, `BodiesReplaced`). Only one of the steps of a
write publishes: the backup becomes what the pointer was, so that a start reads the same before and after it (`BackupTells`), and the pointer is the moment at which what was wanted becomes what is read (`StateTells`). The
remaining difficulty is a coordinator that ended. Its change may still be written after the next coordinator has begun, so the user is told nothing of that subscription (`TaskSays`); and because both queues are first in,
first out, all it left is ahead of what the next one posts (`LeftFirst`) and is on the disk before an answer of the next one. The argument needs the kinds of everything that is written, so `ListsTypeOK` is proved with it.
TLC checked `ToldInv` first, on an instance of 3.7 million states with a change by each of two coordinators.

`ImplementsPromise` maps the files to what a browser would start with (`ReadBaselineListStore`), what it would start with if that were damaged too (`AfterDamage`), and the write under way. One operation at a time: the first pointer is
the `Publish` (`StatePromise`), every other file of a write leaves both selections as they are (`DeletePromise`, `MovePromise`, `BackupPromise`, `PrunePromise`), a failure, a return and the end of the process are the `EndSet` (`EndsKeep`).
While nothing was damaged this follows from the first pointer alone (`SoundChoice`). What makes it hard is the state after a damage, when the selection comes from whichever of up to four names still reads, and a write that is
already past its first step goes on. `FilesInv` says what keeps that in step: the second pointer names what the first one does or did (`Pairs`), so that losing the first pointer costs at most the selection and never brings back an older one
(`PointerLost`); and with one damaged file, a write whose own files are the damaged ones began from the first pointer with everything else whole (`OnceOK`). What is selected is a function of two pointers and the set of whole generations
(`Select`), and its lemmas say when two such sets give the same choice.

The attempt to prove it changed the abstract specification. `FilterListPromise` used to promise after every damage what it promises after the first, and TLC refutes that with two: the second may hit what a write under way found, which
then selects neither what was selected, nor what it found, nor what it makes; and it may leave a set of an earlier write to fall back to. So the promise is strict until the first damage and about what that damage may cost, and after a second one only
says that what is selected is a complete, valid set or none. The code promises no more: nothing in `ReadBaselineListStore` looks for a third selection. The run damages up to two files; TLC checked `FilesInv` first on an instance of 2.1 million states.

### Requests

`StoryIsTold` is about what the page was told over the whole life of a request, while any of three parties may have broken its pipe. `RequestInv` goes by stages: `LineOK` lists what can be on its way in the pipe
from the network and what the request waits for, at each stage (a redirect and who answers for it, a response with its end after it, nothing any more), and `SaidOK` what the page was told by then. Decisions made for one address are used for
another only where the invariant says who follows a redirect. `FetchHolds` is an action property and needs `LineOK` only where a rewritten target is followed, for the address the network service proposed.

`FilterTyped` has two parts. The pipes keep their kinds by `RequestInv`. The blocked domains stay within `MaxBlockedDomains` because each change is measured against the list as it is when it is made: an added domain finds room
(`DomainIsSet`), and an import is merged with what is there when its file has been parsed, not when it was read, and is dropped as a whole if the union is too long (`FileIsImported`).

### Documents

`NothingMissed` speaks of a script at rest, and its reason is what the queue holds on the way there. `WalksOK` says of every element whose name was not handed over that a rescan is due or that a queued walk will come to it: one that
starts at it or at the root, or a walk from the root that rests before it in the document. No walk rests at a node that is gone (this is what the page can break by removing the element at which a walk rests). `ScriptOK` keeps that
for each change of the page: an element is inserted anywhere, renamed or removed, and the queue is full or not.

A flush is up to `MaxSteps` turns, so the invariant has to be kept by each turn (`TurnKeeps`), for an account that includes the names of the turns before. That is an induction, and `Turns` a recursive function, whose value the provers know only once it is shown
to exist. Neither can be taken from the library, whose induction theorems take an operator. Both are proved from `NatLessThanWellFounded` as facts about sets: a set of numbers that has 0 and with each number below the bound the next one has all up to the
bound (`Reached`, from the least number outside of it, `LeastNumber`); the set of numbers up to which there is a function that follows the definition of `Turns` is one (`TurnsExist`, `TurnsAre`); the set of turns that keep the
invariant is another (`FlushTurns`). `BatchOK` is about the other half, who will wake the script: while there is work a flush is scheduled or one batch of this document is at the worker, and not both.

TLC checked `RequestInv` and `DocumentInv` on the run's instances first.

### The client

`FenceCovers` speaks of requests and the journal, and is kept only because of what a process knows at each point of `run`.
`ClientInv` adds that a process that has gone past the journal works on the journaled request (`HolderFences`), which is what lets it remove
the journal at the end, and that the mailbox does not lie (`Truthful`): a persisted answer is the archived one, and an archived one is
settled only if the request can act no more. The bridge's steps keep the second because `AgentPromise` allows no other answers.

### Projects and tabs

`TabsInv` adds to the two properties that the store is well formed (`IsStore`) and that tabs, windows, sessions and confirmations have their kinds.
An operation of the store either only adds (`StoreGrows`), and releases nothing, or saves with the synchronous notification
(`SaveKeeps`), which releases every tab whose page is gone before the operation returns. A tab that is made, opened or restored goes through
`AppearKeeps` and one that moves between windows through `InsertKeeps`; in both the arriving tab gives up a page the window already shows.

`ProjectsTyped` says more than kinds: whatever was saved last would be accepted by the next run's `Load`, which otherwise keeps the file and stops writing. `Validates` asks for each page in the list of its project, once, and in no other.
`Listed` says that of a store whose pages are any set, without counting them, and each operation of the store keeps it (`WithPageListed`, `MovedListed`, `WithoutPageListed` and the others). `Without` removes the one place a
page has, rather than every place, so that the provers can follow it; a list has a page once.

### Surface colour

`SurfaceInv` says that at most one capture is under way and `inFlight` tells of it (`IsSampling`), that a hidden tab waits for nothing (`Quiet`), and that an animation
aims at the colour of the page or at the fallback of the present theme. Captures asked for in an earlier epoch are dropped with it (`NewEpoch`; the code ignores their answers). The first
is needed for the measure: each attempt is counted once, as a timer, a picture to be taken or a picture to be looked at. The same lemmas, one per timer and answer, keep the invariant and bound `Work` after the step by `Work` before it.

`RestInv` is the invariant behind the colour that sampling ends with. Every picture not yet looked at is of a strip viewed since the last restart (`ViewOK`), so what is committed was viewed
(`ViewedHolds`). And as long as nothing disturbed the sampling, every answered capture has counted the strip's colour (`Counted`). `RestIsRight` needs the second, for the last attempt:
it commits what the page names, even for a strip that has a colour, unless the picture is enough, and it is enough because the one before it was the same. TLC checked `RestInv` on the run's instance first.

### Extensions page

`ExtensionsAreShown` speaks of a page at rest, and a page comes to rest only by taking an answer. `ExtensionsInv` therefore says of an answer that would be
taken (a read under way that is not dirty) what the property says of the page: it is what is there, or an event about it is on its way, or an operation that has not ended
will read again (`Follows`), and it has what the last operation did (`Remembers`). Every function that reads again makes both hold at once (`RereadingKeeps`).

### Settings page

`PageKeepsItsWord` counts messages over six places: the way to the browser, the parser, the worker's tasks and replies, the coordinator, the way back. `CallsInv` says that the calls without an answer are the
disjoint union of the calls in those places (`Placed`), and that no place has a call twice (`Once`). So a handler that takes a call from one place has one thing to show, that it puts it into another (`CallToWorker`, `CallRefused`,
`CallWaits`, `CallIsRead`), and that a place with room for one is free: `waiting` is, because a second check would clear the flag of the first, and no two calls clear the same flag (`FlagsOK`, `CheckIsAlone`). That is also
why an import meets no new preview: both hold `reading` (`ImportsAlone`).

`ShownIsSaved` speaks of a page at rest, and what it then shows was composed at two moments: the settings when the reply ran, the lists when the worker read them. `SavedInv` follows both. Lists read before a write are ahead of that
write's reply, which ends the flight with an event (`ReadsKnown`); an answer that is not what is saved is ahead of an event (`AnswersKnown`), because every change sends one; and a page that shows something else has an event on its way or an
answer it waits for and will show (`ShownKnown`): an edit's answer that arrives meanwhile ends that wait (`refreshEpoch`), and is itself what is saved or is followed by an event. TLC checked `PageInv` first, on an instance of more than 5 million states.

`SettingsPageTyped` is about what the page and the browser take on trust from each other: a value that answers a call is used by what the call was for. `TypesInv` says that an answer to a preview carries rules and
every other accepted answer but an import's the state (`AnswerTyped`), where the purpose is looked up when the answer arrives, not when it was asked for; `CallsInv` is why it is still that of the same call. While a preview is asked for, the page keeps its file
and the rules it compares with (`PageTyped`): whatever clears them needs `reading`, which the preview holds (`NoPreview`, `AfterImport`). The bound of the blocked domains is kept as in `FilterTyped`.

**What stays with TLC.** The liveness properties (`WaitWakes`, `ClaimedIsAnswered`, `StopArrives`), which are out of the prover's reach, and what the runs with a finding refute.
`ContentTypeOK` and `WorkspaceTypeOK` are the conjunctions of the component types over the instances in which TLC runs one component of several; each conjunct is a theorem of its component (`ListsTyped`, `FilterTyped`,
`DocumentTypes`, `SettingsPageTyped`; `ProjectsTyped`, `ClientTyped`, `SurfaceTyped`, `ExtensionsTyped`), and only the composition is left to the run.

## 5. Not modelled, and what could come next

* **Input requests.** `agent_input_request.cc` has a status that leaves `waiting` once and is called by its unit test alone, so nothing in the program could bring its
  operations into a difficult order. The contract next to it is pure decisions.
* **Browser surface transition.** An epoch compared with the one an observation carries; the orders in which observations come are decided by patched Chromium views that are not here.
* **MCP host.** `yee-browser-mcp.py` runs the client's commands and ends with a stop, which `AgentBridge` has as a write into the mailbox; the agent's snapshot baseline in client-state.json is output.
* **History, bookmarks, downloads.** Chromium owns their data. The first two compare a counter after each await and drop what is late; downloads show what is pushed.
* **transport_filtering.cc** decides once per handshake from the same settings; the tab helper counts.
* **Engines and the vendored matcher.** What a rule says of an address is data here.
* **Shell views, layout, branding, patches, build, tools, tests.** Geometry, painting, widgets and data; the tests' observers of the browser are not the program. They are most of the
  repository's lines, which is why the map covers a small share of them. Some views keep state (a drag of vertical tabs, split panes, popups), but its correctness is a matter of the Chromium view tree they
  live in, which is not part of the repository.
* Known and without a property: a directory left by a process that ends while filling it is never pruned, because its name is not that of a generation
  (filter_list_store.cc:353, :449); `AttachCurrentPage` looks up a project that another window may have deleted before its own view was refreshed
  (project_navigation_controller.cc:1125); a client that ends between its journal and the publication leaves a fence that no recovery can answer, which
  the code prefers to a request sent twice (yee-browser.py:524-527); and the one hazard of PROJECT.json without a property, with its reason.
* Next: nothing the runs check is without a theorem but liveness; what is left is to model more of the code that is only partly covered (the agent's prompt and client, project views, the filter engine).
