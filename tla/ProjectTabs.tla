------------------------------- MODULE ProjectTabs -------------------------------
(***************************************************************************)
(* The binding of tabs to project pages (project_tab_coordinator.cc,       *)
(* project_tab_helper.cc) and the window commands that use it              *)
(* (project_navigation_controller.cc).  A tab carries the id of the page   *)
(* it shows, across discards, moves between windows and session restores.  *)
(* The windows of a profile share the projects; each has tabs of its own   *)
(* for a page and at most one of them.  The service notifies the           *)
(* coordinator inside every Save.                                          *)
(*                                                                         *)
(* An earlier run of the browser leaves two files written at times of      *)
(* their own: the preferences with the projects, and the session with the  *)
(* page id of each tab.  A behaviour starts with any pair of them.         *)
(***************************************************************************)
EXTENDS ProjectStore, Naturals

CONSTANTS
  Tabs,
  Windows,
  Stored,   \* the preferences an earlier run may have left
  MaxEvents \* how often a tab or the user does something

ASSUME ProjectTabsAssumption ==
  /\ None \notin Windows \cup Tabs
  /\ \A s \in Stored : s = Foreign \/ IsStored(s)
  /\ MaxEvents \in Nat

VARIABLES
  open,    \* the tabs that exist
  window,  \* the window of a tab, None while it is dragged
  page,    \* page_id_ of the tab's contents, None if it has none
  url,     \* the address it last committed, None if it may not be stored
  session, \* the page id the session service has for the tab
  dialogs, \* the confirmation each window shows for a move
  events   \* how much of MaxEvents has happened

tabVars == <<open, window, page, url, session, dialogs>>
projectVars == <<store, writable, tabVars, events>>

PageOrNone == PageIds \cup {None}
Confirmation == [tab: Tabs \cup {None}, project: ProjectIds, page: PageIds,
                 owner: ProjectIds]

\* Ids are random and never given twice; one that nothing refers to any more
\* stands for the next.
FreshProjects ==
  ProjectIds \ (Projects(store)
                \cup UNION {{dialogs[w].project, dialogs[w].owner} :
                              w \in {v \in Windows : dialogs[v] # None}})
FreshPages ==
  PageIds \ (Pages(store)
             \cup {page[t] : t \in Tabs} \cup {session[t] : t \in Tabs}
             \cup {dialogs[w].page : w \in {v \in Windows : dialogs[v] # None}})

FindLiveTab(x, w, ignored) ==
  /\ x # None /\ w # None
  /\ \E t \in open \ {ignored} : window[t] = w /\ page[t] = x

-----------------------------------------------------------------------------
(* The store changes, and every tab whose page is gone is released *)

ReleasedNone(s) == {}

\* OnProjectChanged, which Save runs.
Released(s) == {t \in open : page[t] # None /\ page[t] \notin Pages(s)}

Save(s) ==
  /\ store' = s
  /\ page' = [t \in Tabs |-> IF t \in Released(s) THEN None ELSE page[t]]
  /\ session' = [t \in Tabs |-> IF t \in Released(s) THEN None ELSE session[t]]

CreateProject(p) ==
  /\ writable
  /\ p \in FreshProjects
  /\ store' = WithProject(p)
  /\ UNCHANGED <<writable, tabVars>>

DeleteProject(p) ==
  /\ writable /\ p \in Projects(store)
  /\ Save(WithoutProject(p))
  /\ UNCHANGED <<writable, open, window, url, dialogs>>

RemovePage(x) ==
  /\ writable /\ x \in Pages(store)
  /\ Save(WithoutPage(x))
  /\ UNCHANGED <<writable, open, window, url, dialogs>>

-----------------------------------------------------------------------------
(* Attaching a tab *)

Bind(t, x) ==
  /\ page' = [page EXCEPT ![t] = x]
  /\ session' = [session EXCEPT ![t] = x]

\* A tab without a page gets a new one.
AttachNew(t, p) ==
  /\ t \in open /\ page[t] = None
  /\ writable /\ p \in Projects(store) /\ url[t] # None
  /\ \E x \in FreshPages :
       /\ store' = WithPage(x, p, url[t])
       /\ Bind(t, x)
  /\ UNCHANGED <<writable, open, window, url, dialogs>>

\* Attach: the tab still carries the page, the project and the page still exist
\* and the store takes it.
MayAttach(d) ==
  /\ d.tab \in open /\ page[d.tab] = d.page
  /\ writable /\ d.project \in Projects(store) /\ url[d.tab] # None
  /\ d.page \in Pages(store)
  /\ MayMove(d.page, d.project, d.owner)

\* AttachCurrentPage: a page of another project needs a confirmation first.
AskToMove(t, p) ==
  /\ t \in open /\ window[t] # None
  /\ writable /\ p \in Projects(store)
  /\ page[t] \in Pages(store) /\ store.pages[page[t]].project # p
  /\ dialogs[window[t]] = None
  /\ dialogs' = [dialogs EXCEPT ![window[t]] =
                   [tab |-> t, project |-> p, page |-> page[t],
                    owner |-> store.pages[page[t]].project]]
  /\ UNCHANGED <<store, writable, open, window, page, url, session>>

\* The user accepts, whatever has happened since the question was asked.
ConfirmMove(w) ==
  LET d == dialogs[w]
  IN  /\ d # None
      /\ dialogs' = [dialogs EXCEPT ![w] = None]
      /\ IF MayAttach(d)
           THEN /\ Bind(d.tab, d.page)
                /\ store' = IF store.pages[d.page].project = d.project
                              THEN store ELSE Moved(d.page, d.project)
           ELSE UNCHANGED <<store, page, session>>
      /\ UNCHANGED <<writable, open, window, url>>

Dismiss(w) ==
  /\ dialogs[w] # None
  /\ dialogs' = [dialogs EXCEPT ![w] = None]
  /\ UNCHANGED <<store, writable, open, window, page, url, session>>

-----------------------------------------------------------------------------
(* Tabs *)

Appear(t, w, u) ==
  /\ t \notin open
  /\ open' = open \cup {t}
  /\ window' = [window EXCEPT ![t] = w]
  /\ url' = [url EXCEPT ![t] = u]

NewTab(t, w, u) ==
  /\ Appear(t, w, u)
  /\ Bind(t, None)
  /\ UNCHANGED <<store, writable, dialogs>>

KeepsKnown(t, w, x) == IF writable /\ x \notin Pages(store) THEN None ELSE x

\* WatchTab: a restored id that is unknown, or shown in the window by another
\* tab, is not taken.
Keeps(t, w, x) ==
  IF (writable /\ x \notin Pages(store)) \/ FindLiveTab(x, w, t)
    THEN None ELSE x

\* A tab of the last session, or one that was closed, comes back with the id the
\* session service kept for it.
RestoreTab(t, w) ==
  /\ session[t] # None
  /\ Appear(t, w, url[t])
  /\ page' = [page EXCEPT ![t] = Keeps(t, w, session[t])]
  /\ UNCHANGED <<store, writable, session, dialogs>>

\* OpenPage: a page that has no tab in this window gets a new one.
OpenPage(x, w, t) ==
  /\ x \in Pages(store) /\ ~FindLiveTab(x, w, None)
  /\ Appear(t, w, store.pages[x].url)
  /\ Bind(t, x)
  /\ UNCHANGED <<store, writable, dialogs>>

\* A committed navigation updates the page the tab is bound to
\* (MetadataChanged).
Navigate(t, u) ==
  /\ t \in open /\ u # url[t]
  /\ url' = [url EXCEPT ![t] = u]
  /\ store' = IF writable /\ page[t] \in Pages(store) /\ u # None
                THEN WithUrl(page[t], u) ELSE store
  /\ UNCHANGED <<writable, open, window, page, session, dialogs>>

Detach(t) ==
  /\ t \in open /\ window[t] # None
  /\ window' = [window EXCEPT ![t] = None]
  /\ UNCHANGED <<store, writable, open, page, url, session, dialogs>>

\* OnInsert: the window may have a tab of its own for the page.
Insert(t, w) ==
  /\ t \in open /\ window[t] = None
  /\ window' = [window EXCEPT ![t] = w]
  /\ Bind(t, IF FindLiveTab(page[t], w, t) THEN None ELSE page[t])
  /\ UNCHANGED <<store, writable, open, url, dialogs>>

\* A question about the tab stays on its window with a weak pointer.
CloseTab(t) ==
  /\ t \in open
  /\ open' = open \ {t}
  /\ page' = [page EXCEPT ![t] = None]
  /\ window' = [window EXCEPT ![t] = None]
  /\ dialogs' = [w \in Windows |-> IF dialogs[w] # None /\ dialogs[w].tab = t
                                  THEN [dialogs[w] EXCEPT !.tab = None]
                                  ELSE dialogs[w]]
  /\ UNCHANGED <<store, writable, url, session>>

-----------------------------------------------------------------------------
ProjectsInit ==
  /\ \E stored \in Stored :
       store = Load(stored) /\ writable = Loadable(stored)
  /\ open = {}
  /\ window = [t \in Tabs |-> None]
  /\ page = [t \in Tabs |-> None]
  /\ url = [t \in Tabs |-> None]
  /\ session \in [Tabs -> PageOrNone]
  /\ dialogs = [w \in Windows |-> None]
  /\ events = 0

ProjectStep ==
  \/ \E p \in ProjectIds : CreateProject(p) \/ DeleteProject(p)
  \/ \E x \in PageIds : RemovePage(x)
  \/ \E t \in Tabs, p \in ProjectIds : AttachNew(t, p) \/ AskToMove(t, p)
  \/ \E w \in Windows : ConfirmMove(w) \/ Dismiss(w)
  \/ \E t \in Tabs, w \in Windows :
       \/ \E u \in Urls \cup {None} : NewTab(t, w, u)
       \/ RestoreTab(t, w)
       \/ Insert(t, w)
       \/ \E x \in PageIds : OpenPage(x, w, t)
  \/ \E t \in Tabs, u \in Urls \cup {None} : Navigate(t, u)
  \/ \E t \in Tabs : Detach(t) \/ CloseTab(t)

ProjectsNext ==
  /\ events < MaxEvents
  /\ events' = events + 1
  /\ ProjectStep

ProjectsSpec == ProjectsInit /\ [][ProjectsNext]_projectVars

-----------------------------------------------------------------------------
(* The kinds of the store and the tabs; the loaded and every later state   *)
(* of the projects would validate when it is loaded again, which decides   *)
(* whether the next run may write (Load).                                  *)
ProjectsTypeOK ==
  /\ ProjectStoreTypeOK
  /\ open \subseteq Tabs
  /\ window \in [Tabs -> Windows \cup {None}]
  /\ page \in [Tabs -> PageOrNone]
  /\ url \in [Tabs -> Urls \cup {None}]
  /\ session \in [Tabs -> PageOrNone]
  /\ \A w \in Windows : dialogs[w] \in Confirmation \cup {None}

(* No window has two tabs for one page, however tabs are opened, restored, *)
(* reopened, dragged between windows and attached (FindLiveTab in          *)
(* WatchTab, OnInsert, BeginReopenPage).                                   *)
OneTabPerPage ==
  \A s, t \in open :
    page[s] = page[t] /\ page[s] # None /\ window[s] = window[t]
      => s = t \/ window[s] = None

(* A tab shows only a page that exists: removing a page or a project in    *)
(* one window releases the tabs of every window, those being dragged among *)
(* them, and a restored tab may name a page the preferences never got      *)
(* (OnProjectChanged, WatchTab).                                           *)
BoundIsKnown == writable => \A t \in open : page[t] \in Pages(store) \cup {None}

(* A page changes its project only when a window's user was asked about    *)
(* this page, this owner and this project, and the tab still shows it: two *)
(* windows may ask about the same page and answer in any order, while      *)
(* pages and projects are removed (expected_project_id in AttachPage).     *)
MoveIsConfirmed ==
  [][\A x \in Pages(store) \cap Pages(store') :
       store'.pages[x].project # store.pages[x].project =>
         \E w \in Windows :
           /\ dialogs[w] # None
           /\ dialogs[w].page = x
           /\ dialogs[w].owner = store.pages[x].project
           /\ dialogs[w].project = store'.pages[x].project
           /\ dialogs[w].tab \in open /\ page[dialogs[w].tab] = x]_projectVars
=============================================================================
