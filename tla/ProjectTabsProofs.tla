-------------------------- MODULE ProjectTabsProofs --------------------------
(***************************************************************************)
(* Tabs and pages for any number of tabs, windows, projects and pages, and *)
(* however long the browser runs: a bound page exists, no window has two   *)
(* tabs for one page, and a page moves only as a user confirmed it.        *)
(***************************************************************************)
EXTENDS ProjectTabs, TLAPS

\* The two tables of a store, whose contents are left open.
Table(f) == f = [k \in DOMAIN f |-> f[k]]
IsStore(s) ==
  /\ s = [projects |-> s.projects, pages |-> s.pages]
  /\ Table(s.projects) /\ Table(s.pages)
  /\ Pages(s) \subseteq PageIds
  /\ \A x \in Pages(s) : s.pages[x] \in Page

\* A store that has at least the pages of another, in the same projects.
Extends(s, r) ==
  /\ Pages(r) \subseteq Pages(s)
  /\ \A x \in Pages(r) : s.pages[x].project = r.pages[x].project

TabsInv ==
  /\ IsStore(store)
  /\ open \subseteq Tabs
  /\ window \in [Tabs -> Windows \cup {None}]
  /\ page \in [Tabs -> PageOrNone]
  /\ url \in [Tabs -> Urls \cup {None}]
  /\ session \in [Tabs -> PageOrNone]
  /\ dialogs \in [Windows -> Confirmation \cup {None}]
  /\ OneTabPerPage
  /\ BoundIsKnown

-----------------------------------------------------------------------------
(* What the operations of the store leave (ProjectService)                 *)

LEMMA LoadedIsStore ==
  ASSUME NEW stored \in Stored
  PROVE  IsStore(Load(stored))
<1>1. IsStore(Empty)
  BY DEF IsStore, Empty, Table, Pages
<1>2. CASE ~Loadable(stored)
  BY <1>1, <1>2 DEF Load
<1>3. CASE Loadable(stored)
  <2>1. IsStored(stored)
    BY <1>3, ProjectTabsAssumption DEF Loadable
  <2>2. PICK P \in SUBSET ProjectIds, X \in SUBSET PageIds :
          stored \in [projects : [P -> Seq(PageIds)], pages : [X -> Page]]
    BY <2>1 DEF IsStored
  <2>3. /\ stored.projects \in [P -> Seq(PageIds)]
        /\ stored.pages \in [X -> Page]
    BY <2>2
  <2>4. stored = [projects |-> stored.projects, pages |-> stored.pages]
    BY <2>2
  <2> QED  BY <1>3, <2>3, <2>4 DEF Load, IsStore, Table, Pages
<1> QED  BY <1>2, <1>3

LEMMA WithProjectKeeps ==
  ASSUME IsStore(store), NEW p
  PROVE  IsStore(WithProject(p)) /\ WithProject(p).pages = store.pages
BY DEF IsStore, WithProject, Table, Pages

LEMMA WithoutProjectKeeps ==
  ASSUME IsStore(store), NEW p
  PROVE  IsStore(WithoutProject(p)) /\ Extends(store, WithoutProject(p))
BY DEF IsStore, WithoutProject, Table, Pages, Restrict, Extends

LEMMA WithoutPageKeeps ==
  ASSUME IsStore(store), NEW x
  PROVE  IsStore(WithoutPage(x)) /\ Extends(store, WithoutPage(x))
BY DEF IsStore, WithoutPage, Table, Pages, Restrict, Extends

LEMMA WithUrlKeeps ==
  ASSUME IsStore(store), NEW x \in Pages(store), NEW u \in Urls
  PROVE  /\ IsStore(WithUrl(x, u))
         /\ Pages(WithUrl(x, u)) = Pages(store)
         /\ Extends(WithUrl(x, u), store)
<1> DEFINE s == WithUrl(x, u)
<1>1. s = [projects |-> store.projects,
           pages |-> [store.pages EXCEPT ![x].url = u]]
  BY DEF WithUrl, IsStore
<1>2. /\ s.projects = store.projects
      /\ s.pages = [store.pages EXCEPT ![x].url = u]
      /\ s = [projects |-> s.projects, pages |-> s.pages]
  BY <1>1
<1> HIDE DEF s
<1>3. Pages(s) = Pages(store) /\ Table(s.pages)
  BY <1>2 DEF Pages, IsStore, Table
<1>4. \A y \in Pages(store) :
        s.pages[y] \in Page /\ s.pages[y].project = store.pages[y].project
  BY <1>2 DEF IsStore, Table, Pages, Page
<1> QED  BY <1>2, <1>3, <1>4 DEF s, IsStore, Extends

LEMMA WithPageKeeps ==
  ASSUME IsStore(store), NEW x \in PageIds \ Pages(store),
         NEW p \in Projects(store) \cap ProjectIds, NEW u \in Urls
  PROVE  /\ IsStore(WithPage(x, p, u))
         /\ Pages(WithPage(x, p, u)) = Pages(store) \cup {x}
         /\ Extends(WithPage(x, p, u), store)
BY DEF IsStore, WithPage, Table, Pages, Page, Extends

LEMMA MovedKeeps ==
  ASSUME IsStore(store), NEW x \in Pages(store), NEW p \in ProjectIds
  PROVE  /\ IsStore(Moved(x, p))
         /\ Pages(Moved(x, p)) = Pages(store)
         /\ Moved(x, p).pages = [store.pages EXCEPT ![x].project = p]
BY DEF IsStore, Moved, Table, Pages, Page

-----------------------------------------------------------------------------
(* Every step keeps the invariant, and moves a page as confirmed           *)

\* What MoveIsConfirmed says of one step.
OnlyConfirmed ==
  \A x \in Pages(store) \cap Pages(store') :
    store'.pages[x].project # store.pages[x].project =>
      \E w \in Windows :
        /\ dialogs[w] # None
        /\ dialogs[w].page = x
        /\ dialogs[w].owner = store.pages[x].project
        /\ dialogs[w].project = store'.pages[x].project
        /\ dialogs[w].tab \in open /\ page[dialogs[w].tab] = x

Kept == TabsInv' /\ OnlyConfirmed

\* Save of a store with fewer pages releases the tabs of every window.
LEMMA SaveKeeps ==
  ASSUME TabsInv, NEW s, IsStore(s), Extends(store, s), Save(s),
         UNCHANGED <<writable, open, window, url, dialogs>>
  PROVE  Kept
<1>1. IsStore(store') /\ OnlyConfirmed
  BY DEF Save, Extends, OnlyConfirmed
<1>2. page' \in [Tabs -> PageOrNone] /\ session' \in [Tabs -> PageOrNone]
  BY DEF Save, TabsInv, PageOrNone
<1>3. \A t \in open : page'[t] # None => page'[t] = page[t]
  BY DEF Save, TabsInv
<1>4. OneTabPerPage'
  BY <1>3 DEF TabsInv, OneTabPerPage
<1>5. \A t \in open : page'[t] \in Pages(s) \cup {None}
  BY DEF Save, Released, TabsInv
<1>6. BoundIsKnown'
  BY <1>5 DEF BoundIsKnown, Save
<1> QED  BY <1>1, <1>2, <1>4, <1>6 DEF Kept, TabsInv

\* A step that leaves the tabs and takes no page away.
LEMMA StoreGrows ==
  ASSUME TabsInv, IsStore(store'), Extends(store', store),
         UNCHANGED <<writable, open, window, page, session>>,
         url' \in [Tabs -> Urls \cup {None}],
         dialogs' \in [Windows -> Confirmation \cup {None}]
  PROVE  Kept
<1>1. OneTabPerPage'
  BY DEF TabsInv, OneTabPerPage
<1>2. BoundIsKnown'
  BY DEF TabsInv, BoundIsKnown, Extends
<1>3. OnlyConfirmed
  BY DEF OnlyConfirmed, Extends
<1> QED  BY <1>1, <1>2, <1>3 DEF Kept, TabsInv

LEMMA StoreSame == IsStore(store) => Extends(store, store)
BY DEF Extends

LEMMA ProjectStepsKeep ==
  ASSUME TabsInv, NEW p \in ProjectIds,
         CreateProject(p) \/ DeleteProject(p)
  PROVE  Kept
<1> USE DEF tabVars
<1>1. CASE CreateProject(p)
  <2>1. IsStore(store') /\ Extends(store', store)
    BY <1>1, WithProjectKeeps DEF CreateProject, TabsInv, Extends, Pages
  <2> QED  BY <1>1, <2>1, StoreGrows DEF CreateProject, TabsInv
<1>2. CASE DeleteProject(p)
  BY <1>2, WithoutProjectKeeps, SaveKeeps DEF DeleteProject, TabsInv
<1> QED  BY <1>1, <1>2

LEMMA RemovePageKeeps ==
  ASSUME TabsInv, NEW x \in PageIds, RemovePage(x)
  PROVE  Kept
BY WithoutPageKeeps, SaveKeeps DEF RemovePage, TabsInv

LEMMA AttachNewKeeps ==
  ASSUME TabsInv, NEW t \in Tabs, NEW p \in ProjectIds, AttachNew(t, p)
  PROVE  Kept
<1>1. PICK x \in FreshPages : store' = WithPage(x, p, url[t]) /\ Bind(t, x)
  BY DEF AttachNew
<1>2. /\ x \in PageIds \ Pages(store)
      /\ \A s \in Tabs : page[s] # x
  BY <1>1 DEF FreshPages
<1>3. url[t] \in Urls
  BY DEF AttachNew, TabsInv
<1>4. /\ IsStore(store') /\ Extends(store', store)
      /\ Pages(store') = Pages(store) \cup {x}
  BY <1>1, <1>2, <1>3, WithPageKeeps DEF AttachNew, TabsInv
<1>5. /\ page' \in [Tabs -> PageOrNone] /\ session' \in [Tabs -> PageOrNone]
      /\ page' = [page EXCEPT ![t] = x]
  BY <1>1, <1>2 DEF Bind, TabsInv, PageOrNone
<1>6. OneTabPerPage'
  BY <1>2, <1>5 DEF TabsInv, OneTabPerPage, AttachNew
<1>7. BoundIsKnown'
  BY <1>4, <1>5 DEF TabsInv, BoundIsKnown, AttachNew
<1>8. OnlyConfirmed
  BY <1>4 DEF OnlyConfirmed, Extends
<1> QED  BY <1>4, <1>5, <1>6, <1>7, <1>8 DEF Kept, TabsInv, AttachNew

LEMMA AskToMoveKeeps ==
  ASSUME TabsInv, NEW t \in Tabs, NEW p \in ProjectIds, AskToMove(t, p)
  PROVE  Kept
<1>1. page[t] \in PageIds /\ store.pages[page[t]].project \in ProjectIds
  BY DEF AskToMove, TabsInv, IsStore, Page
<1>2. [tab |-> t, project |-> p, page |-> page[t],
       owner |-> store.pages[page[t]].project] \in Confirmation
  BY <1>1 DEF Confirmation
<1>3. dialogs' \in [Windows -> Confirmation \cup {None}]
  BY <1>2 DEF AskToMove, TabsInv
<1> QED  BY <1>3, StoreGrows, StoreSame DEF AskToMove, TabsInv

LEMMA ConfirmMoveKeeps ==
  ASSUME TabsInv, NEW w \in Windows, ConfirmMove(w)
  PROVE  Kept
<1> DEFINE d == dialogs[w]
<1>1. d \in Confirmation /\ d # None
  BY DEF ConfirmMove, TabsInv
<1>2. dialogs' \in [Windows -> Confirmation \cup {None}]
  BY DEF ConfirmMove, TabsInv
<1>3. CASE ~MayAttach(d)
  BY <1>2, <1>3, StoreGrows, StoreSame DEF ConfirmMove, TabsInv
<1>4. CASE MayAttach(d)
  <2>1. /\ d.page \in Pages(store) /\ d.project \in ProjectIds
        /\ d.tab \in open /\ page[d.tab] = d.page
        /\ store.pages[d.page].project \in {d.project, d.owner}
    BY <1>1, <1>4 DEF MayAttach, MayMove, Confirmation
  <2>2. page' = page
    <3>1. page' = [page EXCEPT ![d.tab] = d.page]
      BY <1>4 DEF ConfirmMove, Bind
    <3>2. page \in [Tabs -> PageOrNone]
      BY DEF TabsInv
    <3> QED
      BY <2>1, <3>1, <3>2
  <2>3. session' \in [Tabs -> PageOrNone]
    <3>1. d.page \in PageOrNone /\ session \in [Tabs -> PageOrNone]
      BY <2>1 DEF TabsInv, IsStore, PageOrNone
    <3>2. session' = [session EXCEPT ![d.tab] = d.page]
      BY <1>4 DEF ConfirmMove, Bind
    <3> QED
      BY <3>1, <3>2
  <2>4. CASE store' = store
    <3>1. OneTabPerPage'
      BY <1>4, <2>2 DEF ConfirmMove, TabsInv, OneTabPerPage
    <3>2. BoundIsKnown'
      BY <1>4, <2>2, <2>4 DEF ConfirmMove, TabsInv, BoundIsKnown
    <3>3. OnlyConfirmed
      BY <2>4 DEF OnlyConfirmed
    <3> QED  BY <1>2, <2>2, <2>3, <2>4, <3>1, <3>2, <3>3
             DEF Kept, TabsInv, ConfirmMove
  <2>5. CASE /\ store' = Moved(d.page, d.project)
             /\ store.pages[d.page].project # d.project
    <3>1. /\ IsStore(store') /\ Pages(store') = Pages(store)
          /\ store'.pages = [store.pages EXCEPT ![d.page].project = d.project]
      BY <2>1, <2>5, MovedKeeps DEF TabsInv
    <3>2. OneTabPerPage'
      BY <1>4, <2>2 DEF ConfirmMove, TabsInv, OneTabPerPage
    <3>3. BoundIsKnown'
      BY <1>4, <2>2, <3>1 DEF ConfirmMove, TabsInv, BoundIsKnown
    <3>4. \A x \in Pages(store) :
            store'.pages[x].project # store.pages[x].project =>
              /\ x = d.page
              /\ store.pages[x].project = d.owner
              /\ store'.pages[x].project = d.project
      BY <2>1, <2>5, <3>1 DEF Pages, Page, TabsInv, IsStore
    <3>5. OnlyConfirmed
      BY <1>1, <2>1, <3>4 DEF OnlyConfirmed
    <3> QED  BY <1>2, <2>2, <2>3, <3>1, <3>2, <3>3, <3>5
             DEF Kept, TabsInv, ConfirmMove
  <2> QED  BY <1>4, <2>4, <2>5 DEF ConfirmMove
<1> QED  BY <1>3, <1>4

LEMMA DismissKeeps ==
  ASSUME TabsInv, NEW w \in Windows, Dismiss(w)
  PROVE  Kept
<1>1. dialogs' \in [Windows -> Confirmation \cup {None}]
  BY DEF Dismiss, TabsInv
<1> QED  BY <1>1, StoreGrows, StoreSame DEF Dismiss, TabsInv

\* A tab that appears, with a page that exists and that its window does not
\* show, or with none.
Appears(t, w, u, x) ==
  /\ Appear(t, w, u)
  /\ page' = [page EXCEPT ![t] = x]
  /\ session' \in [Tabs -> PageOrNone]
  /\ UNCHANGED <<store, writable, dialogs>>
  /\ writable => x \in Pages(store) \cup {None}
  /\ \A s \in open : window[s] = w /\ x # None => page[s] # x

LEMMA AppearKeeps ==
  ASSUME TabsInv, NEW t \in Tabs, NEW w \in Windows,
         NEW u \in Urls \cup {None}, NEW x \in PageOrNone, Appears(t, w, u, x)
  PROVE  Kept
<1> USE DEF Appears
<1>1. /\ open' \subseteq Tabs /\ window' \in [Tabs -> Windows \cup {None}]
      /\ url' \in [Tabs -> Urls \cup {None}]
      /\ page' \in [Tabs -> PageOrNone]
  BY DEF Appear, TabsInv
<1>2. OneTabPerPage'
  <2> SUFFICES ASSUME NEW r \in open', NEW s \in open',
                      page'[r] = page'[s], page'[r] # None,
                      window'[r] = window'[s], r # s
               PROVE  window'[r] = None
    BY DEF OneTabPerPage
  <2>1. CASE r = t
    BY <2>1 DEF Appear, TabsInv
  <2>2. CASE s = t
    BY <2>2 DEF Appear, TabsInv
  <2>3. CASE r # t /\ s # t
    BY <2>3 DEF Appear, TabsInv, OneTabPerPage
  <2> QED  BY <2>1, <2>2, <2>3
<1>3. BoundIsKnown'
  BY DEF Appear, TabsInv, BoundIsKnown
<1>4. OnlyConfirmed
  BY DEF OnlyConfirmed
<1> QED  BY <1>1, <1>2, <1>3, <1>4 DEF Kept, TabsInv

LEMMA NewTabKeeps ==
  ASSUME TabsInv, NEW t \in Tabs, NEW w \in Windows,
         NEW u \in Urls \cup {None}, NewTab(t, w, u)
  PROVE  Kept
<1>1. None \in PageOrNone
  BY DEF PageOrNone
<1>2. Appears(t, w, u, None)
  BY <1>1 DEF Appears, NewTab, Bind, TabsInv
<1> QED  BY <1>1, <1>2, AppearKeeps

LEMMA RestoreTabKeeps ==
  ASSUME TabsInv, NEW t \in Tabs, NEW w \in Windows, RestoreTab(t, w)
  PROVE  Kept
<1> DEFINE x == Keeps(t, w, session[t])
<1>1. x \in PageOrNone /\ url[t] \in Urls \cup {None}
  BY DEF Keeps, TabsInv, PageOrNone
<1>2. writable => x \in Pages(store) \cup {None}
  BY DEF Keeps
<1>3. \A s \in open : window[s] = w /\ x # None => page[s] # x
  BY ProjectTabsAssumption DEF Keeps, FindLiveTab, RestoreTab, Appear
<1>4. Appears(t, w, url[t], x)
  BY <1>2, <1>3 DEF Appears, RestoreTab, TabsInv
<1> HIDE DEF x
<1> QED  BY <1>1, <1>4, AppearKeeps

LEMMA OpenPageKeeps ==
  ASSUME TabsInv, NEW x \in PageIds, NEW w \in Windows, NEW t \in Tabs,
         OpenPage(x, w, t)
  PROVE  Kept
<1>1. x \in PageOrNone /\ x \in Pages(store)
  BY DEF OpenPage, PageOrNone
<1>2. store.pages[x].url \in Urls \cup {None}
  BY <1>1 DEF TabsInv, IsStore, Page
<1>3. \A s \in open : window[s] = w /\ x # None => page[s] # x
  BY ProjectTabsAssumption DEF OpenPage, FindLiveTab, TabsInv
<1>4. Appears(t, w, store.pages[x].url, x)
  BY <1>1, <1>3 DEF Appears, OpenPage, Bind, TabsInv
<1> QED  BY <1>1, <1>2, <1>4, AppearKeeps

LEMMA NavigateKeeps ==
  ASSUME TabsInv, NEW t \in Tabs, NEW u \in Urls \cup {None}, Navigate(t, u)
  PROVE  Kept
<1>1. url' \in [Tabs -> Urls \cup {None}]
  BY DEF Navigate, TabsInv
<1>2. IsStore(store') /\ Extends(store', store)
  BY WithUrlKeeps, StoreSame DEF Navigate, TabsInv
<1> QED  BY <1>1, <1>2, StoreGrows DEF Navigate, TabsInv

LEMMA DetachKeeps ==
  ASSUME TabsInv, NEW t \in Tabs, Detach(t)
  PROVE  Kept
<1>1. window' \in [Tabs -> Windows \cup {None}]
  BY DEF Detach, TabsInv
<1>2. OneTabPerPage'
  BY DEF Detach, TabsInv, OneTabPerPage
<1>3. BoundIsKnown' /\ OnlyConfirmed
  BY DEF Detach, TabsInv, BoundIsKnown, OnlyConfirmed
<1> QED  BY <1>1, <1>2, <1>3 DEF Kept, TabsInv, Detach

LEMMA InsertKeeps ==
  ASSUME TabsInv, NEW t \in Tabs, NEW w \in Windows, Insert(t, w)
  PROVE  Kept
<1> DEFINE x == IF FindLiveTab(page[t], w, t) THEN None ELSE page[t]
<1>1. x \in PageOrNone
  BY DEF TabsInv, PageOrNone
<1>2. /\ window' \in [Tabs -> Windows \cup {None}]
      /\ page' \in [Tabs -> PageOrNone] /\ session' \in [Tabs -> PageOrNone]
      /\ page' = [page EXCEPT ![t] = x]
  BY <1>1 DEF Insert, Bind, TabsInv
<1>3. x # None => x = page[t]
  OBVIOUS
<1>4. \A s \in open \ {t} : window[s] = w /\ x # None => page[s] # x
  BY ProjectTabsAssumption DEF FindLiveTab
<1> HIDE DEF x
<1>5. OneTabPerPage'
  <2> SUFFICES ASSUME NEW r \in open, NEW s \in open,
                      page'[r] = page'[s], page'[r] # None,
                      window'[r] = window'[s], r # s
               PROVE  window'[r] = None
    BY DEF OneTabPerPage, Insert
  <2>1. CASE r = t
    BY <1>2, <1>4, <2>1 DEF Insert, TabsInv
  <2>2. CASE s = t
    BY <1>2, <1>4, <2>2 DEF Insert, TabsInv
  <2>3. CASE r # t /\ s # t
    BY <1>2, <2>3 DEF Insert, TabsInv, OneTabPerPage
  <2> QED  BY <2>1, <2>2, <2>3
<1>6. BoundIsKnown' /\ OnlyConfirmed
  BY <1>2, <1>3 DEF Insert, TabsInv, BoundIsKnown, OnlyConfirmed
<1> QED  BY <1>2, <1>5, <1>6 DEF Kept, TabsInv, Insert

LEMMA CloseTabKeeps ==
  ASSUME TabsInv, NEW t \in Tabs, CloseTab(t)
  PROVE  Kept
<1>1. \A w \in Windows : dialogs'[w] \in Confirmation \cup {None}
  BY DEF CloseTab, TabsInv, Confirmation
<1>2. dialogs' \in [Windows -> Confirmation \cup {None}]
  BY <1>1 DEF CloseTab
<1>3. /\ window' \in [Tabs -> Windows \cup {None}]
      /\ page' \in [Tabs -> PageOrNone]
      /\ open' \subseteq Tabs
  BY DEF CloseTab, TabsInv, PageOrNone
<1>4. OneTabPerPage'
  BY DEF CloseTab, TabsInv, OneTabPerPage
<1>5. BoundIsKnown' /\ OnlyConfirmed
  BY DEF CloseTab, TabsInv, BoundIsKnown, OnlyConfirmed
<1> QED  BY <1>2, <1>3, <1>4, <1>5 DEF Kept, TabsInv, CloseTab

-----------------------------------------------------------------------------
LEMMA InitHolds == ProjectsInit => TabsInv
<1> SUFFICES ASSUME ProjectsInit PROVE TabsInv
  OBVIOUS
<1>1. IsStore(store)
  BY LoadedIsStore DEF ProjectsInit
<1>2. /\ window \in [Tabs -> Windows \cup {None}]
      /\ page \in [Tabs -> PageOrNone]
      /\ url \in [Tabs -> Urls \cup {None}]
      /\ dialogs \in [Windows -> Confirmation \cup {None}]
  BY DEF ProjectsInit, PageOrNone
<1>3. OneTabPerPage /\ BoundIsKnown
  BY DEF ProjectsInit, OneTabPerPage, BoundIsKnown
<1> QED  BY <1>1, <1>2, <1>3 DEF TabsInv, ProjectsInit

LEMMA NextKeeps == TabsInv /\ [ProjectsNext]_projectVars => Kept
<1> SUFFICES ASSUME TabsInv, [ProjectsNext]_projectVars PROVE Kept
  OBVIOUS
<1>1. CASE UNCHANGED projectVars
  <2>1. UNCHANGED <<store, writable, open, window, page, session,
                    url, dialogs>>
    BY <1>1 DEF projectVars, tabVars
  <2> QED  BY <2>1, StoreGrows, StoreSame DEF TabsInv
<1>2. CASE ProjectStep
  BY <1>2, ProjectStepsKeep, RemovePageKeeps, AttachNewKeeps, AskToMoveKeeps,
     ConfirmMoveKeeps, DismissKeeps, NewTabKeeps, RestoreTabKeeps, InsertKeeps,
     OpenPageKeeps, NavigateKeeps, DetachKeeps, CloseTabKeeps
     DEF ProjectStep
<1> QED  BY <1>1, <1>2 DEF ProjectsNext

\* Every reachable state of the tabs and the store satisfies the invariant.
THEOREM TabsInductive == ProjectsSpec => []TabsInv
<1>1. TabsInv /\ [ProjectsNext]_projectVars => TabsInv'
  BY NextKeeps DEF Kept
<1> QED  BY InitHolds, <1>1, PTL DEF ProjectsSpec

\* No window ever has two tabs for one page (FindLiveTab).
THEOREM OneTabHolds == ProjectsSpec => []OneTabPerPage
<1>1. TabsInv => OneTabPerPage
  BY DEF TabsInv
<1> QED  BY TabsInductive, <1>1, PTL

\* A tab shows only a page that exists (OnProjectChanged, WatchTab).
THEOREM BoundHolds == ProjectsSpec => []BoundIsKnown
<1>1. TabsInv => BoundIsKnown
  BY DEF TabsInv
<1> QED  BY TabsInductive, <1>1, PTL

\* A page moves only as a user confirmed it (expected_project_id).
THEOREM MoveHolds == ProjectsSpec => MoveIsConfirmed
<1>1. TabsInv /\ [ProjectsNext]_projectVars => [OnlyConfirmed]_projectVars
  BY NextKeeps DEF Kept
<1> QED  BY TabsInductive, <1>1, PTL DEF ProjectsSpec, MoveIsConfirmed,
         OnlyConfirmed
-----------------------------------------------------------------------------
(* The store could be loaded again                                         *)

\* Validates in terms of the sets of listed pages, with the kinds of the lists.
Listed(s) ==
  /\ Projects(s) \subseteq ProjectIds
  /\ \A p \in Projects(s) :
       /\ s.projects[p] \in Seq(PageIds) /\ IsInjective(s.projects[p])
       /\ \A x \in ToSet(s.projects[p]) : x \in Pages(s) /\ s.pages[x].project = p
  /\ \A x \in Pages(s) :
       /\ s.pages[x].project \in Projects(s)
       /\ x \in ToSet(s.projects[s.pages[x].project])

LoadsAgain ==
  /\ writable \in BOOLEAN
  /\ ~writable => store = Empty
  /\ Listed(store)

LEMMA ListedValidates ==
  ASSUME NEW s
  PROVE  /\ Listed(s) => Validates(s)
         /\ /\ Validates(s) /\ Projects(s) \subseteq ProjectIds
            /\ \A p \in Projects(s) : s.projects[p] \in Seq(PageIds)
            => Listed(s)
BY DEF Listed, Validates, ToSet

LEMMA AppendedList ==
  ASSUME NEW list \in Seq(PageIds), IsInjective(list),
         NEW x \in PageIds \ ToSet(list)
  PROVE  /\ Append(list, x) \in Seq(PageIds) /\ IsInjective(Append(list, x))
         /\ ToSet(Append(list, x)) = ToSet(list) \cup {x}
<1>1. /\ Append(list, x) \in Seq(PageIds)
      /\ DOMAIN Append(list, x) = DOMAIN list \cup {Len(list) + 1}
      /\ Append(list, x)[Len(list) + 1] = x
      /\ \A i \in DOMAIN list : i # Len(list) + 1 /\ Append(list, x)[i] = list[i]
  OBVIOUS
<1>2. ToSet(Append(list, x)) = ToSet(list) \cup {x}
  BY <1>1 DEF ToSet
<1>3. IsInjective(Append(list, x))
  BY <1>1 DEF IsInjective, ToSet
<1> QED  BY <1>1, <1>2, <1>3

LEMMA ShortenedList ==
  ASSUME NEW list \in Seq(PageIds), IsInjective(list), NEW x
  PROVE  /\ Without(list, x) \in Seq(PageIds) /\ IsInjective(Without(list, x))
         /\ ToSet(Without(list, x)) = ToSet(list) \ {x}
<1>1. CASE x \notin ToSet(list)
  BY <1>1 DEF Without
<1>2. CASE x \in ToSet(list)
  <2> DEFINE at == CHOOSE i \in DOMAIN list : list[i] = x
             before == SubSeq(list, 1, at - 1)
             after == SubSeq(list, at + 1, Len(list))
             rest == before \o after
             \* Where an element of the rest was.
             was == [i \in 1..(Len(list) - 1) |-> IF i < at THEN i ELSE i + 1]
  <2>1. at \in 1..Len(list) /\ list[at] = x
    BY <1>2 DEF ToSet
  <2>2. Without(list, x) = rest
    BY <1>2 DEF Without, RemoveAt
  <2> HIDE DEF at
  <2>3. /\ before \in Seq(PageIds) /\ Len(before) = at - 1
        /\ \A i \in 1..(at - 1) : before[i] = list[i]
    BY <2>1
  <2>4. /\ after \in Seq(PageIds) /\ Len(after) = Len(list) - at
        /\ \A i \in 1..(Len(list) - at) : after[i] = list[at + i]
    BY <2>1
  <2> HIDE DEF before, after
  <2>5. /\ rest \in Seq(PageIds) /\ DOMAIN rest = 1..(Len(list) - 1)
        /\ \A i \in 1..(at - 1) : rest[i] = list[i]
        /\ \A i \in at..(Len(list) - 1) : rest[i] = list[i + 1]
    <3>1. rest \in Seq(PageIds) /\ Len(rest) = Len(list) - 1
      <4>1. rest \in Seq(PageIds) /\ Len(rest) = Len(before) + Len(after)
        <5>1. before \in Seq(PageIds) /\ after \in Seq(PageIds) /\ rest = before \o after
          BY <2>2, <2>3, <2>4
        <5> QED
          BY <5>1
      <4>2. (at - 1) + (Len(list) - at) = Len(list) - 1
        BY <2>1
      <4> QED
        BY <2>3, <2>4, <4>1, <4>2
    <3>2. ASSUME NEW i \in 1..(at - 1) PROVE rest[i] = list[i]
      <4>1. i \in 1..(Len(before) + Len(after)) /\ i <= Len(before)
        BY <2>1, <2>3, <2>4
      <4>2. rest[i] = before[i]
        BY <2>3, <2>4, <4>1
      <4> QED
        BY <2>3, <4>2
    <3>3. ASSUME NEW i \in at..(Len(list) - 1) PROVE rest[i] = list[i + 1]
      <4> DEFINE k == i - (at - 1)
      <4>1. k \in 1..(Len(list) - at) /\ at + k = i + 1 /\ i - Len(before) = k
        BY <2>1, <2>3
      <4>2. i \in 1..(Len(before) + Len(after)) /\ ~(i <= Len(before))
        BY <2>1, <2>3, <2>4
      <4>3. rest[i] = after[i - Len(before)]
        BY <2>3, <2>4, <4>2
      <4> QED
        BY <2>4, <4>1, <4>3
    <3> QED
      BY <2>1, <3>1, <3>2, <3>3
  <2> HIDE DEF rest
  <2>6. ASSUME NEW i \in DOMAIN rest
        PROVE  was[i] \in DOMAIN list \ {at} /\ rest[i] = list[was[i]]
    <3>1. CASE i < at
      BY <2>1, <2>5, <3>1
    <3>2. CASE ~(i < at)
      BY <2>1, <2>5, <3>2
    <3> QED
      BY <3>1, <3>2
  <2>7. \A i, j \in DOMAIN rest : was[i] = was[j] => i = j
    BY <2>1, <2>5
  <2>8. ASSUME NEW k \in DOMAIN list \ {at}
        PROVE  \E i \in DOMAIN rest : was[i] = k
    <3>0. k \in 1..Len(list) /\ Len(list) \in Nat /\ k # at
      BY <2>1
    <3>1. CASE k < at
      <4>1. k \in 1..(Len(list) - 1)
        BY <2>1, <3>0, <3>1
      <4> QED
        BY <2>5, <3>1, <4>1
    <3>2. CASE k > at
      <4>1. k \in 1..Len(list) /\ k - 1 \in 1..(Len(list) - 1) /\ ~(k - 1 < at)
        BY <2>1, <3>0, <3>2
      <4>2. k - 1 \in DOMAIN rest /\ was[k - 1] = (k - 1) + 1
        BY <2>5, <4>1
      <4>3. (k - 1) + 1 = k
        BY <4>1
      <4> QED
        BY <4>2, <4>3
    <3> QED
      BY <2>1, <3>0, <3>1, <3>2
  <2> HIDE DEF was
  <2>9. IsInjective(rest)
    BY <2>6, <2>7 DEF IsInjective
  <2>10. ToSet(rest) = ToSet(list) \ {x}
    BY <2>1, <2>6, <2>8 DEF IsInjective, ToSet
  <2> QED
    BY <2>2, <2>5, <2>9, <2>10
<1> QED
  BY <1>1, <1>2

LEMMA EmptyIsListed == Listed(Empty)
BY DEF Listed, Empty, Projects, Pages

LEMMA LoadedIsListed ==
  ASSUME NEW stored \in Stored
  PROVE  Listed(Load(stored))
<1>1. CASE ~Loadable(stored)
  BY <1>1, EmptyIsListed DEF Load
<1>2. CASE Loadable(stored)
  <2>1. IsStored(stored)
    BY <1>2, ProjectTabsAssumption DEF Loadable
  <2>2. PICK P \in SUBSET ProjectIds, X \in SUBSET PageIds :
          stored \in [projects : [P -> Seq(PageIds)], pages : [X -> Page]]
    BY <2>1 DEF IsStored
  <2>3. stored.projects \in [P -> Seq(PageIds)]
    BY <2>2
  <2>4. /\ Projects(stored) \subseteq ProjectIds
        /\ \A p \in Projects(stored) : stored.projects[p] \in Seq(PageIds)
    BY <2>3 DEF Projects
  <2> QED
    BY <1>2, <2>4, ListedValidates DEF Load, Loadable
<1> QED
  BY <1>1, <1>2

LEMMA WithProjectListed ==
  ASSUME IsStore(store), Listed(store), NEW p \in ProjectIds \ Projects(store)
  PROVE  Listed(WithProject(p))
<1> DEFINE s == WithProject(p)
<1>1. /\ Projects(s) = Projects(store) \cup {p} /\ Pages(s) = Pages(store)
      /\ s.pages = store.pages
      /\ s.projects[p] = <<>>
      /\ \A q \in Projects(store) : q # p /\ s.projects[q] = store.projects[q]
  BY DEF IsStore, WithProject, Projects, Pages
<1>2. s.projects[p] \in Seq(PageIds) /\ IsInjective(s.projects[p])
      /\ ToSet(s.projects[p]) = {}
  BY <1>1 DEF IsInjective, ToSet
<1> HIDE DEF s
<1>3. Listed(s)
  BY <1>1, <1>2 DEF Listed
<1> QED
  BY <1>3 DEF s

LEMMA WithoutProjectListed ==
  ASSUME IsStore(store), Listed(store), NEW p \in Projects(store)
  PROVE  Listed(WithoutProject(p))
<1> DEFINE s == WithoutProject(p)
<1>1. /\ Projects(s) = Projects(store) \ {p}
      /\ Pages(s) = {x \in Pages(store) : store.pages[x].project # p}
      /\ \A q \in Projects(s) : s.projects[q] = store.projects[q]
      /\ \A x \in Pages(s) : s.pages[x] = store.pages[x]
  BY DEF IsStore, WithoutProject, Projects, Pages, Restrict
<1> HIDE DEF s
<1>2. Listed(s)
  BY <1>1 DEF Listed
<1> QED
  BY <1>2 DEF s

LEMMA WithoutPageListed ==
  ASSUME IsStore(store), Listed(store), NEW x \in Pages(store)
  PROVE  Listed(WithoutPage(x))
<1> DEFINE s == WithoutPage(x)
<1>1. /\ Projects(s) = Projects(store) /\ Pages(s) = Pages(store) \ {x}
      /\ \A q \in Projects(s) : s.projects[q] = Without(store.projects[q], x)
      /\ \A y \in Pages(s) : s.pages[y] = store.pages[y]
  BY DEF IsStore, WithoutPage, Projects, Pages, Restrict
<1> HIDE DEF s
<1>2. \A q \in Projects(s) :
        /\ s.projects[q] \in Seq(PageIds) /\ IsInjective(s.projects[q])
        /\ ToSet(s.projects[q]) = ToSet(store.projects[q]) \ {x}
  BY <1>1, ShortenedList DEF Listed
<1>3. ASSUME NEW q \in Projects(s), NEW y \in ToSet(s.projects[q])
      PROVE  y \in Pages(s) /\ s.pages[y].project = q
  <2>1. q \in Projects(store) /\ y \in ToSet(store.projects[q]) /\ y # x
    BY <1>1, <1>2
  <2>2. y \in Pages(store) /\ store.pages[y].project = q
    BY <2>1 DEF Listed
  <2> QED
    BY <1>1, <2>1, <2>2
<1>4. ASSUME NEW y \in Pages(s)
      PROVE  /\ s.pages[y].project \in Projects(s)
             /\ y \in ToSet(s.projects[s.pages[y].project])
  <2> DEFINE q == store.pages[y].project
  <2>1. /\ y \in Pages(store) /\ y # x /\ s.pages[y].project = q
        /\ q \in Projects(store) /\ y \in ToSet(store.projects[q])
    BY <1>1 DEF Listed
  <2> HIDE DEF q
  <2>2. y \in ToSet(s.projects[q])
    BY <1>1, <1>2, <2>1
  <2> QED
    BY <1>1, <2>1, <2>2
<1>5. Listed(s)
  BY <1>1, <1>2, <1>3, <1>4 DEF Listed
<1> QED
  BY <1>5 DEF s

LEMMA WithUrlListed ==
  ASSUME IsStore(store), Listed(store), NEW x \in Pages(store), NEW u \in Urls
  PROVE  Listed(WithUrl(x, u))
<1> DEFINE s == WithUrl(x, u)
<1>1. s = [projects |-> store.projects,
           pages |-> [store.pages EXCEPT ![x].url = u]]
  BY DEF WithUrl, IsStore
<1>2. /\ s.projects = store.projects
      /\ s.pages = [store.pages EXCEPT ![x].url = u]
  BY <1>1
<1> HIDE DEF s
<1>3. /\ Projects(s) = Projects(store) /\ Pages(s) = Pages(store)
      /\ \A y \in Pages(s) : s.pages[y].project = store.pages[y].project
  BY <1>2 DEF Projects, Pages, IsStore, Table, Page
<1>4. Listed(s)
  BY <1>2, <1>3 DEF Listed
<1> QED
  BY <1>4 DEF s

LEMMA WithPageListed ==
  ASSUME IsStore(store), Listed(store), NEW x \in PageIds \ Pages(store),
         NEW p \in Projects(store), NEW u \in Urls
  PROVE  Listed(WithPage(x, p, u))
<1> DEFINE s == WithPage(x, p, u)
<1>1. /\ Projects(s) = Projects(store) /\ Pages(s) = Pages(store) \cup {x}
      /\ s.projects[p] = Append(store.projects[p], x)
      /\ \A q \in Projects(s) \ {p} : s.projects[q] = store.projects[q]
      /\ s.pages[x].project = p
      /\ \A y \in Pages(store) : s.pages[y] = store.pages[y]
  BY DEF IsStore, WithPage, Table, Projects, Pages
<1> HIDE DEF s
<1>2. x \notin ToSet(store.projects[p])
  BY DEF Listed
<1>3. /\ s.projects[p] \in Seq(PageIds) /\ IsInjective(s.projects[p])
      /\ ToSet(s.projects[p]) = ToSet(store.projects[p]) \cup {x}
  BY <1>1, <1>2, AppendedList DEF Listed
<1>4. ASSUME NEW q \in Projects(s)
      PROVE  /\ s.projects[q] \in Seq(PageIds) /\ IsInjective(s.projects[q])
             /\ \A y \in ToSet(s.projects[q]) :
                  y \in Pages(s) /\ s.pages[y].project = q
  <2>1. CASE q = p
    <3>1. \A y \in ToSet(store.projects[p]) :
            y \in Pages(store) /\ store.pages[y].project = p
      BY DEF Listed
    <3> QED
      BY <1>1, <1>3, <2>1, <3>1
  <2>2. CASE q # p
    <3>1. /\ q \in Projects(store) /\ s.projects[q] = store.projects[q]
          /\ \A y \in ToSet(store.projects[q]) :
               y \in Pages(store) /\ store.pages[y].project = q
      BY <1>1, <2>2 DEF Listed
    <3> QED
      BY <1>1, <3>1 DEF Listed
  <2> QED
    BY <2>1, <2>2
<1>5. ASSUME NEW y \in Pages(s)
      PROVE  /\ s.pages[y].project \in Projects(s)
             /\ y \in ToSet(s.projects[s.pages[y].project])
  <2>1. CASE y = x
    BY <1>1, <1>3, <2>1
  <2>2. CASE y # x
    <3> DEFINE q == store.pages[y].project
    <3>1. /\ s.pages[y].project = q /\ q \in Projects(store)
          /\ y \in ToSet(store.projects[q])
      BY <1>1, <2>2 DEF Listed
    <3> HIDE DEF q
    <3>2. y \in ToSet(s.projects[q])
      BY <1>1, <1>3, <3>1
    <3> QED
      BY <1>1, <3>1, <3>2
  <2> QED
    BY <2>1, <2>2
<1>6. Listed(s)
  BY <1>1, <1>4, <1>5 DEF Listed
<1> QED
  BY <1>6 DEF s

LEMMA MovedListed ==
  ASSUME IsStore(store), Listed(store), NEW x \in Pages(store),
         NEW p \in Projects(store), store.pages[x].project # p
  PROVE  Listed(Moved(x, p))
<1> DEFINE s == Moved(x, p)
           owner == store.pages[x].project
<1>1. /\ Projects(s) = Projects(store) /\ Pages(s) = Pages(store)
      /\ s.projects[p] = Append(store.projects[p], x)
      /\ s.projects[owner] = Without(store.projects[owner], x)
      /\ \A q \in Projects(s) \ {p, owner} : s.projects[q] = store.projects[q]
      /\ s.pages[x].project = p
      /\ \A y \in Pages(store) \ {x} : s.pages[y] = store.pages[y]
  BY DEF IsStore, Moved, Table, Projects, Pages, Page, Listed
<1>2. owner \in Projects(store) /\ x \in PageIds
  BY DEF Listed, IsStore
<1>3. x \notin ToSet(store.projects[p])
  BY DEF Listed
<1> HIDE DEF s
<1>4. /\ s.projects[p] \in Seq(PageIds) /\ IsInjective(s.projects[p])
      /\ ToSet(s.projects[p]) = ToSet(store.projects[p]) \cup {x}
  BY <1>1, <1>2, <1>3, AppendedList DEF Listed
<1>5. /\ s.projects[owner] \in Seq(PageIds) /\ IsInjective(s.projects[owner])
      /\ ToSet(s.projects[owner]) = ToSet(store.projects[owner]) \ {x}
  BY <1>1, <1>2, ShortenedList DEF Listed
<1>6. ASSUME NEW q \in Projects(s)
      PROVE  /\ s.projects[q] \in Seq(PageIds) /\ IsInjective(s.projects[q])
             /\ \A y \in ToSet(s.projects[q]) :
                  y \in Pages(s) /\ s.pages[y].project = q
  <2>1. CASE q = p
    <3>1. \A y \in ToSet(store.projects[p]) :
            y \in Pages(store) /\ store.pages[y].project = p
      BY DEF Listed
    <3>2. \A y \in ToSet(s.projects[p]) : y \in Pages(s) /\ s.pages[y].project = p
      BY <1>1, <1>3, <1>4, <3>1
    <3> QED
      BY <1>4, <2>1, <3>2
  <2>2. CASE q = owner
    <3>1. \A y \in ToSet(s.projects[q]) : y \in ToSet(store.projects[q]) /\ y # x
      BY <1>5, <2>2
    <3> QED
      BY <1>1, <1>2, <1>5, <2>2, <3>1 DEF Listed
  <2>3. CASE q # p /\ q # owner
    <3>1. /\ s.projects[q] = store.projects[q]
          /\ \A y \in ToSet(store.projects[q]) : y \in Pages(store) /\ y # x
      BY <1>1, <2>3 DEF Listed
    <3> QED
      BY <1>1, <3>1 DEF Listed
  <2> QED
    BY <2>1, <2>2, <2>3
<1>7. ASSUME NEW y \in Pages(s)
      PROVE  /\ s.pages[y].project \in Projects(s)
             /\ y \in ToSet(s.projects[s.pages[y].project])
  <2>1. CASE y = x
    BY <1>1, <1>4, <2>1
  <2>2. CASE y # x
    <3> DEFINE q == store.pages[y].project
    <3>1. /\ s.pages[y].project = q /\ q \in Projects(store)
          /\ y \in ToSet(store.projects[q])
      BY <1>1, <2>2 DEF Listed
    <3> HIDE DEF q
    <3>2. y \in ToSet(s.projects[q])
      <4>1. CASE q = p
        BY <1>4, <3>1, <4>1
      <4>2. CASE q = owner
        BY <1>5, <2>2, <3>1, <4>2
      <4>3. CASE q # p /\ q # owner
        BY <1>1, <3>1, <4>3
      <4> QED
        BY <4>1, <4>2, <4>3
    <3> QED
      BY <1>1, <3>1, <3>2
  <2> QED
    BY <2>1, <2>2
<1>8. Listed(s)
  BY <1>1, <1>6, <1>7 DEF Listed
<1> QED
  BY <1>8 DEF s

\* A step that saves nothing.
LEMMA NothingSaved ==
  ASSUME LoadsAgain, UNCHANGED <<store, writable>>
  PROVE  LoadsAgain'
BY DEF LoadsAgain, Listed, Projects, Pages

\* A step that saves a store of a service that may write.
LEMMA Saved ==
  ASSUME LoadsAgain, writable, UNCHANGED writable, NEW s, Listed(s), store' = s
  PROVE  LoadsAgain'
BY DEF LoadsAgain, Listed, Projects, Pages

LEMMA LoadsAgainKept ==
  TabsInv /\ LoadsAgain /\ [ProjectsNext]_projectVars => LoadsAgain'
<1> SUFFICES ASSUME TabsInv, LoadsAgain, [ProjectsNext]_projectVars
             PROVE  LoadsAgain'
  OBVIOUS
<1>0. IsStore(store) /\ Listed(store)
  BY DEF TabsInv, LoadsAgain
<1>1. CASE UNCHANGED projectVars
  BY <1>1, NothingSaved DEF projectVars
<1>2. ASSUME NEW p \in ProjectIds, CreateProject(p)
      PROVE  LoadsAgain'
  <2>1. p \in ProjectIds \ Projects(store)
    BY <1>2 DEF CreateProject, FreshProjects
  <2>2. /\ writable /\ UNCHANGED writable
        /\ store' = WithProject(p)
    BY <1>2 DEF CreateProject
  <2> QED
    BY <1>0, <2>1, <2>2, WithProjectListed, Saved
<1>3. ASSUME NEW p \in ProjectIds, DeleteProject(p)
      PROVE  LoadsAgain'
  BY <1>0, <1>3, WithoutProjectListed, Saved DEF DeleteProject, Save
<1>4. ASSUME NEW x \in PageIds, RemovePage(x)
      PROVE  LoadsAgain'
  BY <1>0, <1>4, WithoutPageListed, Saved DEF RemovePage, Save
<1>5. ASSUME NEW t \in Tabs, NEW p \in ProjectIds, AttachNew(t, p)
      PROVE  LoadsAgain'
  <2>1. PICK x \in FreshPages : store' = WithPage(x, p, url[t])
    BY <1>5 DEF AttachNew
  <2>2. /\ x \in PageIds \ Pages(store) /\ p \in Projects(store)
        /\ url[t] \in Urls /\ writable /\ UNCHANGED writable
    BY <1>5 DEF AttachNew, FreshPages, TabsInv
  <2> QED
    BY <1>0, <2>1, <2>2, WithPageListed, Saved
<1>6. ASSUME NEW w \in Windows, ConfirmMove(w)
      PROVE  LoadsAgain'
  <2> DEFINE d == dialogs[w]
  <2>1. CASE UNCHANGED <<store, writable>>
    BY <2>1, NothingSaved
  <2>2. CASE /\ MayAttach(d) /\ store' = Moved(d.page, d.project)
             /\ store.pages[d.page].project # d.project /\ UNCHANGED writable
    <3>1. /\ writable /\ d.project \in Projects(store)
          /\ d.page \in Pages(store)
      BY <2>2 DEF MayAttach
    <3> QED
      BY <1>0, <2>2, <3>1, MovedListed, Saved
  <2> QED
    BY <1>6, <2>1, <2>2 DEF ConfirmMove
<1>7. ASSUME NEW t \in Tabs, NEW u \in Urls \cup {None}, Navigate(t, u)
      PROVE  LoadsAgain'
  <2>1. CASE UNCHANGED <<store, writable>>
    BY <2>1, NothingSaved
  <2>2. CASE /\ writable /\ page[t] \in Pages(store) /\ u \in Urls
             /\ store' = WithUrl(page[t], u) /\ UNCHANGED writable
    BY <1>0, <2>2, WithUrlListed, Saved
  <2> QED
    BY <1>7, <2>1, <2>2 DEF Navigate
<1>8. ASSUME NEW t, NEW w, NEW p, NEW x, NEW u,
             \/ AskToMove(t, p) \/ Dismiss(w) \/ NewTab(t, w, u)
             \/ RestoreTab(t, w) \/ Insert(t, w) \/ OpenPage(x, w, t)
             \/ Detach(t) \/ CloseTab(t)
      PROVE  LoadsAgain'
  <2>1. UNCHANGED <<store, writable>>
    BY <1>8 DEF AskToMove, Dismiss, NewTab, RestoreTab, Insert, OpenPage,
                Detach, CloseTab
  <2> QED
    BY <2>1, NothingSaved
<1> QED
  BY <1>1, <1>2, <1>3, <1>4, <1>5, <1>6, <1>7, <1>8
     DEF ProjectsNext, ProjectStep

\* Whatever is created, attached, moved, navigated and removed, the projects
\* that are saved would validate when they are loaded again, so that the next
\* run may write; and tabs and confirmations keep their kinds
\* (ProjectService::Load and every Save).
THEOREM ProjectsTyped == ProjectsSpec => []ProjectsTypeOK
<1>1. ProjectsInit => LoadsAgain
  <2> SUFFICES ASSUME ProjectsInit PROVE LoadsAgain
    OBVIOUS
  <2>1. PICK stored \in Stored :
          store = Load(stored) /\ writable = Loadable(stored)
    BY DEF ProjectsInit
  <2>2. Loadable(stored) \in BOOLEAN
    BY DEF Loadable
  <2>3. writable \in BOOLEAN /\ (~writable => store = Empty)
    BY <2>1, <2>2 DEF Load
  <2> QED
    BY <2>1, <2>3, LoadedIsListed DEF LoadsAgain
<1>2. TabsInv /\ LoadsAgain => ProjectsTypeOK
  <2> SUFFICES ASSUME TabsInv, LoadsAgain PROVE ProjectsTypeOK
    OBVIOUS
  <2>1. ProjectStoreTypeOK
    BY ListedValidates DEF TabsInv, IsStore, LoadsAgain, Listed, ProjectStoreTypeOK
  <2> QED
    BY <2>1 DEF TabsInv, ProjectsTypeOK
<1>3. TabsInv /\ LoadsAgain /\ [ProjectsNext]_projectVars => LoadsAgain'
  BY LoadsAgainKept
<1> QED
  BY TabsInductive, <1>1, <1>2, <1>3, PTL DEF ProjectsSpec

=============================================================================
