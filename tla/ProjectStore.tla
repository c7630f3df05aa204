------------------------------ MODULE ProjectStore ------------------------------
(***************************************************************************)
(* The projects of a profile and the pages they refer to                   *)
(* (project_service.cc).  A page belongs to one project, which lists it.   *)
(* Every change is saved in the profile's preferences.  A stored state of  *)
(* another version, or one that does not validate, is kept as it is and    *)
(* makes the service read-only.  The operators of this module give the     *)
(* store each operation leaves.  Names, descriptions and titles are left   *)
(* out.                                                                    *)
(***************************************************************************)
EXTENDS FiniteSets, Sequences, SequencesExt, Functions

CONSTANTS
  ProjectIds, \* ids a new project may get
  PageIds,    \* ids a new page may get
  Urls,       \* addresses that may be stored (CanStorePageURL)
  Foreign,    \* a stored state of another version
  None        \* no page, no address that may be stored

ASSUME ProjectStoreAssumption == None \notin ProjectIds \cup PageIds \cup Urls

VARIABLES
  store,   \* projects_ and pages_, which Save writes
  writable \* writable_

Page == [project: ProjectIds, url: Urls]
\* What parses of a stored state of this version: pages and their projects.
IsStored(s) ==
  \E S \in SUBSET ProjectIds, X \in SUBSET PageIds :
    s \in [projects : [S -> Seq(PageIds)], pages : [X -> Page]]
Empty == [projects |-> [p \in {} |-> <<>>], pages |-> [x \in {} |-> None]]

Projects(s) == DOMAIN s.projects
Pages(s) == DOMAIN s.pages

\* Every page is in the list of its project and nowhere else, once.
Validates(s) ==
  /\ \A p \in Projects(s) :
       /\ IsInjective(s.projects[p])
       /\ \A i \in DOMAIN s.projects[p] :
            /\ s.projects[p][i] \in Pages(s)
            /\ s.pages[s.projects[p][i]].project = p
  /\ \A x \in Pages(s) :
       /\ s.pages[x].project \in Projects(s)
       /\ \E i \in DOMAIN s.projects[s.pages[x].project] :
            s.projects[s.pages[x].project][i] = x

Loadable(stored) == stored # Foreign /\ Validates(stored)

Load(stored) == IF Loadable(stored) THEN stored ELSE Empty

-----------------------------------------------------------------------------
(* The store each operation leaves *)

KeepListed(list, x) == list

\* A list has a page once (Validates).
Without(list, x) ==
  IF x \in ToSet(list)
    THEN RemoveAt(list, CHOOSE i \in DOMAIN list : list[i] = x) ELSE list

WithProject(p) ==
  [store EXCEPT !.projects = [q \in Projects(store) \cup {p} |->
                                IF q = p THEN <<>> ELSE store.projects[q]]]

WithoutProject(p) ==
  [projects |-> Restrict(store.projects, Projects(store) \ {p}),
   pages |-> Restrict(store.pages,
                      {x \in Pages(store) : store.pages[x].project # p})]

WithoutPage(x) ==
  [projects |-> [p \in Projects(store) |-> Without(store.projects[p], x)],
   pages |-> Restrict(store.pages, Pages(store) \ {x})]

WithUrl(x, u) == [store EXCEPT !.pages[x].url = u]

\* A new page at the end of its project's list.
WithPage(x, p, u) ==
  [projects |-> [store.projects EXCEPT ![p] = Append(@, x)],
   pages |-> [y \in Pages(store) \cup {x} |->
                IF y = x THEN [project |-> p, url |-> u] ELSE store.pages[y]]]

Moved(x, p) ==
  [projects |-> [q \in Projects(store) |->
                   IF q = p THEN Append(store.projects[q], x)
                   ELSE IF q = store.pages[x].project
                     THEN Without(store.projects[q], x)
                   ELSE store.projects[q]],
   pages |-> [store.pages EXCEPT ![x].project = p]]

MoveAlways(x, p, owner) == TRUE

\* AttachPage takes a page that is in p already, or one that is moved there
\* from the owner the user was shown.
MayMove(x, p, owner) == store.pages[x].project \in {p, owner}

ProjectStoreTypeOK ==
  /\ writable \in BOOLEAN
  /\ ~writable => store = Empty
  /\ Projects(store) \subseteq ProjectIds /\ Pages(store) \subseteq PageIds
  /\ Validates(store)
  /\ \A x \in Pages(store) : store.pages[x] \in Page
=============================================================================
