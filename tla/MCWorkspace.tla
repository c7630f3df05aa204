------------------------------ MODULE MCWorkspace ------------------------------
(***************************************************************************)
(* What a window shows and what acts on it: the projects and their tabs,   *)
(* the colour of a tab, the extensions page, and the agent's client.  They *)
(* share no state: a behaviour runs one of them and leaves the others      *)
(* where they start.                                                       *)
(***************************************************************************)
EXTENDS ProjectTabs, AgentClient, BrowserSurfaceColor, ExtensionsPage, TLC

CONSTANTS home, work, third, x, y, u

VARIABLE part

OnPage(p) == [project |-> p, url |-> u]

\* No projects, three valid states, one whose page is in two projects, one
\* whose page is in none, and one of another version.
MCStored ==
  {Empty,
   [projects |-> home :> <<x>> @@ work :> <<>> @@ third :> <<>>,
    pages |-> x :> OnPage(home)],
   [projects |-> home :> <<x, y>> @@ work :> <<>>,
    pages |-> x :> OnPage(home) @@ y :> OnPage(home)],
   [projects |-> home :> <<x>> @@ work :> <<y>>,
    pages |-> x :> OnPage(home) @@ y :> OnPage(work)],
   [projects |-> home :> <<x>> @@ work :> <<x>>, pages |-> x :> OnPage(home)],
   [projects |-> home :> <<x>>,
    pages |-> x :> OnPage(home) @@ y :> OnPage(home)],
   Foreign}

\* Requests differ in nothing but their ids.
Symmetric == Permutations(Ids)

workspaceVars ==
  <<projectVars, clientVars, surfaceVars, extensionVars, part>>

\* Where a part stands in the behaviours of the others.
ProjectsStand ==
  store = Empty /\ writable /\ \A t \in Tabs : session[t] = None
SurfaceStands ==
  /\ visible /\ ~framed /\ ~waitingForLoad
  /\ {strip, meta} = {NoColor} /\ fallback = CHOOSE c \in Colors : TRUE

WorkspaceInit ==
  /\ part \in {"projects", "client", "surface", "extensions"}
  /\ ProjectsInit /\ ClientInit /\ SurfaceInit /\ ExtensionsInit
  /\ part # "projects" => ProjectsStand
  /\ part # "client" => request = Nil
  /\ part # "surface" => SurfaceStands

WorkspaceNext ==
  \/ /\ part = "projects"
     /\ ProjectsNext
     /\ UNCHANGED <<clientVars, surfaceVars, extensionVars, part>>
  \/ /\ part = "client"
     /\ ClientNext
     /\ UNCHANGED <<projectVars, surfaceVars, extensionVars, part>>
  \/ /\ part = "surface"
     /\ SurfaceNext
     /\ UNCHANGED <<projectVars, clientVars, extensionVars, part>>
  \/ /\ part = "extensions"
     /\ ExtensionsNext
     /\ UNCHANGED <<projectVars, clientVars, surfaceVars, part>>

WorkspaceSpec == WorkspaceInit /\ [][WorkspaceNext]_workspaceVars

(* The kinds of the parts' state: the stored projects would load again,    *)
(* only the holder of the client's lock runs a command, one capture of a   *)
(* tab is made at once, and no timer runs while the page is reading.       *)
WorkspaceTypeOK ==
  ProjectsTypeOK /\ ClientTypeOK /\ SurfaceTypeOK /\ ExtensionsTypeOK
=============================================================================
