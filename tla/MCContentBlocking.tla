--------------------------- MODULE MCContentBlocking ---------------------------
(***************************************************************************)
(* The parts of content blocking: the lists a profile keeps, the requests  *)
(* of the browser, the documents of a renderer, and the settings page.     *)
(* Both filters load the lists before the sandbox is entered and do not    *)
(* read them again; requests are filtered while their settings change as   *)
(* the settings page may change them.  So a behaviour runs one of the      *)
(* parts and leaves the others where they start.                           *)
(***************************************************************************)
EXTENDS MCFilterLists, FilteringRequest, DocumentFilter, SettingsPage

CONSTANTS
  plain,   \* an address no rule is about
  dirty,   \* one that is rewritten to plain
  swapped, \* one that is replaced
  banned,  \* one that is blocked
  other    \* one of another origin, of the parent domain

VARIABLE part

site == <<"b", "a">>
parentSite == <<"a">>

MCHosts == {site, parentSite}
MCHost == [u \in Addresses |-> IF u = other THEN parentSite ELSE site]
MCRule == [u \in Addresses |-> CASE u = swapped -> "replace"
                                 [] u = banned -> "block"
                                 [] OTHER -> "allow"]
MCRewrite == [u \in Addresses |-> IF u = dirty THEN plain ELSE u]

BudgetOf(some) == [k \in Kinds |-> IF k \in DOMAIN some THEN some[k] ELSE 0]
MCBudgets ==
  {BudgetOf(some) : some \in {[file |-> 2, settings |-> 1],
                              [file |-> 3, other |-> 1],
                              [settings |-> 1, other |-> 1],
                              [settings |-> 1, flight |-> 1],
                              [lists |-> 1, flight |-> 1], [lists |-> 2]}}
MCCalls == 1..8 \* more than are ever waiting

contentVars == <<listVars, filterVars, documentVars, ownPageVars, part>>

ContentInit ==
  /\ part \in {"lists", "request", "document", "page"}
  /\ ListsInit
  /\ FilterInit
  /\ DocumentInit
  /\ SettingsPageInit
  /\ part # "lists" => state = None
  /\ part # "request" => main /\ url = plain
  /\ part # "document" => enabled
  /\ part # "page" => left = BudgetOf([lists |-> 2])

ContentNext ==
  \/ /\ part = "lists"
     /\ ListsNext
     /\ UNCHANGED <<filterVars, documentVars, ownPageVars, part>>
  \/ /\ part = "request"
     /\ FilterNext
     /\ UNCHANGED <<listVars, documentVars, ownPageVars, part>>
  \/ /\ part = "document"
     /\ DocumentNext
     /\ UNCHANGED <<listVars, filterVars, ownPageVars, part>>
  \/ /\ part = "page"
     /\ SettingsPageNext
     /\ UNCHANGED <<listVars, requestVars, changes, documentVars, part>>
  \/ part = "page" /\ PageAtRest /\ UNCHANGED contentVars

ContentSpec == ContentInit /\ [][ContentNext]_contentVars

(* The kinds of the parts' state, the bounds of their queues and lists     *)
(* among them.                                                             *)
ContentTypeOK ==
  ListsTypeOK /\ FilterTypeOK /\ DocumentTypeOK /\ SettingsPageTypeOK
=============================================================================
