------------------------ MODULE ContentBlockingSettings ------------------------
(***************************************************************************)
(* The user's content blocking settings (content_blocking_service.cc): the *)
(* sites where blocking is off and the domains that are always blocked.    *)
(* Each change is written to the preferences, whose observer replaces the  *)
(* snapshot the matching thread reads under its lock before the call       *)
(* returns; preferences and snapshot are therefore one variable each.  The *)
(* settings page changes them (content_blocking_settings_handler.cc); a    *)
(* file of domains is parsed on a worker thread and applied when the reply *)
(* comes back.                                                             *)
(***************************************************************************)
EXTENDS FiniteSets, Sequences, Functions

CONSTANTS
  Hosts,             \* host names, each the sequence of its labels
  MaxBlockedDomains, \* kMaxBlockedDomains
  Nothing            \* no file

ASSUME SettingsAssumption ==
  /\ \A h \in Hosts : Len(h) > 0
  /\ MaxBlockedDomains \in Nat

\* There are only so many host names: CanonicalBlockedDomain lets none pass
\* that is longer than 253 characters (blocked_domains.cc).
ASSUME FiniteHosts == IsFiniteSet(Hosts)

VARIABLES
  disabled, \* disabled_hosts_: the sites that are excepted
  blocked,  \* blocked_domains_: [domain -> its subdomains are meant too]
  file      \* the file of domains being parsed, Nothing if none

settingsVars == <<disabled, blocked, file>>

Rules == UNION {[S -> BOOLEAN] : S \in SUBSET Hosts}

\* IsBlockedDomain: the host itself, or a parent whose subdomains are meant.
IsBlockedDomain(host) ==
  \E i \in 1..Len(host) :
    LET domain == SubSeq(host, i, Len(host))
    IN  domain \in DOMAIN blocked /\ (i > 1 => blocked[domain])

EnabledForSite(host) == host \notin disabled

\* Only a host the user names, never its siblings.
SetEnabledForSite(host, enabled) ==
  /\ disabled' = IF enabled THEN disabled \ {host} ELSE disabled \cup {host}
  /\ UNCHANGED <<blocked, file>>

\* The page adds a domain that is new (replace is FALSE) or changes one that
\* is there.
SetBlockedDomain(domain, subdomains, replace) ==
  /\ replace <=> domain \in DOMAIN blocked
  /\ replace \/ Cardinality(DOMAIN blocked) # MaxBlockedDomains
  /\ blocked' = [d \in DOMAIN blocked \cup {domain} |->
                   IF d = domain THEN subdomains ELSE blocked[d]]
  /\ UNCHANGED <<disabled, file>>

RemoveBlockedDomains(domains) ==
  /\ blocked' = Restrict(blocked, DOMAIN blocked \ domains)
  /\ UNCHANGED <<disabled, file>>

ReadDomainFile(rules) ==
  /\ file = Nothing
  /\ file' = rules
  /\ UNCHANGED <<disabled, blocked>>

FileTooLong(merged) == Cardinality(DOMAIN file) > MaxBlockedDomains

TooMany(merged) == Cardinality(DOMAIN merged) > MaxBlockedDomains

\* All the new domains of the file, or none when they are too many; one that is
\* listed already keeps its scope.
Merged == [d \in DOMAIN blocked \cup DOMAIN file |->
             IF d \in DOMAIN blocked THEN blocked[d] ELSE file[d]]

ImportBlockedDomains ==
  /\ file # Nothing
  /\ file' = Nothing
  /\ blocked' = IF TooMany(Merged) THEN blocked ELSE Merged
  /\ UNCHANGED disabled

\* The page is left before the file is parsed.
PageClosed ==
  /\ file # Nothing
  /\ file' = Nothing
  /\ UNCHANGED <<disabled, blocked>>

FileParsed == ImportBlockedDomains \/ PageClosed

SettingsInit ==
  /\ disabled = {}
  /\ blocked = [d \in {} |-> TRUE]
  /\ file = Nothing

UserChanges ==
  \/ \E h \in Hosts, on \in BOOLEAN : SetEnabledForSite(h, on)
  \/ \E h \in Hosts, s, r \in BOOLEAN : SetBlockedDomain(h, s, r)
  \/ \E H \in SUBSET Hosts : RemoveBlockedDomains(H)
  \/ \E f \in Rules : ReadDomainFile(f)

SettingsTypeOK ==
  /\ disabled \subseteq Hosts
  /\ blocked \in Rules
  /\ Cardinality(DOMAIN blocked) <= MaxBlockedDomains
  /\ file \in Rules \cup {Nothing}
=============================================================================
