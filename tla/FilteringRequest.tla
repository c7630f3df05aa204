--------------------------- MODULE FilteringRequest ---------------------------
(***************************************************************************)
(* One request of a page on its way through the browser's filter           *)
(* (filtering_url_loader_factory.cc).  The filter stands between two       *)
(* message pipes: the loader and client of the page, and the loader and    *)
(* client of the network service, whose messages arrive in order but late. *)
(* It judges the first address and the target of every redirect by the     *)
(* rules and settings of that moment, rewrites addresses, answers blocked  *)
(* requests itself and must tell the page one story, once.                 *)
(*                                                                         *)
(* What the filter rules say of an address is data: Rule and Rewrite.  The *)
(* request's own headers, the CSP it may add and its content are left out. *)
(***************************************************************************)
EXTENDS ContentBlockingSettings

CONSTANTS
  Addresses,    \* what a request may start at or be sent on to
  Host,         \* [Addresses -> Hosts]
  Origin,       \* [Addresses -> the origin of the address]
  Rule,         \* [Addresses -> {"allow", "block", "replace"}]
  Rewrite,      \* [Addresses -> Addresses], without tracking parameters
  TopSite,      \* the host of the page that asks
  MaxRedirects, \* how often the network redirects a request
  MaxChanges    \* how often the user changes a setting

ASSUME RequestAssumption ==
  /\ Host \in [Addresses -> Hosts]
  /\ Rule \in [Addresses -> {"allow", "block", "replace"}]
  /\ Rewrite \in [Addresses -> Addresses]
  /\ \A u \in Addresses : Origin[Rewrite[u]] = Origin[u]
  /\ Nothing \notin Addresses
  /\ MaxRedirects \in Nat /\ MaxChanges \in Nat

VARIABLES
  life,      \* "new", "alive", or "gone" once Destroy ran
  main,      \* the request loads the page itself (kNavigation, main frame)
  url,       \* request_.url
  awaiting,  \* awaiting_redirect_
  start,     \* start_ and deferred_factory_ are held for the first fetch
  rewritten, \* pending_rewrite_
  upstream,  \* upstream_ and upstream_client_ are bound
  writing,   \* producer_ is writing a replacement
  reported,  \* reported_blocked_request_
  net,       \* the network service: what it fetches and whether it waits
  inbox,     \* messages of the network service on their way
  sent,      \* what the page was told, in order
  redirects, \* redirects of the network so far
  changes    \* changes of the settings so far

requestVars == <<life, main, url, awaiting, start, rewritten, upstream,
                 writing, reported, net, inbox, sent, redirects>>
filterVars == <<settingsVars, requestVars, changes>>

NoFetch == [url |-> Nothing, waits |-> FALSE, to |-> Nothing]
NetStates == [url: Addresses \cup {Nothing}, waits: BOOLEAN,
              to: Addresses \cup {Nothing}]

-----------------------------------------------------------------------------
(* The judgement *)

Site(u) == IF main THEN Host[u] ELSE TopSite

\* Evaluate, at the settings of this moment.
Evaluate(u) ==
  IF ~EnabledForSite(Site(u)) THEN "allow"
  ELSE IF IsBlockedDomain(Host[u]) THEN "block"
  ELSE Rule[u]

\* RewrittenUrl: the address to use instead, Nothing to keep it.
RewrittenUrl(u) ==
  IF /\ EnabledForSite(Site(u)) /\ ~IsBlockedDomain(Host[u])
     /\ Rule[u] = "allow" /\ Rewrite[u] # u
    THEN Rewrite[u] ELSE Nothing

Or(a, b) == IF a # Nothing THEN a ELSE b

-----------------------------------------------------------------------------
(* What the filter does within one message *)

Tell(messages) == sent' = sent \o messages
Report == reported' = TRUE

\* Destroy closes every pipe.
Destroy ==
  /\ life' = "gone"
  /\ awaiting' = FALSE
  /\ start' = FALSE
  /\ rewritten' = FALSE
  /\ upstream' = FALSE
  /\ writing' = FALSE
  /\ net' = NoFetch
  /\ inbox' = <<>>
  /\ UNCHANGED <<main, redirects>>

Complete(how) ==
  /\ Tell(<<[kind |-> "complete", by |-> how]>>)
  /\ Destroy

CompleteBlocked == Complete("blocked") /\ Report /\ UNCHANGED url

KeepUpstream == UNCHANGED <<upstream, net, inbox>>

\* The network's pipes are closed, whatever is on its way in them.
DropUpstream ==
  /\ upstream' = FALSE
  /\ net' = NoFetch
  /\ inbox' = <<>>

\* A blocked request is failed, or its replacement is written.  A replacement
\* that is malformed or too large blocks it too; it is an error when the request
\* may not cross origins or no data pipe can be made.
CompleteDecision(u) ==
  /\ Report
  /\ url' = u
  /\ \/ Complete("blocked")
     \/ Evaluate(u) = "replace" /\ Complete("error")
     \/ /\ Evaluate(u) = "replace"
        /\ Tell(<<[kind |-> "response", by |-> "replacement"]>>)
        /\ DropUpstream
        /\ writing' = TRUE
        /\ awaiting' = FALSE
        /\ start' = FALSE
        /\ life' = "alive"
        /\ UNCHANGED <<main, rewritten, redirects>>

StartUpstream(u) ==
  /\ upstream' = TRUE
  /\ net' = [NoFetch EXCEPT !.url = u]
  /\ inbox' = <<>>

\* The factory and the parameters are kept for the first fetch.
Defer == start' = TRUE

\* pending_rewrite_: the next address is one the filter chose.
RewritePending(to) == rewritten \/ RewrittenUrl(to) # Nothing

\* The page is sent on to `to`, or to what `to` is rewritten to.
PassRedirect(to) ==
  LET effective == Or(RewrittenUrl(to), to)
  IN  /\ rewritten' = RewritePending(to)
      /\ url' = effective
      /\ awaiting' = TRUE
      /\ Tell(<<[kind |-> "redirect", by |-> effective]>>)

-----------------------------------------------------------------------------
(* Messages of the page *)

\* Start.  A rewritten first address is handed to the page as a redirect of the
\* filter's own; nothing is fetched before the page follows it.
StartLoader ==
  /\ life = "new"
  /\ \/ /\ Evaluate(url) # "allow"
        /\ CompleteDecision(url)
     \/ /\ Evaluate(url) = "allow" /\ RewrittenUrl(url) = Nothing
        /\ StartUpstream(url)
        /\ life' = "alive"
        /\ UNCHANGED <<main, url, awaiting, start, rewritten, writing,
                       reported, sent, redirects>>
     \/ /\ RewrittenUrl(url) # Nothing
        /\ \/ /\ Evaluate(RewrittenUrl(url)) = "block"
              /\ CompleteBlocked
           \/ /\ Evaluate(RewrittenUrl(url)) # "block"
              /\ Defer
              /\ life' = "alive"
              /\ PassRedirect(RewrittenUrl(url))
              /\ UNCHANGED <<main, upstream, writing, reported, net, inbox,
                             redirects>>
  /\ UNCHANGED <<settingsVars, changes>>

\* The network service fetches the address it is given, or the one it was
\* redirected to; another origin than that is an error of the page.
FollowUpstream(override) ==
  IF ~net.waits THEN UNCHANGED <<net, inbox>>
  ELSE IF override # Nothing /\ Origin[override] # Origin[net.to]
    THEN /\ net' = NoFetch
         /\ inbox' = Append(inbox, [kind |-> "complete", to |-> Nothing])
  ELSE /\ net' = [NoFetch EXCEPT !.url = Or(override, net.to)]
       /\ UNCHANGED inbox

FollowTrusted(target) == IF target = url THEN "allow" ELSE Evaluate(target)

\* The target is judged again: the rules may have changed since it was told.
FollowDecision(target) == Evaluate(target)

\* FollowRedirect, to the address the page was sent to or to one of its own.
FollowRedirect(new) ==
  LET target == Or(new, url)
      override == Or(RewrittenUrl(target), new)
      told == IF override = Nothing /\ rewritten THEN url ELSE override
  IN
  /\ life = "alive" /\ awaiting
  /\ \/ /\ FollowDecision(target) # "allow"
        /\ \/ new # Nothing /\ Origin[url] # Origin[target] /\ CompleteBlocked
           \/ (new = Nothing \/ Origin[url] = Origin[target])
                /\ CompleteDecision(target)
     \/ /\ FollowDecision(target) = "allow" /\ start
        /\ Origin[url] # Origin[target]
        /\ Complete("error")
        /\ UNCHANGED <<url, reported>>
     \/ /\ FollowDecision(target) = "allow" /\ start
        /\ Origin[url] = Origin[target]
        /\ url' = Or(override, target)
        /\ StartUpstream(url')
        /\ start' = FALSE
        /\ awaiting' = FALSE
        /\ UNCHANGED <<life, main, rewritten, writing, reported, sent,
                       redirects>>
     \/ /\ FollowDecision(target) = "allow" /\ ~start
        /\ awaiting' = FALSE
        /\ IF upstream
             THEN url' = Or(told, target) /\ rewritten' = FALSE
                  /\ FollowUpstream(told)
             ELSE UNCHANGED <<url, rewritten, net, inbox>>
        /\ UNCHANGED <<life, main, start, upstream, writing, reported, sent,
                       redirects>>
  /\ UNCHANGED <<settingsVars, changes>>

\* The page closes one of its pipes.
PageGone ==
  /\ life = "alive"
  /\ Destroy
  /\ UNCHANGED <<settingsVars, url, reported, sent, changes>>

-----------------------------------------------------------------------------
(* Messages of the network service *)

\* The answer the network service gives on its way out; while it waits to be
\* told to follow it can only fail.
Endings == {<<"response", "complete">>, <<"response", "disconnect">>,
            <<"complete">>, <<"disconnect">>}

NetworkRedirects(to) ==
  /\ net.url # Nothing /\ ~net.waits
  /\ redirects < MaxRedirects
  /\ redirects' = redirects + 1
  /\ net' = [net EXCEPT !.waits = TRUE, !.to = to]
  /\ inbox' = Append(inbox, [kind |-> "redirect", to |-> to])
  /\ UNCHANGED <<settingsVars, life, main, url, awaiting, start, rewritten,
                 upstream, writing, reported, sent, changes>>

NetworkEnds(ending) ==
  /\ net.url # Nothing
  /\ net.waits => Len(ending) = 1
  /\ net' = NoFetch
  /\ inbox' = inbox \o [i \in DOMAIN ending |->
                          [kind |-> ending[i], to |-> Nothing]]
  /\ UNCHANGED <<settingsVars, life, main, url, awaiting, start, rewritten,
                 upstream, writing, reported, sent, redirects, changes>>

Arrives(kind) == inbox # <<>> /\ Head(inbox).kind = kind

OnReceiveRedirect ==
  /\ Arrives("redirect")
  /\ LET to == Head(inbox).to
     IN  \/ /\ Evaluate(to) = "block"
            /\ CompleteBlocked
         \/ /\ Evaluate(to) # "block"
            /\ PassRedirect(to)
            /\ inbox' = Tail(inbox)
            /\ UNCHANGED <<life, main, start, upstream, writing, reported, net,
                           redirects>>
  /\ UNCHANGED <<settingsVars, changes>>

OnReceiveResponse ==
  /\ Arrives("response")
  /\ inbox' = Tail(inbox)
  /\ Tell(<<[kind |-> "response", by |-> "network"]>>)
  /\ UNCHANGED <<settingsVars, life, main, url, awaiting, start, rewritten,
                 upstream, writing, reported, net, redirects, changes>>

OnComplete ==
  /\ Arrives("complete")
  /\ Complete("network")
  /\ UNCHANGED <<settingsVars, url, reported, changes>>

\* The pipe to the network service, or the factory kept for a first fetch,
\* closes.
UpstreamDisconnected ==
  /\ Arrives("disconnect") \/ (life = "alive" /\ start)
  /\ Complete("network")
  /\ UNCHANGED <<settingsVars, url, reported, changes>>

ReplacementWritten ==
  /\ writing
  /\ Complete("replacement")
  /\ UNCHANGED <<settingsVars, url, reported, changes>>

-----------------------------------------------------------------------------
\* CreateLoaderAndStart: the factory's next request.
CreateLoader ==
  /\ life = "gone"
  /\ life' = "new"
  /\ main' \in BOOLEAN
  /\ url' \in Addresses
  /\ reported' = FALSE
  /\ sent' = <<>>
  /\ redirects' = 0
  /\ UNCHANGED <<settingsVars, awaiting, start, rewritten, upstream, writing,
                 net, inbox, changes>>

FilterInit ==
  /\ SettingsInit
  /\ life = "new"
  /\ main \in BOOLEAN
  /\ url \in Addresses
  /\ awaiting = FALSE
  /\ start = FALSE
  /\ rewritten = FALSE
  /\ upstream = FALSE
  /\ writing = FALSE
  /\ reported = FALSE
  /\ net = NoFetch
  /\ inbox = <<>>
  /\ sent = <<>>
  /\ redirects = 0
  /\ changes = 0

\* The user's changes are bounded; the file of one is parsed at any later time.
SettingsChange ==
  /\ \/ UserChanges /\ changes < MaxChanges /\ changes' = changes + 1
     \/ FileParsed /\ UNCHANGED changes
  /\ UNCHANGED requestVars

FilterNext ==
  \/ SettingsChange
  \/ CreateLoader
  \/ StartLoader
  \/ \E new \in Addresses \cup {Nothing} : FollowRedirect(new)
  \/ PageGone
  \/ \E to \in Addresses : NetworkRedirects(to)
  \/ \E ending \in Endings : NetworkEnds(ending)
  \/ OnReceiveRedirect
  \/ OnReceiveResponse
  \/ OnComplete
  \/ UpstreamDisconnected
  \/ ReplacementWritten

FilterSpec == FilterInit /\ [][FilterNext]_filterVars

-----------------------------------------------------------------------------
(* The kinds of the loader's members; the pipes, the deferred start and    *)
(* the replacement exclude each other (filtering_url_loader_factory.cc),   *)
(* and the blocked domains stay within their number after every change,    *)
(* an import that was parsed before other changes among them.              *)
FilterTypeOK ==
  /\ SettingsTypeOK
  /\ life \in {"new", "alive", "gone"}
  /\ url \in Addresses
  /\ net \in NetStates
  /\ awaiting => life = "alive"
  /\ start => awaiting /\ ~upstream
  /\ awaiting => start \/ upstream
  /\ writing => life = "alive" /\ ~awaiting /\ ~upstream /\ net = NoFetch
  /\ upstream \/ inbox = <<>>

\* The network service is told to fetch something.
Fetches == net' # net /\ net'.url # Nothing /\ ~net'.waits

(* Nothing is fetched but what the settings and rules of that very moment  *)
(* allow, or the rewriting of such an address, however long before the     *)
(* page was sent there and whatever changed since (FollowRedirect          *)
(* evaluates the target again).                                            *)
FetchIsAllowed ==
  [][Fetches => \E u \in Addresses :
        Evaluate(u) = "allow" /\ net'.url \in {u, RewrittenUrl(u)}]_filterVars

(* A page that follows the redirect it was sent gets what it was told, or  *)
(* its rewriting: a rewritten target reaches the network service although  *)
(* that service proposed another one (pending_rewrite_ in FollowRedirect). *)
FetchedAsTold ==
  [][FollowRedirect(Nothing) /\ Fetches =>
        net'.url = Or(RewrittenUrl(url), url)]_filterVars

(* Every fetch is one that is allowed at its moment, and one that follows  *)
(* a redirect goes where the page was sent (Start, FollowRedirect).        *)
FetchIsRight == FetchIsAllowed /\ FetchedAsTold

\* The page was told this.
Said(kind, by) == \E i \in DOMAIN sent : sent[i] = [kind |-> kind, by |-> by]

(* The page hears one story of its request, once: at most one response,    *)
(* one completion after which there is nothing, never a response of the    *)
(* network mixed with a replacement or a block, whatever is still on its   *)
(* way in the pipes; and a block or a replacement is counted for the page  *)
(* (CompleteBlocked, CompleteReplacement, OnReceiveRedirect, Destroy).     *)
OneStory ==
  /\ Cardinality({i \in DOMAIN sent : sent[i].kind = "response"}) <= 1
  /\ \A i \in DOMAIN sent : sent[i].kind = "complete" =>
        i = Len(sent) /\ life = "gone"
  /\ Said("response", "replacement") =>
        ~Said("complete", "network") /\ ~Said("complete", "blocked")
  /\ Said("complete", "replacement") => Said("response", "replacement")
  /\ Said("response", "network") =>
        \A by \in {"blocked", "replacement"} : ~Said("complete", by)
  /\ Said("complete", "blocked") \/ Said("response", "replacement")
       => reported
  /\ reported => life = "gone" \/ writing

(* A request that is alive has something that moves it on: the page is     *)
(* asked to follow a redirect, a replacement is being written, or the      *)
(* network service works for it or has answered.  A first address that was *)
(* rewritten needs the factory that was kept for it, or the page would     *)
(* wait for ever (start_, deferred_factory_).                              *)
NeverStranded ==
  life = "alive" => \/ awaiting
                    \/ writing
                    \/ inbox # <<>>
                    \/ net.url # Nothing /\ ~net.waits

(* Whatever page and network service do, and whenever a pipe breaks, the   *)
(* page hears a consistent story and its end (OneStory, NeverStranded).    *)
StoryIsTold == OneStory /\ NeverStranded
=============================================================================
