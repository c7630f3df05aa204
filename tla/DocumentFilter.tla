---------------------------- MODULE DocumentFilter ----------------------------
(***************************************************************************)
(* Generic cosmetic filtering of one frame: the script that looks for the  *)
(* class and id names of a document (generic_cosmetic.js), the worker that *)
(* knows the selectors for them (document_engine.cc) and the agent between *)
(* the two (document_filter_agent.cc).  The script examines the elements   *)
(* the page adds or changes a few at a time, when the renderer is idle,    *)
(* has one batch of names at the worker, and replaces a queue that is full *)
(* by one walk through the document.                                       *)
(*                                                                         *)
(* The document is the list of its elements in document order: nesting,    *)
(* the other sources of style and the selectors themselves are left out,   *)
(* and an element has at most one class name; ids are looked up alike.     *)
(***************************************************************************)
EXTENDS Naturals, SequencesExt

CONSTANTS
  Elements,
  Names,
  Root,         \* document.documentElement, which has no name
  MaxWork,      \* how many nodes `work` holds (256)
  MaxSteps,     \* budget of one flush (512)
  MaxBatch,     \* names in one batch (256)
  MaxSeen,      \* names after which the seen ones are forgotten (10000)
  MaxDocuments, \* how many documents the frame loads
  MaxPageSteps  \* how often the page changes

ASSUME DocumentAssumption ==
  /\ Root \notin Elements /\ "start" \notin Elements \cup {Root}
  /\ {MaxWork, MaxSteps, MaxBatch} \subseteq Nat \ {0}
  /\ {MaxSeen, MaxDocuments, MaxPageSteps} \subseteq Nat

VARIABLES
  document,  \* the number of the frame's document
  dom,       \* its elements in order
  name,      \* the class name of each element, or NoName
  enabled,   \* EnabledForFrame
  installed, \* the script runs in this document
  work,      \* the queue: where each walk starts and where it is
  scheduled, \* a flush is waiting for the renderer to be idle
  rescan,    \* the queue was full
  inFlight,  \* a batch is at the worker
  seen,      \* seenClasses, seenIds
  batches,   \* batches at the worker and their replies, in order
  styled,    \* names whose selectors were inserted in this document
  tried,     \* names of this document that were handed to the agent
  cut,       \* the page removed the element at which a walk rested
  pageSteps

scriptVars == <<work, scheduled, rescan, inFlight, seen>>
documentVars == <<document, dom, name, enabled, installed, scriptVars, batches,
                  styled, tried, cut, pageSteps>>

NoName == "" \* of an element without a class

Connected == ToSet(dom)
NamesOf(nodes) == {name[e] : e \in Connected \cap nodes} \ {NoName}
Nameless == [e \in Elements |-> NoName]

\* A queued node: `at` is "start" until the node itself was examined.
Item(node) == [root |-> node, at |-> "start"]

-----------------------------------------------------------------------------
(* The script *)

EnqueueOrDrop(node) ==
  /\ work' = IF Len(work) < MaxWork THEN Append(work, Item(node)) ELSE work
  /\ UNCHANGED rescan
  /\ scheduled' = (scheduled \/ ~inFlight)

\* enqueue and schedule.
Enqueue(node) ==
  /\ IF Len(work) < MaxWork
       THEN work' = Append(work, Item(node)) /\ UNCHANGED rescan
       ELSE rescan' = TRUE /\ UNCHANGED work
  /\ scheduled' = (scheduled \/ ~inFlight)

\* TreeWalker.nextNode, a sequence of one node or none: from a node that is not
\* in the document any more there is no way on.
NextNode(node) ==
  IF node = Root THEN SubSeq(dom, 1, Min({1, Len(dom)}))
  ELSE LET after == {i \in DOMAIN dom : i > 1 /\ dom[i - 1] = node}
       IN  IF after = {} THEN <<>> ELSE <<dom[CHOOSE i \in after : TRUE]>>

\* Where a queued node's walk comes to, a sequence of one node or none: to the
\* node itself, then, from the document's root, to each further one.
Onward(item) ==
  IF item.at = "start" THEN <<item.root>>
  ELSE IF item.root = Root THEN NextNode(item.at)
  ELSE <<>>

\* One turn of the loop in flush.
Turn(s) ==
  LET item == Head(s.work)
      to == Onward(item)
  IN  IF to = <<>> THEN [s EXCEPT !.work = Tail(@)]
      ELSE LET node == to[1]
               new == NamesOf({node}) \ s.seen
           IN  [work |-> <<[item EXCEPT !.at = node]>> \o Tail(s.work),
                seen |-> s.seen \cup new,
                batch |-> s.batch \cup new]

Stops(s) == s.work = <<>> \/ Cardinality(s.batch) >= MaxBatch

Turns[k \in 0..MaxSteps] ==
  IF k = 0 THEN [work |-> work, seen |-> seen, batch |-> {}]
  ELSE IF Stops(Turns[k - 1]) THEN Turns[k - 1] ELSE Turn(Turns[k - 1])

\* flush.  __yeeApplyGeneric refuses the batch when the site is excepted.
Flush ==
  LET end == Turns[MaxSteps]
      posted == end.batch # {} /\ enabled
      queue == IF end.work = <<>> /\ rescan THEN <<Item(Root)>> ELSE end.work
  IN  /\ scheduled
      /\ inFlight' = IF end.batch = {} THEN inFlight ELSE enabled
      /\ batches' = IF posted
                      THEN Append(batches, [document |-> document,
                                            names |-> end.batch])
                      ELSE batches
      /\ tried' = tried \cup end.batch
      /\ seen' = IF Cardinality(end.seen) > MaxSeen THEN {} ELSE end.seen
      /\ rescan' = (rescan /\ end.work # <<>>)
      /\ work' = queue
      /\ scheduled' = (queue # <<>> /\ ~inFlight')
      /\ UNCHANGED <<document, dom, name, enabled, installed, styled, cut,
                     pageSteps>>

-----------------------------------------------------------------------------
(* The agent *)

\* The document a reply is for is still there: a new one invalidates the weak
\* pointers of the agent.
Current(batch) == batch.document = document

\* __yeeGenericComplete
GenericComplete ==
  /\ inFlight' = FALSE
  /\ scheduled' = (scheduled \/ work # <<>> \/ rescan)

\* The selectors of the oldest batch arrive, for a site that may have been
\* excepted meanwhile.
InsertGenericSelectors ==
  /\ batches # <<>>
  /\ batches' = Tail(batches)
  /\ IF Current(Head(batches))
       THEN /\ styled' = IF enabled THEN styled \cup Head(batches).names
                         ELSE styled
            /\ GenericComplete
       ELSE UNCHANGED <<styled, inFlight, scheduled>>
  /\ UNCHANGED <<document, dom, name, enabled, installed, work, rescan, seen,
                 tried, cut, pageSteps>>

\* DidCreateNewDocument and Apply: the script starts in a world of its own.
NewDocument ==
  /\ document < MaxDocuments
  /\ document' = document + 1
  /\ dom' = <<>>
  /\ name' = Nameless
  /\ installed' = enabled
  /\ work' = IF enabled THEN <<Item(Root)>> ELSE <<>>
  /\ scheduled' = enabled
  /\ rescan' = FALSE
  /\ inFlight' = FALSE
  /\ seen' = {}
  /\ styled' = {}
  /\ tried' = {}
  /\ cut' = FALSE
  /\ UNCHANGED <<enabled, batches, pageSteps>>

-----------------------------------------------------------------------------
(* The page and the user *)

Observed(e) ==
  IF installed THEN Enqueue(e) ELSE UNCHANGED <<work, rescan, scheduled>>

\* A new element, or one that was taken out before.
PageAdds(e, i, n) ==
  /\ e \notin Connected
  /\ dom' = InsertAt(dom, i, e)
  /\ name' = [name EXCEPT ![e] = n]
  /\ Observed(e)
  /\ UNCHANGED cut

PageRenames(e, n) ==
  /\ e \in Connected /\ name[e] # n
  /\ name' = [name EXCEPT ![e] = n]
  /\ Observed(e)
  /\ UNCHANGED <<dom, cut>>

\* The observer is told of a removal and enqueues nothing.
PageRemoves(i) ==
  /\ dom' = RemoveAt(dom, i)
  /\ name' = [name EXCEPT ![dom[i]] = NoName]
  /\ cut' = (cut \/ \E k \in DOMAIN work :
                     work[k] = [root |-> Root, at |-> dom[i]])
  /\ UNCHANGED <<work, rescan, scheduled>>

\* The user changes the site's setting, as often as they like.
SetSite ==
  /\ enabled' = ~enabled
  /\ UNCHANGED <<document, dom, name, installed, scriptVars, batches, styled,
                 tried, cut, pageSteps>>

PageStep ==
  /\ pageSteps < MaxPageSteps
  /\ pageSteps' = pageSteps + 1
  /\ \/ \E e \in Elements, i \in 1..(Len(dom) + 1), n \in Names \cup {NoName} :
          PageAdds(e, i, n)
     \/ \E e \in Elements, n \in Names \cup {NoName} : PageRenames(e, n)
     \/ \E i \in DOMAIN dom : PageRemoves(i)
  /\ UNCHANGED <<document, enabled, installed, inFlight, seen, batches,
                 styled, tried>>

-----------------------------------------------------------------------------
DocumentInit ==
  /\ document = 0
  /\ dom = <<>>
  /\ name = Nameless
  /\ enabled \in BOOLEAN
  /\ installed = FALSE
  /\ work = <<>>
  /\ scheduled = FALSE
  /\ rescan = FALSE
  /\ inFlight = FALSE
  /\ seen = {}
  /\ batches = <<>>
  /\ styled = {}
  /\ tried = {}
  /\ cut = FALSE
  /\ pageSteps = 0

DocumentNext ==
  \/ Flush
  \/ InsertGenericSelectors
  \/ NewDocument
  \/ PageStep
  \/ SetSite

DocumentSpec == DocumentInit /\ [][DocumentNext]_documentVars

-----------------------------------------------------------------------------
(* Properties *)

(* The kinds of the script's and the agent's state; the document's order is *)
(* one of distinct elements and the queue stays within its number (work).  *)
DocumentTypeOK ==
  /\ document \in 0..MaxDocuments
  /\ Connected \subseteq Elements /\ IsInjective(dom)
  /\ name \in [Elements -> Names \cup {NoName}]
  /\ \A i \in DOMAIN work : /\ work[i].root \in Elements \cup {Root}
                            /\ work[i].at \in Elements \cup {Root, "start"}
  /\ Len(work) <= MaxWork
  /\ {enabled, installed, scheduled, rescan, inFlight, cut} \subseteq BOOLEAN
  /\ seen \cup styled \cup tried \subseteq Names

(* The script never stops while it has something to examine, and never has *)
(* two batches at the worker: it has one exactly when it waits for one, and *)
(* a reply for an earlier document of the frame wakes nothing and styles    *)
(* nothing ("One worker batch per document", flush).                        *)
BatchIsCarried ==
  /\ work # <<>> \/ rescan => scheduled \/ inFlight
  /\ ~(scheduled /\ inFlight)
  /\ Cardinality({i \in DOMAIN batches : batches[i].document = document})
       = IF inFlight THEN 1 ELSE 0
  /\ styled \subseteq tried

\* The script has nothing left to examine.
Quiet == installed /\ work = <<>> /\ ~rescan

(* Once the script has nothing left to do, the name of every element that   *)
(* is in the document was handed to the agent, whatever was added, renamed, *)
(* removed and moved meanwhile and however often the queue was full, unless *)
(* the page removed the very element at which a walk rested (the overflow   *)
(* rescan and the forgotten names of flush).                                *)
NothingMissed == Quiet /\ ~cut => NamesOf(Elements) \subseteq tried

(* The examination of a page goes on until every name in it was handed to   *)
(* the agent (flush, the observer's callback, the agent's completion).      *)
NamesAreExamined == BatchIsCarried /\ NothingMissed
=============================================================================
