------------------------------ MODULE AgentClient ------------------------------
(***************************************************************************)
(* The command line client of the agent bridge (yee-browser.py).  Commands *)
(* run in processes of their own that may end anywhere; they share a       *)
(* private directory with the browser: a lock, the mailbox (request.json   *)
(* and response.json), the archive of final answers, and client-pending    *)
(* .json, the journal that fences a request whose outcome is not known.    *)
(* A command whose request may still act must keep every other command     *)
(* from publishing one.                                                    *)
(*                                                                         *)
(* The bridge on the other side does whatever AgentPromise allows, which   *)
(* the module AgentBridge is shown to implement.                           *)
(***************************************************************************)
CONSTANTS
  Clients, \* processes that run a command
  Ids,     \* ids of requests
  Nil      \* no process, no request, no file

ASSUME ClientAssumption == Nil \notin Clients /\ Nil \notin Ids

VARIABLES
  lock,      \* the process that holds request.lock
  at,        \* where each process is in run
  command,   \* what it runs
  mine,      \* the request it works on, or the one an MCP host retained
  journal,   \* client-pending.json
  request,   \* request.json
  response,  \* response.json
  archive,   \* native-request-ID.result
  published, \* the requests these clients answer for
  reported,  \* the answer each request's command ended with
  admitted, acted, told \* what the bridge has done: AgentPromise

Promise == INSTANCE AgentPromise

bridgeVars == <<admitted, acted, told>>
fileVars == <<journal, request, response, archive>>
processVars == <<lock, at, command, mine>>
clientVars == <<processVars, fileVars, published, reported, bridgeVars>>

\* A named action sends an observation and then the action under one lock.
Commands == {"send", "named", "recover"}
Places == {"off", "locked", "journaled", "waiting", "settled"}
Answer == [id: Ids, ok: BOOLEAN, settled: BOOLEAN, persisted: BOOLEAN]

Settled == {"over", "failed"}

-----------------------------------------------------------------------------
(* A command *)

Go(c, place) == at' = [at EXCEPT ![c] = place]

\* The command ends with an error, or its process with a crash or a signal;
\* the system releases the lock.
Leave(c) ==
  /\ lock' = Nil
  /\ Go(c, "off")
  /\ command' = [command EXCEPT ![c] = "send"]
  /\ mine' = [mine EXCEPT ![c] = Nil]

\* acquire_lock.  An MCP host that was cut off may recover a request it kept.
Begin(c, cmd, kept) ==
  /\ at[c] = "off" /\ lock = Nil
  /\ kept # Nil => cmd = "recover" /\ kept \in published
  /\ lock' = c
  /\ Go(c, "locked")
  /\ command' = [command EXCEPT ![c] = cmd]
  /\ mine' = [mine EXCEPT ![c] = kept]
  /\ UNCHANGED <<fileVars, published, reported, bridgeVars>>

\* A timeout, a lost peer, a failed write, a refusal or the end of the process.
Fails(c) ==
  /\ at[c] # "off"
  /\ Leave(c)
  /\ UNCHANGED <<fileVars, published, reported, bridgeVars>>

\* A request in the mailbox from before the journal existed, unless it is known
\* to have succeeded.
Orphan ==
  /\ journal = Nil /\ request # Nil
  /\ ~(response # Nil /\ response.id = request /\ response.ok)

\* The orphan is journaled first; only a recovery goes on from there.
AdoptOrphan(c) ==
  /\ at[c] = "locked" /\ Orphan
  /\ journal' = request
  /\ published' = published \cup {request}
  /\ IF command[c] = "recover"
       THEN /\ mine' = [mine EXCEPT ![c] = request]
            /\ Go(c, "waiting")
            /\ UNCHANGED <<lock, command>>
       ELSE Leave(c)
  /\ UNCHANGED <<request, response, archive, reported, bridgeVars>>

\* A journaled request is never sent again: recover waits for its answer, every
\* other command is refused (Fails).
RecoverJournal(c) ==
  /\ at[c] = "locked" /\ command[c] = "recover"
  /\ journal # Nil
  /\ mine' = [mine EXCEPT ![c] = journal]
  /\ Go(c, "waiting")
  /\ UNCHANGED <<lock, command, fileVars, published, reported, bridgeVars>>

\* Without a journal a recovery takes a retained request that is over and whose
\* answer is archived.
RecoverRetained(c) ==
  /\ at[c] = "locked" /\ command[c] = "recover"
  /\ journal = Nil /\ ~Orphan
  /\ mine[c] # Nil /\ archive[mine[c]] # Nil
  /\ archive[mine[c]].settled /\ archive[mine[c]].persisted
  /\ journal' = mine[c]
  /\ Go(c, "waiting")
  /\ UNCHANGED <<lock, command, mine, request, response, archive, published,
                 reported, bridgeVars>>

\* The request is journaled before it is published, under an id of its own.
Journal(c, i) ==
  /\ at[c] = "locked" /\ command[c] # "recover"
  /\ journal = Nil /\ ~Orphan
  /\ i \notin admitted \cup published \cup {request}
  /\ \A k \in Clients : at[k] # "off" => mine[k] # i
  /\ mine' = [mine EXCEPT ![c] = i]
  /\ journal' = i
  /\ Go(c, "journaled")
  /\ UNCHANGED <<lock, command, request, response, archive, published,
                 reported, bridgeVars>>

Publish(c) ==
  /\ at[c] = "journaled"
  /\ request' = mine[c]
  /\ published' = published \cup {mine[c]}
  /\ Go(c, "waiting")
  /\ UNCHANGED <<lock, command, mine, journal, response, archive, reported,
                 bridgeVars>>

\* A recovery reads the archive first, whose answer the mailbox may have lost.
Seen(c) ==
  IF command[c] = "recover" /\ archive[mine[c]] # Nil THEN archive[mine[c]]
  ELSE response

Unsettled(answer) == ~answer.settled
Unarchived(answer) == ~answer.persisted

\* An answer that was not archived or does not settle the request leaves the
\* fence where it is.
Uncertain(answer) == ~answer.persisted \/ ~answer.settled

Answered(c) ==
  /\ at[c] = "waiting"
  /\ Seen(c) # Nil /\ Seen(c).id = mine[c]
  /\ IF Uncertain(Seen(c)) THEN Leave(c) /\ UNCHANGED reported
     ELSE /\ Go(c, "settled")
          /\ reported' = [reported EXCEPT ![mine[c]] = Seen(c)]
          /\ UNCHANGED <<lock, command, mine>>
  /\ UNCHANGED <<fileVars, published, bridgeVars>>

\* The host keeps the answer and the client its baseline before the fence
\* goes; a named action then sends its second request.
Acknowledge(c) ==
  /\ at[c] = "settled"
  /\ journal' = Nil
  /\ IF command[c] = "named" /\ reported[mine[c]].ok
       THEN /\ command' = [command EXCEPT ![c] = "send"]
            /\ Go(c, "locked")
            /\ UNCHANGED <<lock, mine>>
       ELSE Leave(c)
  /\ UNCHANGED <<request, response, archive, published, reported,
                 bridgeVars>>

-----------------------------------------------------------------------------
(* The bridge: any answer is honest, and archived before it is said *)

Settles(final) == final \in Settled

Reply(i, final, ok, persisted) ==
  [id |-> i, ok |-> ok, settled |-> Settles(final), persisted |-> persisted]

\* ReadRequest.  A new request is admitted; the process may die before it
\* deletes the file.
BridgeClaims ==
  /\ request # Nil
  /\ Promise!Admit(request)
  /\ request' \in {request, Nil}
  /\ UNCHANGED <<processVars, journal, response, archive, published, reported>>

\* A second copy is answered from the archive; without an answer there, or when
\* the claim cannot be written, the answer is one that is not persisted.
BridgeRepeats ==
  /\ request # Nil
  /\ IF archive[request] # Nil THEN response' = archive[request]
     ELSE \E final \in Promise!Final :
            response' = Reply(request, final, FALSE, FALSE)
  /\ request' = Nil
  /\ UNCHANGED <<processVars, journal, archive, published, reported,
                 bridgeVars>>

BridgeActs(i) ==
  /\ Promise!Act(i)
  /\ UNCHANGED <<processVars, fileVars, published, reported>>

\* The answer is archived, and written to the mailbox unless the process dies.
BridgeAnswers(i, final, ok) ==
  /\ Promise!Tell(i, final)
  /\ ok => final = "over"
  /\ archive' = [archive EXCEPT ![i] = Reply(i, final, ok, TRUE)]
  /\ response' \in {archive'[i], response}
  /\ UNCHANGED <<processVars, journal, request, published, reported>>

\* The archive cannot be written.
BridgeAnswersOnly(i, final) ==
  /\ i \in admitted /\ archive[i] = Nil
  /\ response' = Reply(i, final, FALSE, FALSE)
  /\ UNCHANGED <<processVars, journal, request, archive, published, reported,
                 bridgeVars>>

-----------------------------------------------------------------------------
\* A directory that is new, or one an earlier client left a request in that the
\* bridge has not seen or has answered already.
ClientInit ==
  /\ lock = Nil
  /\ at = [c \in Clients |-> "off"]
  /\ command = [c \in Clients |-> "send"]
  /\ mine = [c \in Clients |-> Nil]
  /\ journal = Nil
  /\ request \in Ids \cup {Nil}
  /\ \/ /\ Promise!Init
        /\ archive = [i \in Ids |-> Nil]
        /\ response = Nil
     \/ /\ request # Nil
        /\ admitted = {request}
        /\ acted \in SUBSET admitted
        /\ told = [i \in Ids |-> IF i = request THEN "over" ELSE "nothing"]
        /\ \E ok \in BOOLEAN :
             archive = [i \in Ids |-> IF i = request
                                      THEN Reply(i, "over", ok, TRUE) ELSE Nil]
        /\ response = archive[request]
  /\ published = {}
  /\ reported = [i \in Ids |-> Nil]

Client(c) ==
  \/ \E cmd \in Commands, kept \in Ids \cup {Nil} : Begin(c, cmd, kept)
  \/ Fails(c)
  \/ AdoptOrphan(c)
  \/ RecoverJournal(c)
  \/ RecoverRetained(c)
  \/ \E i \in Ids : Journal(c, i)
  \/ Publish(c)
  \/ Answered(c)
  \/ Acknowledge(c)

Bridge ==
  \/ BridgeClaims
  \/ BridgeRepeats
  \/ \E i \in Ids :
       \/ BridgeActs(i)
       \/ \E final \in Promise!Final :
            \/ BridgeAnswersOnly(i, final)
            \/ \E ok \in BOOLEAN : BridgeAnswers(i, final, ok)

ClientNext == Bridge \/ \E c \in Clients : Client(c)

ClientSpec == ClientInit /\ [][ClientNext]_clientVars

-----------------------------------------------------------------------------
(* The kinds of the files and the processes; only the holder of the lock   *)
(* runs (acquire_lock).                                                    *)
ClientTypeOK ==
  /\ lock \in Clients \cup {Nil}
  /\ at \in [Clients -> Places]
  /\ command \in [Clients -> Commands]
  /\ mine \in [Clients -> Ids \cup {Nil}]
  /\ journal \in Ids \cup {Nil}
  /\ request \in Ids \cup {Nil}
  /\ response \in Answer \cup {Nil}
  /\ archive \in [Ids -> Answer \cup {Nil}]
  /\ published \subseteq Ids
  /\ reported \in [Ids -> Answer \cup {Nil}]
  /\ \A c \in Clients : at[c] # "off" => lock = c

(* A request that was published and may still act is the journaled one, so *)
(* no other command publishes next to it: through crashes of either side   *)
(* between any two files, timeouts, answers that were not archived, named  *)
(* actions of two requests and recoveries (the journal written before      *)
(* request.json and unlinked only after a settled answer, run).            *)
FenceCovers == \A i \in published : told[i] \notin Settled => journal = i

(* An answer a command ends with is the archived and settled answer of its *)
(* request, which a later recovery finds again (receipt_persisted and      *)
(* execution_settled in run).                                              *)
ReportIsArchived ==
  \A i \in Ids : reported[i] # Nil =>
    archive[i] = reported[i] /\ told[i] \in Settled
=============================================================================
