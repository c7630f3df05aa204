-------------------------- MODULE AgentClientProofs --------------------------
(***************************************************************************)
(* The fence of the client holds for any number of processes and requests: *)
(* the inductive invariant of AgentClient and what follows from it.        *)
(***************************************************************************)
EXTENDS AgentClient, TLAPS

Told == {"nothing", "over", "failed", "unknown"}

\* What is archived is the final answer of its request, and a persisted answer
\* in the mailbox is the archived one.
Truthful ==
  /\ \A i \in Ids : archive[i] # Nil =>
       /\ archive[i].id = i
       /\ told[i] # "nothing"
       /\ archive[i].settled => told[i] \in Settled
  /\ response # Nil /\ response.persisted => archive[response.id] = response

\* A process that has gone past the journal works on the journaled request.
HolderFences ==
  \A c \in Clients :
    /\ at[c] \in {"journaled", "waiting", "settled"} =>
         journal # Nil /\ journal = mine[c]
    /\ at[c] = "settled" => told[mine[c]] \in Settled

ClientInv ==
  /\ ClientTypeOK
  /\ told \in [Ids -> Told]
  /\ Truthful
  /\ HolderFences
  /\ FenceCovers
  /\ ReportIsArchived

LEMMA ReplyType ==
  ASSUME NEW i \in Ids, NEW final, NEW ok \in BOOLEAN,
         NEW persisted \in BOOLEAN
  PROVE  /\ Reply(i, final, ok, persisted) \in Answer
         /\ Reply(i, final, ok, persisted).id = i
         /\ Reply(i, final, ok, persisted).persisted = persisted
         /\ Reply(i, final, ok, persisted).settled => final \in Settled
<1>1. Settles(final) \in BOOLEAN
  BY DEF Settles
<1> QED  BY <1>1 DEF Reply, Answer, Settles

LEMMA InitHolds == ClientInit => ClientInv
<1> SUFFICES ASSUME ClientInit PROVE ClientInv
  OBVIOUS
<1> USE DEF ClientInit, Promise!Init
<1>1. ClientTypeOK
  <2>1. /\ response \in Answer \cup {Nil}
        /\ archive \in [Ids -> Answer \cup {Nil}]
    <3>1. CASE archive = [i \in Ids |-> Nil] /\ response = Nil
      BY <3>1
    <3>2. ASSUME NEW ok \in BOOLEAN, request # Nil,
                 archive = [i \in Ids |-> IF i = request
                              THEN Reply(i, "over", ok, TRUE) ELSE Nil],
                 response = archive[request]
          PROVE  response \in Answer \cup {Nil}
                 /\ archive \in [Ids -> Answer \cup {Nil}]
      <4>1. \A i \in Ids : Reply(i, "over", ok, TRUE) \in Answer
        BY ReplyType
      <4> QED  BY <3>2, <4>1
    <3> QED  BY <3>1, <3>2
  <2> QED  BY <2>1 DEF ClientTypeOK, Commands, Places
<1>2. told \in [Ids -> Told] /\ Truthful
  BY DEF Told, Truthful, Reply, Settles, Settled
<1>3. HolderFences /\ FenceCovers /\ ReportIsArchived
  BY DEF HolderFences, FenceCovers, ReportIsArchived
<1> QED  BY <1>1, <1>2, <1>3 DEF ClientInv

(***************************************************************************)
(* The client's processes.  None of their actions touches the answers or   *)
(* what the bridge has done.                                               *)
(***************************************************************************)
LEMMA AnswersKept ==
  ASSUME told \in [Ids -> Told], Truthful,
         UNCHANGED <<archive, response, told>>
  PROVE  told' \in [Ids -> Told] /\ Truthful'
BY DEF Truthful

LEMMA BeginKeeps ==
  ASSUME ClientInv, NEW c \in Clients, NEW cmd \in Commands,
         NEW kept \in Ids \cup {Nil}, Begin(c, cmd, kept)
  PROVE  ClientInv'
<1> USE DEF ClientInv, Begin, Go, bridgeVars, fileVars, processVars
<1>1. ClientTypeOK'
  BY ClientAssumption DEF ClientTypeOK, Commands, Places
<1>2. told' \in [Ids -> Told] /\ Truthful'
  BY AnswersKept
<1>3. HolderFences'
  BY ClientAssumption DEF ClientTypeOK, HolderFences, Places
<1>4. FenceCovers'
  BY ClientAssumption DEF ClientTypeOK, FenceCovers, HolderFences
<1>5. ReportIsArchived'
  BY DEF ClientTypeOK, ReportIsArchived
<1> QED  BY <1>1, <1>2, <1>3, <1>4, <1>5

LEMMA FailsKeeps ==
  ASSUME ClientInv, NEW c \in Clients, Fails(c)
  PROVE  ClientInv'
<1> USE DEF ClientInv, Fails, Leave, Go, bridgeVars, fileVars, processVars
<1>1. ClientTypeOK'
  BY ClientAssumption DEF ClientTypeOK, Commands, Places
<1>2. told' \in [Ids -> Told] /\ Truthful'
  BY AnswersKept
<1>3. HolderFences'
  BY ClientAssumption DEF ClientTypeOK, HolderFences, Places
<1>4. FenceCovers'
  BY ClientAssumption DEF ClientTypeOK, FenceCovers, HolderFences
<1>5. ReportIsArchived'
  BY DEF ClientTypeOK, ReportIsArchived
<1> QED  BY <1>1, <1>2, <1>3, <1>4, <1>5

LEMMA AdoptOrphanKeeps ==
  ASSUME ClientInv, NEW c \in Clients, AdoptOrphan(c)
  PROVE  ClientInv'
<1> USE DEF ClientInv, AdoptOrphan, Orphan, Leave, Go,
            bridgeVars, fileVars, processVars
<1>1. ClientTypeOK'
  BY ClientAssumption DEF ClientTypeOK, Commands, Places
<1>2. told' \in [Ids -> Told] /\ Truthful'
  BY AnswersKept
<1>3. HolderFences'
  BY ClientAssumption DEF ClientTypeOK, HolderFences, Places
<1>4. FenceCovers'
  BY ClientAssumption DEF ClientTypeOK, FenceCovers, HolderFences
<1>5. ReportIsArchived'
  BY DEF ClientTypeOK, ReportIsArchived
<1> QED  BY <1>1, <1>2, <1>3, <1>4, <1>5

LEMMA RecoverJournalKeeps ==
  ASSUME ClientInv, NEW c \in Clients, RecoverJournal(c)
  PROVE  ClientInv'
<1> USE DEF ClientInv, RecoverJournal, Go, bridgeVars, fileVars, processVars
<1>1. ClientTypeOK'
  BY ClientAssumption DEF ClientTypeOK, Commands, Places
<1>2. told' \in [Ids -> Told] /\ Truthful'
  BY AnswersKept
<1>3. HolderFences'
  BY ClientAssumption DEF ClientTypeOK, HolderFences, Places
<1>4. FenceCovers'
  BY ClientAssumption DEF ClientTypeOK, FenceCovers, HolderFences
<1>5. ReportIsArchived'
  BY DEF ClientTypeOK, ReportIsArchived
<1> QED  BY <1>1, <1>2, <1>3, <1>4, <1>5

LEMMA RecoverRetainedKeeps ==
  ASSUME ClientInv, NEW c \in Clients, RecoverRetained(c)
  PROVE  ClientInv'
<1> USE DEF ClientInv, RecoverRetained, Orphan, Go,
            bridgeVars, fileVars, processVars
<1>1. ClientTypeOK'
  BY ClientAssumption DEF ClientTypeOK, Commands, Places
<1>2. told' \in [Ids -> Told] /\ Truthful'
  BY AnswersKept
<1>3. HolderFences'
  BY ClientAssumption DEF ClientTypeOK, HolderFences, Places
<1>4. FenceCovers'
  BY ClientAssumption DEF ClientTypeOK, FenceCovers, HolderFences
<1>5. ReportIsArchived'
  BY DEF ClientTypeOK, ReportIsArchived
<1> QED  BY <1>1, <1>2, <1>3, <1>4, <1>5

LEMMA JournalKeeps ==
  ASSUME ClientInv, NEW c \in Clients, NEW i \in Ids, Journal(c, i)
  PROVE  ClientInv'
<1> USE DEF ClientInv, Journal, Orphan, Go, bridgeVars, fileVars, processVars
<1>1. ClientTypeOK'
  BY ClientAssumption DEF ClientTypeOK, Commands, Places
<1>2. told' \in [Ids -> Told] /\ Truthful'
  BY AnswersKept
<1>3. HolderFences'
  BY ClientAssumption DEF ClientTypeOK, HolderFences, Places
<1>4. FenceCovers'
  BY ClientAssumption DEF ClientTypeOK, FenceCovers, HolderFences
<1>5. ReportIsArchived'
  BY DEF ClientTypeOK, ReportIsArchived
<1> QED  BY <1>1, <1>2, <1>3, <1>4, <1>5

LEMMA PublishKeeps ==
  ASSUME ClientInv, NEW c \in Clients, Publish(c)
  PROVE  ClientInv'
<1> USE DEF ClientInv, Publish, Go, bridgeVars, fileVars, processVars
<1>1. ClientTypeOK'
  BY ClientAssumption DEF ClientTypeOK, Commands, Places, HolderFences
<1>2. told' \in [Ids -> Told] /\ Truthful'
  BY AnswersKept
<1>3. HolderFences'
  BY ClientAssumption DEF ClientTypeOK, HolderFences, Places
<1>4. FenceCovers'
  BY ClientAssumption DEF ClientTypeOK, FenceCovers, HolderFences
<1>5. ReportIsArchived'
  BY DEF ClientTypeOK, ReportIsArchived
<1> QED  BY <1>1, <1>2, <1>3, <1>4, <1>5

LEMMA AnsweredKeeps ==
  ASSUME ClientInv, NEW c \in Clients, Answered(c)
  PROVE  ClientInv'
<1> DEFINE answer == Seen(c)
<1> USE DEF ClientInv
<1>1. /\ answer \in Answer /\ mine[c] \in Ids
      /\ answer.persisted => archive[mine[c]] = answer
  BY DEF Answered, Seen, ClientTypeOK, Truthful, HolderFences
<1>2. answer.persisted /\ answer.settled => told[mine[c]] \in Settled
  BY <1>1 DEF Answered, Truthful
<1>3. \/ /\ answer.persisted /\ answer.settled
         /\ at' = [at EXCEPT ![c] = "settled"]
         /\ reported' = [reported EXCEPT ![mine[c]] = answer]
         /\ UNCHANGED <<lock, command, mine>>
      \/ Leave(c) /\ UNCHANGED reported
  BY <1>1 DEF Answered, Uncertain, Go, Answer
<1>4. at[c] = "waiting" /\ UNCHANGED <<fileVars, published, bridgeVars>>
  BY DEF Answered
<1> HIDE DEF answer
<1> USE DEF Leave, Go, bridgeVars, fileVars
<1>5. ClientTypeOK'
  <2>1. \A d \in Clients : d # c => at[d] = "off"
    BY <1>4 DEF ClientTypeOK
  <2>2. "settled" \in Places /\ "off" \in Places /\ "send" \in Commands
    BY DEF Places, Commands
  <2>3. CASE Leave(c) /\ UNCHANGED reported
    BY <1>4, <2>1, <2>2, <2>3 DEF ClientTypeOK
  <2>4. CASE ~(Leave(c) /\ UNCHANGED reported)
    <3>1. /\ at' = [at EXCEPT ![c] = "settled"]
          /\ reported' = [reported EXCEPT ![mine[c]] = answer]
          /\ UNCHANGED <<lock, command, mine>>
      BY <1>3, <2>4
    <3> QED  BY <1>1, <1>4, <3>1, <2>2 DEF ClientTypeOK
  <2> QED  BY <2>3, <2>4
<1>6. told' \in [Ids -> Told] /\ Truthful'
  BY <1>4, AnswersKept
<1>7. HolderFences'
  BY <1>2, <1>3, <1>4 DEF ClientTypeOK, HolderFences
<1>8. FenceCovers'
  BY <1>4 DEF FenceCovers
<1>9. ReportIsArchived'
  BY <1>1, <1>2, <1>3, <1>4 DEF ClientTypeOK, ReportIsArchived
<1> QED  BY <1>5, <1>6, <1>7, <1>8, <1>9

LEMMA AcknowledgeKeeps ==
  ASSUME ClientInv, NEW c \in Clients, Acknowledge(c)
  PROVE  ClientInv'
<1> USE DEF ClientInv, Acknowledge, Leave, Go,
            bridgeVars, fileVars, processVars
<1>1. ClientTypeOK'
  BY ClientAssumption DEF ClientTypeOK, Commands, Places
<1>2. told' \in [Ids -> Told] /\ Truthful'
  BY AnswersKept
<1>3. HolderFences'
  BY ClientAssumption DEF ClientTypeOK, HolderFences, Places
<1>4. FenceCovers'
  BY ClientAssumption DEF ClientTypeOK, FenceCovers, HolderFences
<1>5. ReportIsArchived'
  BY DEF ClientTypeOK, ReportIsArchived
<1> QED  BY <1>1, <1>2, <1>3, <1>4, <1>5

(***************************************************************************)
(* The bridge.  None of its actions touches a process or the journal.      *)
(***************************************************************************)
LEMMA BridgeClaimsKeeps ==
  ASSUME ClientInv, BridgeClaims
  PROVE  ClientInv'
<1> USE DEF ClientInv, BridgeClaims, Promise!Admit, processVars
<1>1. ClientTypeOK'
  BY DEF ClientTypeOK
<1>2. told' \in [Ids -> Told] /\ Truthful'
  BY AnswersKept
<1>3. HolderFences' /\ FenceCovers' /\ ReportIsArchived'
  BY DEF HolderFences, FenceCovers, ReportIsArchived
<1> QED  BY <1>1, <1>2, <1>3

LEMMA BridgeRepeatsKeeps ==
  ASSUME ClientInv, BridgeRepeats
  PROVE  ClientInv'
<1> USE DEF ClientInv, BridgeRepeats, bridgeVars, processVars
<1>1. request \in Ids
  BY DEF ClientTypeOK
<1>2. /\ response' \in Answer
      /\ response'.persisted => archive[response'.id] = response'
  <2>1. CASE archive[request] # Nil
    BY <1>1, <2>1 DEF ClientTypeOK, Truthful
  <2>2. CASE archive[request] = Nil
    <3>1. PICK final : response' = Reply(request, final, FALSE, FALSE)
      BY <2>2
    <3>2. /\ Reply(request, final, FALSE, FALSE) \in Answer
          /\ Reply(request, final, FALSE, FALSE).persisted = FALSE
      BY <1>1, ReplyType
    <3> QED  BY <3>1, <3>2
  <2> QED  BY <2>1, <2>2
<1>3. ClientTypeOK'
  BY <1>2 DEF ClientTypeOK
<1>4. told' \in [Ids -> Told] /\ Truthful'
  BY <1>2 DEF Truthful
<1>5. HolderFences' /\ FenceCovers' /\ ReportIsArchived'
  BY DEF HolderFences, FenceCovers, ReportIsArchived
<1> QED  BY <1>3, <1>4, <1>5

LEMMA BridgeActsKeeps ==
  ASSUME ClientInv, NEW i \in Ids, BridgeActs(i)
  PROVE  ClientInv'
<1> USE DEF ClientInv, BridgeActs, Promise!Act, processVars, fileVars
<1>1. ClientTypeOK'
  BY DEF ClientTypeOK
<1>2. told' \in [Ids -> Told] /\ Truthful'
  BY AnswersKept
<1>3. HolderFences' /\ FenceCovers' /\ ReportIsArchived'
  BY DEF HolderFences, FenceCovers, ReportIsArchived
<1> QED  BY <1>1, <1>2, <1>3

LEMMA BridgeAnswersKeeps ==
  ASSUME ClientInv, NEW i \in Ids, NEW final \in Promise!Final,
         NEW ok \in BOOLEAN, BridgeAnswers(i, final, ok)
  PROVE  ClientInv'
<1> DEFINE answer == Reply(i, final, ok, TRUE)
<1>1. /\ answer \in Answer /\ answer.id = i
      /\ answer.settled => final \in Settled
  BY ReplyType, ZenonT(60)
<1> USE DEF ClientInv
<1>2. /\ told[i] = "nothing"
      /\ told' = [told EXCEPT ![i] = final]
      /\ archive' = [archive EXCEPT ![i] = answer]
      /\ response' \in {answer, response}
      /\ UNCHANGED <<processVars, journal, request, published, reported>>
  BY DEF BridgeAnswers, Promise!Tell, ClientTypeOK
<1>3. final \in Told \ {"nothing"}
  BY DEF Promise!Final, Told
<1> HIDE DEF answer
\* The request had no answer, so no persisted one was in the mailbox.
<1>4. archive[i] = Nil /\ reported[i] = Nil
  BY <1>2 DEF Truthful, ReportIsArchived, Settled
<1>5. ClientTypeOK'
  BY <1>1, <1>2 DEF ClientTypeOK, processVars
<1>6. told' \in [Ids -> Told] /\ Truthful'
  <2>1. told' \in [Ids -> Told]
    BY <1>2, <1>3
  <2>2. \A j \in Ids : archive'[j] # Nil =>
          /\ archive'[j].id = j
          /\ told'[j] # "nothing"
          /\ archive'[j].settled => told'[j] \in Settled
    BY <1>1, <1>2, <1>3 DEF Truthful, ClientTypeOK
  <2>3. response' # Nil /\ response'.persisted
          => archive'[response'.id] = response'
    BY <1>1, <1>2, <1>4 DEF Truthful, ClientTypeOK, Answer
  <2> QED  BY <2>1, <2>2, <2>3 DEF Truthful
<1>7. \A j \in Ids : told[j] \in Settled => told'[j] = told[j]
  BY <1>2 DEF Settled
<1>8. HolderFences'
  BY <1>2, <1>7 DEF HolderFences, ClientTypeOK, processVars
<1>9. FenceCovers'
  BY <1>2, <1>7 DEF FenceCovers, ClientTypeOK
<1>10. ReportIsArchived'
  BY <1>2, <1>4, <1>7 DEF ReportIsArchived, ClientTypeOK
<1> QED  BY <1>5, <1>6, <1>8, <1>9, <1>10

LEMMA BridgeAnswersOnlyKeeps ==
  ASSUME ClientInv, NEW i \in Ids, NEW final \in Promise!Final,
         BridgeAnswersOnly(i, final)
  PROVE  ClientInv'
<1> USE DEF ClientInv, BridgeAnswersOnly, bridgeVars, processVars
<1>1. response' \in Answer /\ ~response'.persisted
  BY ReplyType
<1>2. ClientTypeOK'
  BY <1>1 DEF ClientTypeOK
<1>3. told' \in [Ids -> Told] /\ Truthful'
  BY <1>1 DEF Truthful
<1>4. HolderFences' /\ FenceCovers' /\ ReportIsArchived'
  BY DEF HolderFences, FenceCovers, ReportIsArchived
<1> QED  BY <1>2, <1>3, <1>4

LEMMA BridgeKeeps == ClientInv /\ Bridge => ClientInv'
BY BridgeClaimsKeeps, BridgeRepeatsKeeps, BridgeActsKeeps, BridgeAnswersKeeps,
   BridgeAnswersOnlyKeeps
DEF Bridge

LEMMA ClientKeeps ==
  ASSUME ClientInv, NEW c \in Clients, Client(c)
  PROVE  ClientInv'
BY BeginKeeps, FailsKeeps, AdoptOrphanKeeps, RecoverJournalKeeps,
   RecoverRetainedKeeps, JournalKeeps, PublishKeeps, AnsweredKeeps,
   AcknowledgeKeeps
DEF Client

LEMMA StutterKeeps == ClientInv /\ UNCHANGED clientVars => ClientInv'
BY DEF ClientInv, ClientTypeOK, Truthful, HolderFences, FenceCovers,
       ReportIsArchived, clientVars, processVars, fileVars, bridgeVars

-----------------------------------------------------------------------------
(* Every reachable state satisfies the invariant: a process past the       *)
(* journal works on the journaled request, and what the mailbox says for   *)
(* good the archive says (run, WriteDurableResponse).                      *)
THEOREM ClientInductive == ClientSpec => []ClientInv
<1>1. ClientInv /\ [ClientNext]_clientVars => ClientInv'
  BY BridgeKeeps, ClientKeeps, StutterKeeps DEF ClientNext
<1> QED  BY InitHolds, <1>1, PTL DEF ClientSpec

(* For any number of client processes and requests: a published request    *)
(* that may still act is the journaled one, so that no command publishes   *)
(* next to it (yee-browser.py, run).                                       *)
THEOREM FenceHolds == ClientSpec => []FenceCovers
<1>1. ClientInv => FenceCovers
  BY DEF ClientInv
<1> QED  BY ClientInductive, <1>1, PTL

(* For any number of them, the answer a command ends with is archived,     *)
(* settled and final (yee-browser.py, run; WriteDurableResponse).          *)
THEOREM ReportHolds == ClientSpec => []ReportIsArchived
<1>1. ClientInv => ReportIsArchived
  BY DEF ClientInv
<1> QED  BY ClientInductive, <1>1, PTL

(* For any number of them, only the holder of the lock runs a command, and *)
(* journal, mailbox, archive and reports keep their kinds (run, its lock). *)
THEOREM ClientTyped == ClientSpec => []ClientTypeOK
<1>1. ClientInv => ClientTypeOK
  BY DEF ClientInv
<1> QED  BY ClientInductive, <1>1, PTL
=============================================================================
