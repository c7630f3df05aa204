---------------------------- MODULE AgentLedger ----------------------------
(***************************************************************************)
(* The files of one opt-in mailbox directory and the operations of         *)
(* browser/ui/agent_request_ledger.cc on them.  The files outlive the      *)
(* browser process.  Each operator takes the part of the directory it      *)
(* reads and returns what it leaves there.  A write is "done", or          *)
(* "refused" before the file exists, or "torn": the file was created and   *)
(* writing or flushing it failed.                                          *)
(***************************************************************************)
CONSTANTS
  Ids,          \* request ids; the client never reuses one
  Nil           \* no value

NoError == "none"

(* ValidStopReason: what native-session-stop.json may say. *)
StopReasons ==
  {"user_cancelled", "user_takeover", "client_cancelled", "agent_cancelled"}

(* StopReason of a stop file that cannot be read. *)
Unreadable == "stop_state_unavailable"

(***************************************************************************)
(* ClaimAgentRequest.  Exclusive creation of native-request-<id>.claim is  *)
(* the admission point: only the call that creates and flushes it is       *)
(* fresh.  A claim that exists is answered from the archived result; any   *)
(* other claim is neither fresh nor answered.                              *)
(***************************************************************************)
ClaimIsFreshTwice(claims, id, outcome) == outcome = "done"

ClaimIsFresh(claims, id, outcome) == id \notin claims /\ outcome = "done"

ClaimsAfter(claims, id, outcome) ==
  IF outcome = "refused" THEN claims ELSE claims \cup {id}

ClaimedResponse(claims, results, id) ==
  IF id \in claims THEN results[id] ELSE Nil

(* StoreAgentResponse: one result per claimed id, never replaced. *)
CanStoreResponse(claims, results, id) == id \in claims /\ results[id] = Nil

(* StoreAgentSessionStop: the first stop file stays, readable or not. *)
StoredStop(file, reason, outcome) ==
  CASE file # NoError      -> file
    [] file = NoError /\ outcome = "done"    -> reason
    [] file = NoError /\ outcome = "refused" -> NoError
    [] file = NoError /\ outcome = "torn"    -> Unreadable

(***************************************************************************)
(* ReadAgentSessionStop: the native stop file first, else the client's     *)
(* control file, which is copied into the native one before it counts.     *)
(***************************************************************************)
StopReadForgetsFile(file, control, outcome) ==
  IF control /\ outcome = "done" THEN "client_cancelled" ELSE NoError

StopRead(file, control, outcome) ==
  CASE file # NoError                                 -> file
    [] file = NoError /\ ~control                     -> NoError
    [] file = NoError /\ control /\ outcome = "done"  -> "client_cancelled"
    [] file = NoError /\ control /\ outcome # "done"  -> Unreadable

StopFileAfterRead(file, control, outcome) ==
  IF control THEN StoredStop(file, "client_cancelled", outcome) ELSE file
=============================================================================
