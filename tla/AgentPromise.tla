---------------------------- MODULE AgentPromise ----------------------------
(***************************************************************************)
(* What the agent bridge promises the client about one request, through    *)
(* crashes, restarts, second copies and lost callbacks: it is admitted at  *)
(* most once, changes a page at most once, and gets at most one final      *)
(* answer, which it never takes back and which is true.  The three files   *)
(* of a request (claim, result and response) and every member of the       *)
(* bridge are there to keep this promise.                                  *)
(***************************************************************************)
CONSTANTS Ids

VARIABLES
  admitted,     \* requests some process may execute, or has executed
  acted,        \* requests that changed a page
  told          \* the final answer of each request, as far as it promises something

vars == <<admitted, acted, told>>

(* "over": executed, and nothing more will happen.  "failed": nothing      *)
(* happened and nothing will.  "unknown": it may still take effect.        *)
Final == {"over", "failed", "unknown"}

Init == admitted = {} /\ acted = {} /\ told = [i \in Ids |-> "nothing"]

Admit(i) ==
  /\ i \notin admitted
  /\ admitted' = admitted \cup {i}
  /\ UNCHANGED <<acted, told>>

Act(i) ==
  /\ i \in admitted \ acted
  /\ told[i] \in {"nothing", "unknown"}
  /\ acted' = acted \cup {i}
  /\ UNCHANGED <<admitted, told>>

Tell(i, final) ==
  /\ i \in admitted /\ told[i] = "nothing"
  /\ final = "failed" => i \notin acted
  /\ told' = [told EXCEPT ![i] = final]
  /\ UNCHANGED <<admitted, acted>>

Next == \E i \in Ids : Admit(i) \/ Act(i) \/ \E final \in Final : Tell(i, final)

Spec == Init /\ [][Next]_vars
=============================================================================
