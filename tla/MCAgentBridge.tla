--------------------------- MODULE MCAgentBridge ---------------------------
(***************************************************************************)
(* Small instances of the agent bridge.  Each run gives Calls another set  *)
(* of requests and the bounds the room they need.                          *)
(***************************************************************************)
EXTENDS AgentBridgeProperties, TLC

CONSTANTS i1, i2, i3, t1, t2

IdSymmetry == Permutations(Ids)

-----------------------------------------------------------------------------
Rule(fill, click, navigate) == [fill |-> fill, click |-> click, navigate |-> navigate]

Plain(command) ==
  [command |-> command, valid |-> TRUE, expiry |-> "future", acts |-> {}, rules |-> Nil,
   tab |-> Nil, origin |-> "a"]

Expiring(call, expiry) == [call EXCEPT !.expiry = expiry]

AttachAsk == Plain("attach")
AttachTask == [Plain("attach") EXCEPT !.rules = Rule("deny", "allow", "allow")]
Click == [Plain("click") EXCEPT !.acts = {"click"}]
FillThenCheck == [Plain("batch") EXCEPT !.acts = {"fill", "check"}]
Go(origin) == [Plain("navigate") EXCEPT !.origin = origin]
Select(t) == [Plain("select-tab") EXCEPT !.tab = t]

-----------------------------------------------------------------------------
(* Any command after an attach with or without rules, and ways to refuse it. *)
RequestCalls ==
  {AttachAsk, AttachTask, Click, FillThenCheck, Go("a"),
   Plain("observe"), Plain("read"), Plain("scroll"), Plain("ask"),
   Plain("status"), Plain("detach"), Plain("cancel"), Plain("unknown"),
   Expiring(Plain("observe"), "past"), Expiring(AttachAsk, "invalid")}

(* Consent for one tab while another one is in front. *)
TabCalls == {AttachAsk, Select(t1)}

(* A second acting request after one whose callback was lost, around a stop *)
(* asked for by the client and the end of the process.                      *)
FenceCalls == {AttachTask, Click}

(* Requests that act or are refused, published twice, before and after the *)
(* process died.                                                           *)
CrashCalls == {AttachTask, Click, [Click EXCEPT !.valid = FALSE]}

(* A request with a prompt, and one with a script that changes the page. *)
AnswerCalls == {AttachTask, Click}

(* A wait for a change of the page after the snapshot it acknowledges. *)
WaitCalls == {AttachAsk, Plain("wait-change")}

(* The tab is attached once; the other ids are waits. *)
OneAttach ==
  Cardinality({i \in Ids : published[i] # Nil /\ published[i].call.command = "attach"}) <= 1

(* A navigation the user approved and something interrupts. *)
NavigationCalls == {AttachAsk, Go("b")}
=============================================================================
