---------------------------- MODULE MCFsmStreams ----------------------------
(* One configuration: a -x-> b, a -y-> c, c -y-> a.  Machines are put in   *)
(* the default state a.  The readers ask for a, for b, and for machines.   *)
EXTENDS FsmStreams, TLC

MCStates == {"a", "b", "c", ""}
MCEventNames == {"x", "y"}
MCEventIds == {"1"}
MCEvents == [id : MCEventIds, event : MCEventNames]

T(from, event, to) == [from |-> from, event |-> event, to |-> to]

MCConfig ==
  <<"n", "v">> :>
    [name |-> "n", version |-> "v", states |-> <<"a", "b", "c">>,
     transitions |-> <<T("a", "x", "b"), T("a", "y", "c"), T("c", "y", "a")>>,
     startingState |-> "a"]

MCPutRequests == {[configId |-> <<"n", "v">>, state |-> "", history |-> <<>>]}

Q(method, config, id, state) ==
  [method |-> method, config |-> config, id |-> id, state |-> state]

MCQueries ==
  {Q("StreamAllInstate", TRUE, "", s) : s \in {"a", "b", ""}} \cup
  {Q("GetAllInState", TRUE, "", "a"), Q("GetFiniteStateMachine", FALSE, "", "a"),
   Q("GetFiniteStateMachine", TRUE, "", "a"),
   Q("GetFiniteStateMachine", TRUE, CHOOSE i \in Ids : TRUE, "")}

MCFaults == {"list", "get", "send"}
=============================================================================
