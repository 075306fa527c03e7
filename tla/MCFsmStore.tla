----------------------------- MODULE MCFsmStore -----------------------------
(* One configuration: a -x-> b, a -y-> c, b -x-> a, c -y-> "", with a      *)
(* second rule for (a, x) that is never reached.  Machines are put in the  *)
(* default state or in b, or with a configuration that does not exist.     *)
EXTENDS FsmStore, TLC

MCStates == {"a", "b", "c", ""}
MCEventNames == {"x", "y"}
MCEventIds == {"1"}
MCEvents == [id : MCEventIds, event : MCEventNames]

T(from, event, to) == [from |-> from, event |-> event, to |-> to]

MCConfig ==
  <<"n", "v">> :>
    [name |-> "n", version |-> "v", states |-> <<"a", "b", "c">>,
     transitions |-> <<T("a", "x", "b"), T("a", "y", "c"), T("b", "x", "a"),
                       T("a", "x", "c"), T("c", "y", "")>>,
     startingState |-> "a"]

Machine(version, state) ==
  [configId |-> <<"n", version>>, state |-> state, history |-> <<>>]

MCPutRequests == {Machine("v", ""), Machine("v", "b"), Machine("w", "")}
MCPutDefault == {Machine("v", "")}

MCAllFaults == {"read", "write", "index", "deadline"}
MCNoFaults == {}
=============================================================================
