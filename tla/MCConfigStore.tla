--------------------------- MODULE MCConfigStore ---------------------------
(* Two configurations with the same id, one with another version of the    *)
(* name, and one that is not valid.                                        *)
EXTENDS ConfigReaders, TLC

MCStates == {"a", "b"}
MCEventNames == {"x"}
MCEventIds == {"1"}

Cfg(version, start, to) ==
  [name |-> "n", version |-> version, states |-> <<"a">>, startingState |-> start,
   transitions |-> <<[from |-> "a", event |-> "x", to |-> to]>>]

MCRequests == {Cfg("v", "a", "a"), Cfg("v", "a", "b"), Cfg("w", "a", "a"), Cfg("v", "b", "b")}

MCNoFaults == {}
MCFaults == {"read", "index", "write", "late", "deadline", "crash",
             "list", "get", "send"}

Q(method, name, id) == [method |-> method, name |-> name, id |-> id]

MCQueries ==
  {Q("StreamAllConfigurations", "n", NoConfig), Q("StreamAllConfigurations", "", NoConfig),
   Q("GetAllConfigurations", "", NoConfig), Q("GetAllConfigurations", "n", NoConfig),
   Q("GetConfiguration", "", <<"n", "v">>)}

Symmetry == Permutations(Calls)
=============================================================================
