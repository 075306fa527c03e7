---------------------- MODULE MCConfiguredStateMachine ----------------------
(* All configurations over two state names with at most two states and at  *)
(* most MaxTransitions transitions, the malformed and invalid ones included.*)
EXTENDS ConfiguredStateMachine, SequencesExt

CONSTANT MaxTransitions

MCStates == {"a", "b"}
MCEventNames == {"x", "y"}
MCEventIds == {"1"}

MCEvents == [id : MCEventIds, event : MCEventNames]

MCConfigs ==
  [name : {"", "n"}, version : {"", "v"},
   states : {<<>>, <<"a">>, <<"b">>, <<"a", "b">>},
   transitions : BoundedSeq([from : MCStates, to : MCStates, event : MCEventNames],
                            MaxTransitions),
   startingState : MCStates \cup {""}]
=============================================================================
