----------------------------- MODULE StoreCalls -----------------------------
(***************************************************************************)
(* The calls that write state machines to the store, shared by the         *)
(* abstract store and the Redis one: TxProcessEvent (one call per event a  *)
(* listener receives, in any server that shares the Redis) and the gRPC    *)
(* method PutFiniteStateMachine.  All machines here belong to one          *)
(* configuration name, of which there may be several versions.             *)
(***************************************************************************)
EXTENDS Configurations

CONSTANTS Ids,         \* identifiers of state machines
          EventCalls,  \* calls of TxProcessEvent
          PutCalls,    \* calls of PutFiniteStateMachine
          Events,      \* the events that may be processed
          PutRequests, \* the machines that may be put
          Config,      \* the stored configurations, by their version id
          NoFsm        \* stands for a key that does not exist

Calls == EventCalls \cup PutCalls

ASSUME CallsAssumption == EventCalls \cap PutCalls = {}
ASSUME EventsAssumption == Events \subseteq Event
ASSUME PutRequestsAssumption == PutRequests \subseteq FiniteStateMachine
ASSUME ConfigAssumption ==
  /\ DOMAIN Config \subseteq STRING \X STRING
  /\ \A v \in DOMAIN Config : Config[v] \in Configuration
ASSUME NoFsmAssumption == NoFsm \notin FiniteStateMachine

\* PutFiniteStateMachine replaces an empty state by the starting state.
StateOrDefault(f) ==
  IF f.state = Unset THEN [f EXCEPT !.state = Config[f.configId].startingState] ELSE f
=============================================================================
