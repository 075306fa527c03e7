----------------------- MODULE ConfiguredStateMachine -----------------------
(***************************************************************************)
(* One ConfiguredStateMachine of pkg/api/fsm.go: created from a            *)
(* configuration, driven by SendEvent, cleared by Reset.                   *)
(***************************************************************************)
EXTENDS Configurations

CONSTANTS NoFsm,      \* stands for the absence of a machine
          Configs,    \* the configurations a caller may create a machine from
          Events,     \* the events a caller may send
          MaxHistory  \* bound: no event is sent to a machine with this history

ASSUME NoFsmAssumption == NoFsm \notin FiniteStateMachine
ASSUME ConfigsAssumption == Configs \subseteq Configuration
ASSUME EventsAssumption == Events \subseteq Event
ASSUME MaxHistoryAssumption == MaxHistory \in Nat

VARIABLES Config, \* the configuration
          FSM     \* NoFsm until NewStateMachine returns a machine

vars == <<Config, FSM>>

TypeOK ==
  /\ Config \in Configs
  /\ FSM \in FiniteStateMachine \cup {NoFsm}

-----------------------------------------------------------------------------
Init == Config \in Configs /\ FSM = NoFsm

\* A configuration with no name or no version is a MalformedConfigurationError:
\* no machine is returned.  The configuration is not otherwise validated.
NewStateMachine ==
  /\ FSM = NoFsm
  /\ Config.name # Unset /\ Config.version # Unset
  /\ FSM' = [configId |-> GetVersionId(Config),
             state |-> Config.startingState, history |-> <<>>]
  /\ UNCHANGED Config

\* When the configuration Rejects the event, SendEvent returns
\* UnexpectedTransitionError and this machine takes no step.
SendEvent(evt) ==
  /\ FSM # NoFsm
  /\ Len(FSM.history) < MaxHistory
  /\ \E k \in DOMAIN Config.transitions :
       /\ Fires(Config, FSM.state, evt.event, k)
       /\ FSM' = Moved(FSM, evt, Config.transitions[k])
  /\ UNCHANGED Config

\* Mutant: Reset goes back to the starting state and keeps the history.
ResetKeepsHistory ==
  /\ FSM # NoFsm
  /\ FSM' = [FSM EXCEPT !.state = Config.startingState]
  /\ UNCHANGED Config

Reset ==
  /\ FSM # NoFsm
  /\ FSM' = [FSM EXCEPT !.state = Config.startingState, !.history = <<>>]
  /\ UNCHANGED Config

Next ==
  \/ NewStateMachine
  \/ \E evt \in Events : SendEvent(evt)
  \/ Reset

Spec == Init /\ [][Next]_vars

-----------------------------------------------------------------------------
\* ConfiguredStateMachine.CheckValid
MachineCheckValid ==
  /\ CheckValid(Config)
  /\ CfgHasState(Config, FSM.state)
  /\ FSM.configId = GetVersionId(Config)

\* The History is a path: it leaves the starting state, every entry starts
\* where the one before it ended, and the last one ends in the current State.
HistoryIsPath ==
  FSM # NoFsm =>
    LET h == FSM.history IN
    IF h = <<>> THEN FSM.state = Config.startingState
    ELSE /\ h[1].from = Config.startingState
         /\ h[Len(h)].to = FSM.state
         /\ \A i \in 1 .. Len(h) - 1 : h[i].to = h[i + 1].from

\* Every entry of the History is the transition that is declared first among
\* those with its origin and event, so that replaying the events of a History
\* on a new machine leads to the same State.
HistoryIsDeterministic ==
  FSM # NoFsm =>
    \A i \in DOMAIN FSM.history :
      LET e == FSM.history[i]
          same == {k \in DOMAIN Config.transitions :
                     /\ Config.transitions[k].from = e.from
                     /\ Config.transitions[k].event = e.event}
      IN \E k \in same : /\ \A j \in same : k <= j
                         /\ e.to = Config.transitions[k].to

\* A machine created from a valid configuration, whose transitions only lead
\* to declared states, stays valid whatever events it is sent and whenever it
\* is Reset: CheckValid keeps returning true.
ClosedStaysValid ==
  FSM # NoFsm /\ CheckValid(Config) /\ Closed(Config) => MachineCheckValid
=============================================================================
