-------------------- MODULE ConfiguredStateMachineProofs --------------------
(***************************************************************************)
(* The properties of ConfiguredStateMachine, for all configurations, events *)
(* and lengths of the History.  HistoryIsPath, HistoryIsDeterministic and   *)
(* ClosedStaysValid are inductive given the type invariant.                 *)
(***************************************************************************)
EXTENDS ConfiguredStateMachine, TLAPS

\* TypeOK: whatever the caller does, the machine keeps its shape.
THEOREM TypeCorrect == Spec => []TypeOK
<1>1. Init => TypeOK
  BY DEF Init, TypeOK
<1>2. TypeOK /\ [Next]_vars => TypeOK'
  <2> SUFFICES ASSUME TypeOK, [Next]_vars PROVE TypeOK'
    OBVIOUS
  <2>a. Config \in Configuration
    BY ConfigsAssumption DEF TypeOK
  <2>b. /\ Config.name \in STRING /\ Config.version \in STRING
        /\ Config.startingState \in States \cup {Unset}
    BY <2>a DEF Configuration
  <2>c. <<>> \in Seq(HistoryEntry)
    OBVIOUS
  <2>1. CASE NewStateMachine
    <3>1. GetVersionId(Config) \in STRING \X STRING
      BY <2>b DEF GetVersionId
    <3>2. FSM' \in FiniteStateMachine
      BY <2>1, <2>b, <2>c, <3>1 DEF NewStateMachine, FiniteStateMachine
    <3> QED
      BY <2>1, <3>2 DEF NewStateMachine, TypeOK
  <2>2. ASSUME NEW evt \in Events, SendEvent(evt) PROVE TypeOK'
    <3>1. PICK k \in DOMAIN Config.transitions :
            /\ Fires(Config, FSM.state, evt.event, k)
            /\ FSM' = Moved(FSM, evt, Config.transitions[k])
      BY <2>2 DEF SendEvent
    <3>2. FSM \in FiniteStateMachine /\ Config \in Configuration /\ evt \in Event
      BY <2>2, ConfigsAssumption, EventsAssumption DEF SendEvent, TypeOK
    <3>3. FSM.state = Config.transitions[k].from
      BY <3>1 DEF Fires, Matches
    <3>4. Config.transitions[k] \in Transition
      BY <3>1, <3>2 DEF Configuration, Fires
    <3>5. FSM' \in FiniteStateMachine
      <4> DEFINE t == Config.transitions[k]
                 entry == [id |-> evt.id, event |-> evt.event, from |-> FSM.state, to |-> t.to]
      <4>1. entry \in HistoryEntry /\ t.to \in States
        BY <3>2, <3>3, <3>4 DEF Event, Transition, HistoryEntry
      <4>2. FSM.history \in Seq(HistoryEntry)
        BY <3>2 DEF FiniteStateMachine
      <4>3. Append(FSM.history, entry) \in Seq(HistoryEntry)
        <5> HIDE DEF entry
        <5> QED BY <4>1, <4>2
      <4> QED
        BY <3>1, <3>2, <4>1, <4>3 DEF Moved, FiniteStateMachine
    <3> QED
      BY <2>2, <3>5 DEF SendEvent, TypeOK
  <2>3. CASE Reset
    <3>1. FSM' \in FiniteStateMachine
      BY <2>3, <2>b, <2>c DEF Reset, TypeOK, FiniteStateMachine
    <3> QED
      BY <2>3, <3>1 DEF Reset, TypeOK
  <2>4. CASE UNCHANGED vars
    BY <2>4 DEF vars, TypeOK
  <2> QED
    BY <2>1, <2>2, <2>3, <2>4 DEF Next
<1> QED
  BY <1>1, <1>2, PTL DEF Spec

\* HistoryIsPath, for every configuration: the History of a machine leads from
\* its starting state to its State, through SendEvent and Reset.
THEOREM HistoryPath == Spec => []HistoryIsPath
<1>1. Init => HistoryIsPath
  BY DEF Init, HistoryIsPath
<1>2. TypeOK /\ HistoryIsPath /\ [Next]_vars => HistoryIsPath'
  <2> SUFFICES ASSUME TypeOK, HistoryIsPath, [Next]_vars PROVE HistoryIsPath'
    OBVIOUS
  <2>1. CASE NewStateMachine
    BY <2>1 DEF NewStateMachine, HistoryIsPath
  <2>2. ASSUME NEW evt \in Events, SendEvent(evt) PROVE HistoryIsPath'
    <3> DEFINE h == FSM.history
    <3>1. PICK k \in DOMAIN Config.transitions :
            /\ Fires(Config, FSM.state, evt.event, k)
            /\ FSM' = Moved(FSM, evt, Config.transitions[k])
      BY <2>2 DEF SendEvent
    <3> DEFINE e == [id |-> evt.id, event |-> evt.event, from |-> FSM.state,
                     to |-> Config.transitions[k].to]
    <3>2. FSM \in FiniteStateMachine /\ FSM # NoFsm /\ Config' = Config
      BY <2>2 DEF SendEvent, TypeOK
    <3>3. FSM'.history = Append(h, e) /\ FSM'.state = e.to
      BY <3>1, <3>2 DEF Moved, FiniteStateMachine
    <3>4. h \in Seq(HistoryEntry) /\ e.from = FSM.state
      BY <3>2 DEF FiniteStateMachine
    <3> HIDE DEF e
    <3>5. /\ Len(Append(h, e)) = Len(h) + 1
          /\ \A i \in 1 .. Len(h) : Append(h, e)[i] = h[i]
          /\ Append(h, e)[Len(h) + 1] = e
          /\ Append(h, e) # <<>>
      BY <3>4
    <3>6. CASE h = <<>>
      BY <3>2, <3>3, <3>4, <3>5, <3>6 DEF HistoryIsPath
    <3>7. CASE h # <<>>
      <4>1. /\ h[1].from = Config.startingState
            /\ h[Len(h)].to = FSM.state
            /\ \A i \in 1 .. Len(h) - 1 : h[i].to = h[i + 1].from
        BY <3>2, <3>7 DEF HistoryIsPath
      <4>2. Len(h) \in Nat /\ Len(h) > 0
        BY <3>4, <3>7
      <4>3. \A i \in 1 .. Len(h) : Append(h, e)[i].to = Append(h, e)[i + 1].from
        BY <3>4, <3>5, <4>1, <4>2
      <4> QED
        BY <3>2, <3>3, <3>5, <4>1, <4>2, <4>3 DEF HistoryIsPath
    <3> QED
      BY <3>6, <3>7
  <2>3. CASE Reset
    BY <2>3 DEF Reset, TypeOK, FiniteStateMachine, HistoryIsPath
  <2>4. CASE UNCHANGED vars
    BY <2>4 DEF vars, HistoryIsPath
  <2> QED
    BY <2>1, <2>2, <2>3, <2>4 DEF Next
<1> QED
  BY <1>1, <1>2, TypeCorrect, PTL DEF Spec

\* HistoryIsDeterministic, for every configuration: of several transitions
\* with one origin and event, SendEvent only ever takes the first.
THEOREM HistoryDeterministic == Spec => []HistoryIsDeterministic
<1> DEFINE First(e) ==
      LET same == {k \in DOMAIN Config.transitions :
                     /\ Config.transitions[k].from = e.from
                     /\ Config.transitions[k].event = e.event}
      IN \E k \in same : /\ \A j \in same : k <= j
                         /\ e.to = Config.transitions[k].to
<1>1. Init => HistoryIsDeterministic
  BY DEF Init, HistoryIsDeterministic
<1>2. TypeOK /\ HistoryIsDeterministic /\ [Next]_vars => HistoryIsDeterministic'
  <2> SUFFICES ASSUME TypeOK, HistoryIsDeterministic, [Next]_vars
               PROVE  HistoryIsDeterministic'
    OBVIOUS
  <2>a. DOMAIN <<>> = {}
    OBVIOUS
  <2>1. CASE NewStateMachine
    <3>1. FSM'.history = <<>>
      BY <2>1 DEF NewStateMachine
    <3> QED
      BY <2>a, <3>1 DEF HistoryIsDeterministic
  <2>2. ASSUME NEW evt \in Events, SendEvent(evt) PROVE HistoryIsDeterministic'
    <3> DEFINE h == FSM.history
    <3>1. PICK k \in DOMAIN Config.transitions :
            /\ Fires(Config, FSM.state, evt.event, k)
            /\ FSM' = Moved(FSM, evt, Config.transitions[k])
      BY <2>2 DEF SendEvent
    <3> DEFINE e == [id |-> evt.id, event |-> evt.event, from |-> FSM.state,
                     to |-> Config.transitions[k].to]
    <3>2. FSM \in FiniteStateMachine /\ FSM # NoFsm /\ Config' = Config
      BY <2>2 DEF SendEvent, TypeOK
    <3>3. FSM'.history = Append(h, e) /\ h \in Seq(HistoryEntry)
      BY <3>1, <3>2 DEF Moved, FiniteStateMachine
    <3>4. First(e)
      <4>1. DOMAIN Config.transitions \subseteq Nat
        <5>1. Config \in Configuration
          BY ConfigsAssumption DEF TypeOK
        <5>2. Config.transitions \in Seq(Transition)
          BY <5>1 DEF Configuration
        <5> QED
          BY <5>2
      <4> QED
        BY <3>1, <4>1 DEF Fires, Matches
    <3>5. \A i \in DOMAIN h : First(h[i])
      BY <3>2 DEF HistoryIsDeterministic
    <3> HIDE DEF e, First
    <3>6. \A i \in DOMAIN Append(h, e) : First(Append(h, e)[i])
      BY <3>3, <3>4, <3>5
    <3> QED
      BY <3>2, <3>3, <3>6 DEF HistoryIsDeterministic, First
  <2>3. CASE Reset
    <3>1. FSM'.history = <<>>
      BY <2>3 DEF Reset, TypeOK, FiniteStateMachine
    <3> QED
      BY <2>a, <3>1 DEF HistoryIsDeterministic
  <2>4. CASE UNCHANGED vars
    BY <2>4 DEF vars, HistoryIsDeterministic
  <2> QED
    BY <2>1, <2>2, <2>3, <2>4 DEF Next
<1> QED
  BY <1>1, <1>2, TypeCorrect, PTL DEF Spec

\* ClosedStaysValid, for every configuration: if every transition of a valid
\* configuration leads to a declared state, its machines stay valid.
THEOREM ClosedValid == Spec => []ClosedStaysValid
<1>1. Init => ClosedStaysValid
  BY DEF Init, ClosedStaysValid
<1>2. TypeOK /\ ClosedStaysValid /\ [Next]_vars => ClosedStaysValid'
  <2> SUFFICES ASSUME TypeOK, ClosedStaysValid, [Next]_vars,
                      FSM' # NoFsm, CheckValid(Config'), Closed(Config')
               PROVE  MachineCheckValid'
    BY DEF ClosedStaysValid
  <2>1. CASE NewStateMachine
    BY <2>1 DEF NewStateMachine, MachineCheckValid, CheckValid
  <2>2. ASSUME NEW evt \in Events, SendEvent(evt) PROVE MachineCheckValid'
    <3>1. PICK k \in DOMAIN Config.transitions :
            FSM' = Moved(FSM, evt, Config.transitions[k])
      BY <2>2 DEF SendEvent
    <3>2. FSM \in FiniteStateMachine /\ FSM # NoFsm /\ Config' = Config
      BY <2>2 DEF SendEvent, TypeOK
    <3>3. /\ FSM'.state = Config.transitions[k].to
          /\ FSM'.configId = FSM.configId
      BY <3>1, <3>2 DEF Moved, FiniteStateMachine
    <3> QED
      BY <3>2, <3>3 DEF ClosedStaysValid, MachineCheckValid, Closed
  <2>3. CASE Reset
    <3>1. /\ FSM'.state = Config.startingState
          /\ FSM'.configId = FSM.configId
      BY <2>3 DEF Reset, TypeOK, FiniteStateMachine
    <3> QED
      BY <2>3, <3>1 DEF Reset, ClosedStaysValid, MachineCheckValid, CheckValid
  <2>4. CASE UNCHANGED vars
    BY <2>4 DEF vars, ClosedStaysValid, MachineCheckValid
  <2> QED
    BY <2>1, <2>2, <2>3, <2>4 DEF Next
<1> QED
  BY <1>1, <1>2, TypeCorrect, PTL DEF Spec
=============================================================================
