--------------------------- MODULE Configurations ---------------------------
(***************************************************************************)
(* The pure part of pkg/api/fsm.go: what a Configuration is, when it is    *)
(* valid, which of its transitions an event fires, and what firing it does *)
(* to a FiniteStateMachine.  States may contain the empty string, since    *)
(* nothing in the code forbids a transition to it.                         *)
(***************************************************************************)
EXTENDS Naturals, Sequences

CONSTANTS States,     \* the names a state can have
          EventNames, \* the names an event can have
          EventIds    \* the identifiers of events

\* Go's empty string: a field that nobody has set.
Unset == ""

Transition == [from : States, to : States, event : EventNames]

Configuration ==
  [name : STRING, version : STRING, states : Seq(States),
   transitions : Seq(Transition), startingState : States \cup {Unset}]

\* An Event as received, and as SendEvent records it in the History, with the
\* end points of the transition it fired.
Event == [id : EventIds, event : EventNames]

HistoryEntry == [id : EventIds, event : EventNames, from : States, to : States]

\* name:version.  The pair stands for the string: the two agree as long as no
\* name contains the separator, which no check in the code ensures.
GetVersionId(c) == <<c.name, c.version>>

FiniteStateMachine ==
  [configId : STRING \X STRING, state : States \cup {Unset}, history : Seq(HistoryEntry)]

HasState(t, state) == state = t.from \/ state = t.to

CfgHasState(cfg, s) == \E i \in DOMAIN cfg.states : cfg.states[i] = s

\* Mutant: CheckValid forgets to look the starting state up among the states.
CheckValidAnyStart(c) ==
  /\ c.name # Unset
  /\ c.states # <<>>
  /\ c.startingState # Unset
  /\ \A i \in DOMAIN c.states :
       \E j \in DOMAIN c.transitions : HasState(c.transitions[j], c.states[i])

\* TRUE when CheckValid(c) returns nil; its errors differ only in wording.
CheckValid(c) ==
  /\ c.name # Unset
  /\ c.states # <<>>
  /\ c.startingState # Unset
  /\ CfgHasState(c, c.startingState)
  /\ \A i \in DOMAIN c.states :
       \E j \in DOMAIN c.transitions : HasState(c.transitions[j], c.states[i])

Matches(t, state, event) == t.from = state /\ t.event = event

\* Mutant: the loop of SendEvent lets any matching transition fire.
FiresAny(cfg, state, event, k) ==
  k \in DOMAIN cfg.transitions /\ Matches(cfg.transitions[k], state, event)

\* The loop of SendEvent stops at the first transition that matches.
Fires(cfg, state, event, k) ==
  /\ k \in DOMAIN cfg.transitions
  /\ Matches(cfg.transitions[k], state, event)
  /\ \A j \in DOMAIN cfg.transitions :
       j < k => ~Matches(cfg.transitions[j], state, event)

\* Otherwise it falls out of the loop with UnexpectedTransitionError.
Rejects(cfg, state, event) ==
  \A k \in DOMAIN cfg.transitions : ~Matches(cfg.transitions[k], state, event)

\* What SendEvent does to the machine when transition t fires for evt.
Moved(fsm, evt, t) ==
  [fsm EXCEPT
     !.state = t.to,
     !.history = Append(@, [id |-> evt.id, event |-> evt.event,
                            from |-> fsm.state, to |-> t.to])]

\* Every transition leads to a state that the configuration declares.
\* CheckValid does not ask for this.
Closed(cfg) ==
  \A i \in DOMAIN cfg.transitions : CfgHasState(cfg, cfg.transitions[i].to)
=============================================================================
