---------------------------- MODULE EventLedger ----------------------------
(***************************************************************************)
(* What the server promises of the events it has received, whatever fails  *)
(* and whenever it is stopped or crashes: an event moves its machine at    *)
(* most once for each time that it was received, is stored before, and an  *)
(* event that was received once is closed by its first outcome.            *)
(***************************************************************************)
EXTENDS Naturals

CONSTANTS EventIds, Errors,
          Announces, \* whether errors are announced
          Deadlines  \* whether the store may report an error for a move it made

VARIABLES received, \* how often each event was received
          stored,   \* the events that GetEvent finds
          moves,    \* how often each event moved its machine
          told,     \* the errors that were announced
          result    \* the outcome that GetEventOutcome finds for each event

vars == <<received, stored, moves, told, result>>

Init ==
  /\ received = [e \in EventIds |-> 0]
  /\ stored = {}
  /\ moves = [e \in EventIds |-> 0]
  /\ told = {}
  /\ result = [e \in EventIds |-> "none"]

\* An event that was received once is closed by its outcome: only another delivery
\* opens it again.
Open(e) == received[e] > 0 /\ (result[e] = "none" \/ received[e] > 1)

Receive(e) ==
  /\ received' = [received EXCEPT ![e] = @ + 1]
  /\ UNCHANGED <<stored, moves, told, result>>

Store(e) ==
  /\ stored' = stored \cup {e}
  /\ UNCHANGED <<received, moves, told, result>>

Move(e) ==
  /\ e \in stored /\ moves[e] < received[e]
  /\ moves' = [moves EXCEPT ![e] = @ + 1]
  /\ UNCHANGED <<received, stored, told, result>>

Announce(e, code) ==
  /\ told' = told \cup {<<e, code>>}
  /\ UNCHANGED <<received, stored, moves, result>>

\* Ok tells of a move, and an error of a delivery that made none.
Report(e, code) ==
  /\ IF code = "Ok" THEN moves[e] > 0
     ELSE /\ Announces => <<e, code>> \in told
          /\ Deadlines \/ moves[e] < received[e]
  /\ result' = [result EXCEPT ![e] = code]
  /\ UNCHANGED <<received, stored, moves, told>>

Next ==
  \E e \in EventIds :
    \/ Receive(e)
    \/ Open(e) /\ \/ Store(e) \/ Move(e)
                  \/ \E code \in Errors : Announce(e, code)
                  \/ \E code \in Errors \cup {"Ok"} : Report(e, code)

Spec == Init /\ [][Next]_vars
=============================================================================
