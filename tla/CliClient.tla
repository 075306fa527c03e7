----------------------------- MODULE CliClient -----------------------------
(***************************************************************************)
(* The command line client, fsm-cli, and the health probe, run against the *)
(* server of EventPipeline.  `fsm-cli send` of an event calls SendEvent    *)
(* and then polls GetEventOutcome; the two share one deadline.             *)
(*                                                                         *)
(* Each process g makes the gRPC call g of EventPipeline, if its command   *)
(* is to send an event.  What the server does for the other commands is in *)
(* ConfigReaders and FsmStreams: here it answers them or returns an error. *)
(***************************************************************************)
EXTENDS EventPipeline

CONSTANTS PollRetries, \* MaxRetries of the client
          Commands     \* what the processes may be started with
\* Faults may also hold "ca" (the client cannot read its CA file), "expires"
\* (its deadline), "ping" (Redis does not answer the server) and "lookup" (a
\* read of an outcome fails).

AllCommands == {"event", "put", "get", "version", "probe", "invalid"}

ASSUME ClientAssumption == PollRetries \in Nat \ {0} /\ Commands \subseteq AllCommands

VARIABLES
  command, \* the command of each process; "invalid" is one that the client
           \* refuses: an unknown command, kind or version, an id it cannot
           \* split, a file it cannot read or that has no spec
  cli,     \* where the process is
  remain,  \* the polls that remain
  shown,   \* the outcome or the health that it printed
  exit,    \* its exit code: 0, 1, or 2 for a panic
  cut      \* auxiliary: processes whose call of SendEvent got no answer

client == <<command, cli, remain, shown, exit, cut>>
allVars == <<vars, client>>

CliTypeOK ==
  /\ command \in [Grpc -> Commands]
  /\ cli \in [Grpc -> {"new", "health", "run", "sent", "poll", "ended"}]
  /\ remain \in [Grpc -> 0 .. PollRetries]
  /\ shown \in [Grpc -> Errors \cup {"none", "Ok", "READY", "NOT_READY"}]
  /\ exit \in [Grpc -> {"none", "ok", "error", "panic"}]
  /\ cut \subseteq Grpc

CliInit ==
  /\ Init
  /\ command \in [Grpc -> Commands]
  /\ cli = [g \in Grpc |-> "new"]
  /\ remain = [g \in Grpc |-> PollRetries]
  /\ shown = [g \in Grpc |-> "none"]
  /\ exit = [g \in Grpc |-> "none"]
  /\ cut = {}

-----------------------------------------------------------------------------
CliGoes(g, from, to) == cli[g] = from /\ cli' = [cli EXCEPT ![g] = to]

Ended(g, from, code) == CliGoes(g, from, "ended") /\ exit' = [exit EXCEPT ![g] = code]

Prints(g, s) == shown' = [shown EXCEPT ![g] = s]

\* NewClient panics without a CA.  Dial does not wait for the connection.
Connect(g) ==
  /\ \/ CliGoes(g, "new", "health") /\ UNCHANGED exit
     \/ "ca" \in Faults /\ command[g] # "probe" /\ Ended(g, "new", "panic")
  /\ UNCHANGED <<vars, command, remain, shown, cut>>

\* RedisStore.Health: whether Redis answers a PING.
StoreHealth == {"nil"} \cup (IF "ping" \in Faults THEN {"error"} ELSE {})

\* What Health answers when the server has a store and an events channel, as
\* startGrpcServer sees to.
HealthStates == {IF err = "nil" THEN "READY" ELSE "NOT_READY" : err \in StoreHealth}

\* main starts with a call of Health.  Only the `version` command looks at the
\* state, to print it.  An invalid command is found out after it; the file of
\* an event without a spec is a panic.
Health(g) ==
  /\ Serving
  /\ \/ /\ command[g] = "version"
        /\ \E s \in HealthStates : Prints(g, s)
        /\ Ended(g, "health", "ok")
     \/ /\ command[g] = "invalid"
        /\ \E code \in {"error", "panic"} : Ended(g, "health", code)
        /\ UNCHANGED shown
     \/ /\ command[g] \in {"event", "put", "get"}
        /\ CliGoes(g, "health", "run")
        /\ UNCHANGED <<shown, exit>>
  /\ UNCHANGED <<vars, command, remain, cut>>

\* The health probe prints the state, and succeeds whatever it is.
Probe(g) ==
  /\ Serving
  /\ command[g] = "probe"
  /\ \E s \in HealthStates : Prints(g, s)
  /\ Ended(g, "health", "ok")
  /\ UNCHANGED <<vars, command, remain, cut>>

\* There is no server, or the probe's deadline has passed.
HealthFails(g) ==
  /\ ~Serving \/ (command[g] = "probe" /\ "expires" \in Faults)
  /\ Ended(g, "health", "error")
  /\ UNCHANGED <<vars, command, remain, shown, cut>>

\* A call whose error, whatever it is, is printed and is exit code 1.
Call(g, cmd) ==
  /\ command[g] = cmd
  /\ \/ Serving /\ Ended(g, "run", "ok")
     \/ Ended(g, "run", "error")
  /\ UNCHANGED <<vars, command, remain, shown, cut>>

\* `send` of a configuration or of a state machine: PutConfiguration and
\* PutFiniteStateMachine.
Put(g) == Call(g, "put")

\* `get`: GetConfiguration and GetFiniteStateMachine.
Get(g) == Call(g, "get")

(* sendEvent                                                               *)

CliSendEvent(g) ==
  /\ command[g] = "event"
  /\ SendEvent(g)
  /\ CliGoes(g, "run", "sent")
  /\ UNCHANGED <<command, remain, shown, exit, cut>>

CannotSend(g) ==
  /\ command[g] = "event"
  /\ ~Serving
  /\ Ended(g, "run", "error")
  /\ UNCHANGED <<vars, command, remain, shown, cut>>

Accepted(g) ==
  /\ grpc[g] = "accepted"
  /\ CliGoes(g, "sent", "poll")
  /\ UNCHANGED <<vars, command, remain, shown, exit, cut>>

\* Mutant: the error of SendEvent is not looked at.
RefusedUnchecked(g) ==
  /\ grpc[g] \in {"refused", "timeout"}
  /\ CliGoes(g, "sent", "poll")
  /\ UNCHANGED <<vars, command, remain, shown, exit, cut>>

Refused(g) ==
  /\ grpc[g] \in {"refused", "timeout"}
  /\ Ended(g, "sent", "error")
  /\ UNCHANGED <<vars, command, remain, shown, cut>>

\* The deadline passes or the server ends before the answer arrives.
CutOff(g) ==
  /\ ~Up \/ grpc[g] = "broken" \/ "expires" \in Faults
  /\ Ended(g, "sent", "error")
  /\ cut' = cut \cup {g}
  /\ UNCHANGED <<vars, command, remain, shown>>

\* Mutant: the code of a response without an outcome is read, which is Ok.
GetOutcomeUnset(g) ==
  /\ Serving
  /\ Prints(g, IF outcome[g] = "none" THEN "Ok" ELSE outcome[g])
  /\ Ended(g, "poll", "ok")
  /\ UNCHANGED <<vars, command, remain, cut>>

\* GetEventOutcome returns the outcome: Send prints it and its code, and ends
\* with exit code 0 whatever the code is.
GetOutcome(g) ==
  /\ Serving /\ outcome[g] # "none"
  /\ Prints(g, outcome[g])
  /\ Ended(g, "poll", "ok")
  /\ UNCHANGED <<vars, command, remain, cut>>

\* Mutant: after the last poll sendEvent returns the error.
GiveUp(g) ==
  /\ Serving /\ (outcome[g] = "none" \/ "lookup" \in Faults)
  /\ remain' = [remain EXCEPT ![g] = @ - 1]
  /\ IF remain'[g] > 0 THEN CliGoes(g, "poll", "poll") /\ UNCHANGED exit
     ELSE Ended(g, "poll", "error")
  /\ UNCHANGED <<vars, command, shown, cut>>

\* GetEventOutcome returns NotFound for any error: the client sleeps and polls
\* again.  After the last poll sendEvent returns no response and no error, and
\* Send reads the Outcome of a nil response.
OutcomeNotFound(g) ==
  /\ Serving /\ (outcome[g] = "none" \/ "lookup" \in Faults)
  /\ remain' = [remain EXCEPT ![g] = @ - 1]
  /\ IF remain'[g] > 0 THEN CliGoes(g, "poll", "poll") /\ UNCHANGED exit
     ELSE Ended(g, "poll", "panic")
  /\ UNCHANGED <<vars, command, shown, cut>>

\* Mutant: after any other error the client polls again.
PollFailsRetried(g) ==
  /\ ~Serving \/ "expires" \in Faults
  /\ CliGoes(g, "poll", "poll")
  /\ UNCHANGED <<vars, command, remain, shown, exit, cut>>

\* Any other error of the poll ends the loop in the same way.
PollFails(g) ==
  /\ ~Serving \/ "expires" \in Faults
  /\ Ended(g, "poll", "panic")
  /\ UNCHANGED <<vars, command, remain, shown, cut>>

CliStep(g) ==
  \/ Health(g) \/ Probe(g) \/ HealthFails(g) \/ Put(g) \/ Get(g)
  \/ CliSendEvent(g) \/ CannotSend(g)
  \/ Accepted(g) \/ Refused(g) \/ CutOff(g)
  \/ GetOutcome(g) \/ OutcomeNotFound(g) \/ PollFails(g)

CliNext ==
  \/ ServerStep /\ UNCHANGED client
  \/ \E g \in Grpc : Connect(g) \/ CliStep(g)

CliSpec == CliInit /\ [][CliNext]_allVars

\* A process that has started goes on.  A call of SendEvent ends because the
\* listener takes the event (Fairness of EventPipeline).
CliFairSpec ==
  CliSpec /\ Fairness /\ \A g \in Grpc : WF_allVars(CliStep(g))

-----------------------------------------------------------------------------
\* The outcome that `fsm-cli send` prints is the outcome of this event, and
\* stays it, also if the server crashes meanwhile; a printed Ok is one that
\* moved the machine.
ShownIsOutcome ==
  \A g \in Grpc : command[g] = "event" /\ shown[g] # "none" =>
    shown[g] = outcome[g] /\ (shown[g] = "Ok" => applied[g] > 0)

\* An error of `fsm-cli send` means that the event was not and will not be
\* processed, so that it can be sent again, unless SendEvent got no answer.
ErrorMeansUnprocessed ==
  \A g \in Grpc \ cut : exit[g] = "error" =>
    g \notin taken /\ applied[g] = 0 /\ outcome[g] = "none"

\* When the polls run out, or one of them fails, the client panics: its event
\* was accepted all the same, and sending it again would be sending it twice.
PanicMeansAccepted == \A g \in Grpc : exit[g] = "panic" /\ grpc[g] # "new" => g \in taken

\* Every invocation of the client ends.
ClientsEnd == \A g \in Grpc : cli[g] # "new" ~> cli[g] = "ended"
=============================================================================
