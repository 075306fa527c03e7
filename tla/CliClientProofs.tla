-------------------------- MODULE CliClientProofs --------------------------
(***************************************************************************)
(* The safety properties of CliClient, for any number of clients, on top   *)
(* of what EventPipelineProofs shows of the server.                        *)
(***************************************************************************)
EXTENDS CliClient, EventPipelineProofs

\* Where each client is, and what its call of SendEvent has come to.
ClientOK(g) ==
  /\ cli[g] \in {"new", "health", "run"} => grpc[g] = "new"
  /\ cli[g] \in {"sent", "poll"} => command[g] = "event"
  /\ cli[g] = "poll" => g \in taken
  /\ cli[g] # "ended" => exit[g] = "none" /\ shown[g] = "none" /\ remain[g] > 0
  /\ command[g] = "event" /\ shown[g] # "none" => shown[g] = outcome[g]
  /\ exit[g] = "error" /\ g \notin cut => grpc[g] \in {"new", "refused", "timeout"}
  /\ exit[g] = "panic" => grpc[g] = "new" \/ g \in taken

ClientInv == \A g \in Grpc : ClientOK(g)

CliInv == Inv /\ CliTypeOK /\ ClientInv

\* A step of the server or of a client is one of EventPipeline, or none.
LEMMA CliNextIsNext == [CliNext]_allVars => [Next]_vars
<1> SUFFICES ASSUME [CliNext]_allVars PROVE [Next]_vars
  OBVIOUS
<1>1. CASE ServerStep
  BY <1>1 DEF Next
<1>2. ASSUME NEW g \in Grpc, Connect(g) \/ CliStep(g) PROVE [Next]_vars
  <2>1. CASE CliSendEvent(g)
    BY Zenon, <2>1 DEF CliSendEvent, Next
  <2>2. CASE ~CliSendEvent(g)
    BY <1>2, <2>2 DEF Connect, CliStep, Health, Probe, HealthFails, Put, Get, Call,
                CannotSend, Accepted, Refused, CutOff, GetOutcome, OutcomeNotFound, PollFails
  <2> QED BY <2>1, <2>2
<1>3. CASE UNCHANGED allVars
  BY Zenon, <1>3 DEF allVars
<1> QED BY <1>1, <1>2, <1>3 DEF CliNext

\* What the server leaves alone: an answer stays, and so does a receipt.
LEMMA ServerKeeps ==
  ASSUME TypeOK, SenderInv, ServerStep, NEW g \in Grpc
  PROVE  /\ grpc[g] # "send" => grpc'[g] = grpc[g]
         /\ g \in taken => g \in taken'
<1>1. CASE \E h \in Grpc : Timeout(h)
  BY Zenon, <1>1 DEF Timeout, TypeOK
<1>2. CASE \E x \in Sources : Accept(x)
  <2>1. PICK x \in Sources : Accept(x)
    BY <1>2
  <2>2. /\ x \in Grpc => grpc[x] = "send"
        /\ grpc' = IF x \in Grpc THEN [grpc EXCEPT ![x] = "accepted"] ELSE grpc
        /\ taken' = taken \cup {x}
    BY Zenon, <2>1 DEF Accept, SendersAt
  <2> QED BY <2>2 DEF TypeOK
<1>3. CASE Exit \/ Crash \/ \E x \in Sources : Panic(x)
  BY <1>3 DEF Exit, Crash, Panic, Ends, TypeOK
<1>4. CASE Poll \/ ReceiveEnds \/ \E w \in Workers, m \in Msgs : Receive(w, m)
  BY <1>4 DEF Poll, ReceiveEnds, Receive
<1>5. CASE \E w \in Workers : DeleteMessage(w) \/ DeleteMessageFails(w)
  BY <1>5 DEF DeleteMessage, DeleteMessageFails
<1>6. CASE (\E m \in Msgs : VisibilityTimeout(m)) \/ Publish
  BY Zenon, <1>6 DEF VisibilityTimeout, Publish
<1>7. CASE ListenerStep
  BY Zenon, <1>7 DEF ListenerStep, PutEvent, TxProcessEvent, Notify, ReportOutcome, ListenerExits
<1>8. CASE Stop \/ CloseEvents \/ GracefulStop \/ GracefulStopReturns \/ Restart
  BY <1>8 DEF Stop, CloseEvents, GracefulStop, GracefulStopReturns, MainGoes, Restart
<1> QED
  BY Zenon, <1>1, <1>2, <1>3, <1>4, <1>5, <1>6, <1>7, <1>8 DEF ServerStep, MainStep

\* The outcome of a gRPC call never changes once it is stored.
LEMMA CallOutcomeStays ==
  ASSUME Inv, [Next]_vars, NEW g \in Grpc, outcome[g] # "none"
  PROVE  outcome'[g] = outcome[g]
<1> SUFFICES ASSUME outcome'[g] # outcome[g] PROVE FALSE
  OBVIOUS
<1>1. g \in EventIds
  BY DEF EventIds
<1>2. PICK x \in taken, y \in taken : x # y /\ EventId(x) = g /\ EventId(y) = g
  BY Zenon, <1>1, OutcomeStays
<1> QED BY <1>2, CallIsEvent DEF Inv

\* The clients when they have started.
LEMMA ClientInit == CliInit => CliTypeOK /\ ClientInv
BY ClientAssumption DEF CliInit, Init, CliTypeOK, ClientInv, ClientOK

\* A step of the server keeps what holds of the clients.
LEMMA ServerClient ==
  ASSUME CliInv, ServerStep, UNCHANGED client
  PROVE  CliTypeOK' /\ ClientInv'
<1>1. Inv /\ CliTypeOK /\ ClientInv /\ TypeOK /\ SenderInv
  BY DEF CliInv, Inv
<1>2. /\ command' = command /\ cli' = cli /\ remain' = remain /\ shown' = shown
      /\ exit' = exit /\ cut' = cut
  BY DEF client
<1>3. CliTypeOK'
  BY Zenon, <1>1, <1>2 DEF CliTypeOK
<1>4. \A g \in Grpc : /\ grpc[g] # "send" => grpc'[g] = grpc[g]
                      /\ g \in taken => g \in taken'
                      /\ outcome[g] # "none" => outcome'[g] = outcome[g]
  BY Zenon, <1>1, ServerKeeps, CallOutcomeStays DEF Next
<1>5. ClientInv'
  BY Zenon, <1>1, <1>2, <1>4 DEF ClientInv, ClientOK
<1> QED BY <1>3, <1>5

\* What a step of client g leaves alone.
LEMMA ClientShape ==
  ASSUME CliTypeOK, TypeOK, NEW g \in Grpc, Connect(g) \/ CliStep(g)
  PROVE  /\ command' = command /\ outcome' = outcome /\ taken' = taken
         /\ \A h \in Grpc \ {g} :
              /\ cli'[h] = cli[h] /\ remain'[h] = remain[h] /\ shown'[h] = shown[h]
              /\ exit'[h] = exit[h] /\ grpc'[h] = grpc[h]
              /\ h \in cut' <=> h \in cut
<1>1. CASE CliSendEvent(g)
  BY <1>1 DEF CliSendEvent, SendEvent, CliGoes, CliTypeOK, TypeOK, redis
<1>2. CASE ~CliSendEvent(g)
  <2>1. UNCHANGED vars /\ command' = command
    BY <1>2 DEF Connect, CliStep, Health, Probe, HealthFails, Put, Get, Call,
                CannotSend, Accepted, Refused, CutOff, GetOutcome, OutcomeNotFound, PollFails
  <2>2. outcome' = outcome /\ taken' = taken /\ grpc' = grpc
    BY Zenon, <2>1 DEF vars, redis
  <2>3. \A h \in Grpc \ {g} :
          cli'[h] = cli[h] /\ remain'[h] = remain[h] /\ shown'[h] = shown[h]
    BY Zenon, <1>2 DEF Connect, CliStep, Health, Probe, HealthFails, Put, Get, Call,
                CannotSend, Accepted, Refused, CutOff, GetOutcome, OutcomeNotFound, PollFails,
                CliGoes, Ended, Prints, CliTypeOK
  <2>4. \A h \in Grpc \ {g} : exit'[h] = exit[h] /\ (h \in cut' <=> h \in cut)
    BY Zenon, <1>2 DEF Connect, CliStep, Health, Probe, HealthFails, Put, Get, Call,
                CannotSend, Accepted, Refused, CutOff, GetOutcome, OutcomeNotFound, PollFails,
                CliGoes, Ended, Prints, CliTypeOK
  <2> QED BY Zenon, <2>1, <2>2, <2>3, <2>4
<1> QED BY Zenon, <1>1, <1>2

\* A step of a client keeps its own types and invariant.
LEMMA ClientStep ==
  ASSUME CliInv, NEW g \in Grpc, Connect(g) \/ CliStep(g), ~CliSendEvent(g)
  PROVE  CliTypeOK' /\ ClientOK(g)'
<1>1. CliTypeOK /\ ClientOK(g) /\ (grpc[g] = "accepted" <=> g \in taken)
      /\ outcome[g] \in Errors \cup {"none", "Ok"}
  BY ZenonT(30) DEF CliInv, ClientInv, Inv, SenderInv, TypeOK, EventIds
<1>2. command' = command /\ outcome' = outcome /\ taken' = taken /\ grpc' = grpc
  BY DEF Connect, CliStep, Health, Probe, HealthFails, Put, Get, Call, CannotSend,
         Accepted, Refused, CutOff, GetOutcome, OutcomeNotFound, PollFails, vars, redis
<1>3. PollRetries \in Nat /\ remain[g] \in 0 .. PollRetries
  BY Zenon, <1>1, ClientAssumption DEF CliTypeOK
<1>4. CASE Connect(g)
  BY Zenon, <1>1, <1>2, <1>3, <1>4 DEF Connect, CliGoes, Ended, Prints, CliTypeOK, ClientOK
<1>5. CASE Health(g)
  BY <1>1, <1>2, <1>3, <1>5 DEF Health, CliGoes, Ended, Prints, HealthStates, StoreHealth,
                                 CliTypeOK, ClientOK
<1>6. CASE HealthFails(g)
  BY Zenon, <1>1, <1>2, <1>3, <1>6 DEF HealthFails, CliGoes, Ended, Prints, CliTypeOK, ClientOK
<1>7. CASE Put(g) \/ Get(g)
  BY Zenon, <1>1, <1>2, <1>3, <1>7 DEF Put, Get, Call, CliGoes, Ended, Prints, CliTypeOK, ClientOK
<1>8. CASE CannotSend(g)
  BY Zenon, <1>1, <1>2, <1>3, <1>8 DEF CannotSend, CliGoes, Ended, Prints, CliTypeOK, ClientOK
<1>9. CASE Accepted(g)
  BY Zenon, <1>1, <1>2, <1>3, <1>9 DEF Accepted, CliGoes, Ended, Prints, CliTypeOK, ClientOK
<1>10. CASE Refused(g)
  BY Zenon, <1>1, <1>2, <1>3, <1>10 DEF Refused, CliGoes, Ended, Prints, CliTypeOK, ClientOK
<1>11. CASE CutOff(g)
  BY Zenon, <1>1, <1>2, <1>3, <1>11 DEF CutOff, CliGoes, Ended, Prints, CliTypeOK, ClientOK
<1>12. CASE GetOutcome(g)
  BY Zenon, <1>1, <1>2, <1>3, <1>12 DEF GetOutcome, CliGoes, Ended, Prints, CliTypeOK, ClientOK
<1>13. CASE OutcomeNotFound(g)
  <2>1. /\ cli[g] = "poll" /\ remain' = [remain EXCEPT ![g] = @ - 1]
        /\ shown' = shown /\ cut' = cut
        /\ IF remain'[g] > 0 THEN cli' = [cli EXCEPT ![g] = "poll"] /\ exit' = exit
           ELSE cli' = [cli EXCEPT ![g] = "ended"] /\ exit' = [exit EXCEPT ![g] = "panic"]
    BY Zenon, <1>13 DEF OutcomeNotFound, CliGoes, Ended
  <2>2. remain' \in [Grpc -> 0 .. PollRetries]
    BY <1>1, <1>3, <2>1 DEF CliTypeOK, ClientOK
  <2>3. CliTypeOK'
    BY Zenon, <1>1, <1>2, <2>1, <2>2 DEF CliTypeOK
  <2>4. ClientOK(g)'
    BY ZenonT(30), <1>1, <1>2, <2>1 DEF CliTypeOK, ClientOK
  <2> QED BY Zenon, <2>3, <2>4
<1>14. CASE PollFails(g)
  BY Zenon, <1>1, <1>2, <1>3, <1>14 DEF PollFails, CliGoes, Ended, Prints, CliTypeOK, ClientOK
<1>15. CASE Probe(g)
  BY <1>1, <1>2, <1>3, <1>15 DEF Probe, CliGoes, Ended, Prints, HealthStates, StoreHealth,
                                 CliTypeOK, ClientOK
<1> QED
  BY ZenonT(30), <1>4, <1>5, <1>6, <1>7, <1>8, <1>9, <1>10, <1>11, <1>12, <1>13, <1>14, <1>15
     DEF CliStep

\* Every step keeps the invariant of the server and its clients.
LEMMA CliNextInv == CliInv /\ [CliNext]_allVars => CliInv'
<1> SUFFICES ASSUME CliInv, [CliNext]_allVars PROVE CliInv'
  OBVIOUS
<1>1. Inv /\ CliTypeOK /\ ClientInv /\ TypeOK
  BY DEF CliInv, Inv
<1>2. Inv'
  BY Zenon, <1>1, CliNextIsNext, NextInv
<1>3. CASE ServerStep /\ UNCHANGED client
  BY Zenon, <1>2, <1>3, ServerClient DEF CliInv
<1>4. ASSUME NEW g \in Grpc, Connect(g) \/ CliStep(g) PROVE CliInv'
  <2>1. CliTypeOK' /\ ClientOK(g)'
    <3>1. CASE CliSendEvent(g)
      <4>1. /\ command[g] = "event" /\ cli[g] = "run" /\ cli' = [cli EXCEPT ![g] = "sent"]
            /\ command' = command /\ remain' = remain /\ shown' = shown
            /\ exit' = exit /\ cut' = cut
        BY <3>1 DEF CliSendEvent, CliGoes
      <4>2. CliTypeOK'
        BY Zenon, <1>1, <4>1 DEF CliTypeOK
      <4>3. ClientOK(g)'
        BY <1>1, <4>1 DEF ClientInv, ClientOK, CliTypeOK
      <4> QED BY <4>2, <4>3
    <3>2. CASE ~CliSendEvent(g)
      BY Zenon, <1>4, <3>2, ClientStep
    <3> QED BY <3>1, <3>2
  <2>2. \A h \in Grpc \ {g} : ClientOK(h)'
    BY <1>1, <1>4, ClientShape DEF ClientInv, ClientOK
  <2> QED BY <1>2, <2>1, <2>2 DEF CliInv, ClientInv
<1>5. CASE UNCHANGED allVars
  <2>1. /\ command' = command /\ cli' = cli /\ remain' = remain /\ shown' = shown
        /\ exit' = exit /\ cut' = cut /\ grpc' = grpc /\ taken' = taken /\ outcome' = outcome
    BY Zenon, <1>5 DEF allVars, client, vars, redis
  <2>2. CliTypeOK' /\ ClientInv'
    BY <1>1, <2>1 DEF CliTypeOK, ClientInv, ClientOK
  <2> QED BY Zenon, <1>2, <2>2 DEF CliInv
<1> QED
  BY <1>3, <1>4, <1>5 DEF CliNext

\* The invariant holds in every state.
LEMMA CliInvHolds == CliSpec => []CliInv
<1>1. CliInit => CliInv
  BY InitInv, ClientInit DEF CliInit, CliInv
<1> QED BY <1>1, CliNextInv, PTL DEF CliSpec

\* Every client polls at most MaxRetries times.
THEOREM ClientTypeCorrect == CliSpec => []CliTypeOK
<1>1. CliInv => CliTypeOK
  BY DEF CliInv
<1> QED BY <1>1, CliInvHolds, PTL

\* What any of the clients prints is the outcome of its event, and remains so.
THEOREM ShownStaysOutcome == CliSpec => []ShownIsOutcome
<1>1. CliInv => ShownIsOutcome
  BY Zenon DEF CliInv, ClientInv, ClientOK, ShownIsOutcome, Inv, Safe, OkMeansApplied, EventIds
<1> QED BY <1>1, CliInvHolds, PTL

\* An event whose client failed with an error before SendEvent accepted it is not
\* processed, unless SendEvent gave no answer.
THEOREM ErrorStaysUnprocessed == CliSpec => []ErrorMeansUnprocessed
<1>1. CliInv => ErrorMeansUnprocessed
  <2> SUFFICES ASSUME CliInv, NEW g \in Grpc \ cut, exit[g] = "error"
               PROVE  g \notin taken /\ applied[g] = 0 /\ outcome[g] = "none"
    BY Zenon DEF ErrorMeansUnprocessed
  <2>1. g \notin taken
    BY Zenon DEF CliInv, ClientInv, ClientOK, Inv, SenderInv
  <2> QED BY <2>1, UntakenIsUnprocessed DEF CliInv
<1> QED BY <1>1, CliInvHolds, PTL

\* A client that panics after it sent its event had it accepted.
THEOREM PanicAfterAccepted == CliSpec => []PanicMeansAccepted
<1>1. CliInv => PanicMeansAccepted
  BY DEF CliInv, ClientInv, ClientOK, PanicMeansAccepted
<1> QED BY <1>1, CliInvHolds, PTL

-----------------------------------------------------------------------------
(* The server under its clients                                            *)

\* The clients make the server do nothing that EventPipeline does not do, so that
\* whatever is proved of the server holds under them.
THEOREM ClientsKeepServer == CliSpec => Spec
<1>1. CliInit => Init
  BY DEF CliInit
<1> QED BY <1>1, CliNextIsNext, PTL DEF CliSpec, Spec

\* What `fsm-cli send` prints is true: where the store does not time out, the code
\* is Ok if and only if the event has moved its machine, and it never moves it
\* twice, through all the crashes and restarts of the server.
THEOREM ShownIsTrue ==
  CliSpec =>
    [](\A g \in Grpc : command[g] = "event" /\ shown[g] # "none" =>
         /\ applied[g] <= 1
         /\ "deadline" \notin Faults => applied[g] = IF shown[g] = "Ok" THEN 1 ELSE 0)
<1> DEFINE True(g) == /\ applied[g] <= 1
                      /\ "deadline" \notin Faults /\ outcome[g] # "none" =>
                           applied[g] = IF outcome[g] = "Ok" THEN 1 ELSE 0
<1>1. ASSUME CliInv, \A g \in Grpc : True(g)
      PROVE  \A g \in Grpc : command[g] = "event" /\ shown[g] # "none" =>
               /\ applied[g] <= 1
               /\ "deadline" \notin Faults => applied[g] = IF shown[g] = "Ok" THEN 1 ELSE 0
  BY <1>1 DEF CliInv, ClientInv, ClientOK
<1>2. Spec => [](\A g \in Grpc : True(g))
  BY Zenon, CallsAreTrue
<1> HIDE DEF True
<1> QED BY <1>1, <1>2, CliInvHolds, ClientsKeepServer, PTL

-----------------------------------------------------------------------------
(* Every client is bounded                                                 *)

Ahead(l) ==
  CASE l = "new" -> 5 [] l = "health" -> 4 [] l = "run" -> 3 [] l = "sent" -> 2
    [] l = "poll" -> 1 [] OTHER -> 0

\* A bound on the steps that a client has still to make.
StepsLeft(g) == Ahead(cli[g]) + remain[g]

\* A step of client g: it goes forward, or has polled once more.
LEMMA ClientAdvances ==
  ASSUME CliInv, NEW g \in Grpc, Connect(g) \/ CliStep(g)
  PROVE  \/ Ahead(cli'[g]) < Ahead(cli[g]) /\ remain'[g] = remain[g]
         \/ Ahead(cli'[g]) <= Ahead(cli[g]) /\ remain'[g] = remain[g] - 1
<1>1. DOMAIN cli = Grpc /\ DOMAIN remain = Grpc
  BY DEF CliInv, CliTypeOK
<1>2. CASE Connect(g)
  BY <1>1, <1>2 DEF Connect, CliGoes, Ended, Ahead
<1>3. CASE Health(g) \/ Probe(g) \/ HealthFails(g)
  BY <1>1, <1>3 DEF Health, Probe, HealthFails, CliGoes, Ended, Ahead
<1>4. CASE Put(g) \/ Get(g) \/ CliSendEvent(g) \/ CannotSend(g)
  BY <1>1, <1>4 DEF Put, Get, Call, CliSendEvent, CannotSend, CliGoes, Ended, Ahead
<1>5. CASE Accepted(g) \/ Refused(g) \/ CutOff(g)
  BY <1>1, <1>5 DEF Accepted, Refused, CutOff, CliGoes, Ended, Ahead
<1>6. CASE GetOutcome(g) \/ PollFails(g)
  BY <1>1, <1>6 DEF GetOutcome, PollFails, CliGoes, Ended, Ahead
<1>7. CASE OutcomeNotFound(g)
  BY <1>1, <1>7 DEF OutcomeNotFound, CliGoes, Ended, Ahead
<1> QED BY Zenon, <1>2, <1>3, <1>4, <1>5, <1>6, <1>7 DEF CliStep

\* Every step of a client brings it nearer to its end, and nothing that the server
\* or another client does takes it further from it: `fsm-cli` ends after at most
\* MaxRetries polls, even if no outcome is ever stored.
THEOREM ClientsAreBounded ==
  CliSpec => /\ [](\A g \in Grpc : StepsLeft(g) \in 0 .. PollRetries + 5)
             /\ [][\/ UNCHANGED client
                   \/ \E g \in Grpc :
                        /\ StepsLeft(g)' < StepsLeft(g)
                        /\ \A h \in Grpc \ {g} : StepsLeft(h)' = StepsLeft(h)]_allVars
<1>1. ASSUME CliInv PROVE \A g \in Grpc : StepsLeft(g) \in 0 .. PollRetries + 5
  <2> SUFFICES ASSUME NEW g \in Grpc PROVE StepsLeft(g) \in 0 .. PollRetries + 5
    OBVIOUS
  <2>1. PollRetries \in Nat /\ remain[g] \in 0 .. PollRetries
    BY <1>1, ClientAssumption DEF CliInv, CliTypeOK
  <2>2. Ahead(cli[g]) \in 0 .. 5
    BY DEF Ahead
  <2> QED BY <2>1, <2>2 DEF StepsLeft
<1>2. ASSUME CliInv, CliNext
      PROVE  \/ UNCHANGED client
             \/ \E g \in Grpc :
                  /\ StepsLeft(g)' < StepsLeft(g)
                  /\ \A h \in Grpc \ {g} : StepsLeft(h)' = StepsLeft(h)
  <2> SUFFICES ASSUME NEW g \in Grpc, Connect(g) \/ CliStep(g)
               PROVE  /\ StepsLeft(g)' < StepsLeft(g)
                      /\ \A h \in Grpc \ {g} : StepsLeft(h)' = StepsLeft(h)
    BY <1>2 DEF CliNext
  <2>1. \A h \in Grpc \ {g} : cli'[h] = cli[h] /\ remain'[h] = remain[h]
    BY <1>2, ClientShape DEF CliInv, Inv
  <2>2. Ahead(cli[g]) \in 0 .. 5 /\ Ahead(cli'[g]) \in 0 .. 5 /\ remain[g] \in Int
    BY <1>2 DEF Ahead, CliInv, CliTypeOK
  <2>3. StepsLeft(g)' < StepsLeft(g)
    BY <1>2, <2>2, ClientAdvances DEF StepsLeft
  <2> QED BY <2>1, <2>3 DEF StepsLeft
<1> QED BY <1>1, <1>2, CliInvHolds, PTL DEF CliSpec
=============================================================================
