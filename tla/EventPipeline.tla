--------------------------- MODULE EventPipeline ---------------------------
(***************************************************************************)
(* The way of an event through one fsm-server: the gRPC method SendEvent   *)
(* and the SQS subscriber send requests over the unbuffered channel        *)
(* eventsCh to the one EventsListener, which has the store process the     *)
(* event, hands errors over the unbuffered channel notificationsCh to the  *)
(* SQS publisher, and stores the outcome.  The server may be stopped by a  *)
(* signal, may crash, and is started again.                                *)
(*                                                                         *)
(* TxProcessEvent is one step here, which either moves the machine or does *)
(* not: module FsmStore shows that it does so atomically.                  *)
(***************************************************************************)
EXTENDS Naturals, FiniteSets

CONSTANTS Grpc,          \* calls of the gRPC method SendEvent
          Msgs,          \* messages of the SQS events queue
          WithId,        \* those whose event has an id of its own
          Workers,       \* goroutines ProcessMessage, one for each delivery
          Notifications, \* whether there is a -notifications topic
          MessageRemoveRetries,
          MaxRestarts,   \* bound: how often the server is started again
          NoSource,
          Faults         \* the kinds of failure that may happen, a subset of
                         \* {"store", "timeout", "deadline", "outcome", "publish",
                         \*  "remove", "visibility", "stop", "crash"}

Sources == Grpc \cup Workers
EventIds == Grpc \cup WithId \cup Workers
Errors == {"MissingDestination", "FsmNotFound", "InternalError"}
Responses == EventIds \X Errors

ASSUME SourcesAssumption ==
  /\ Grpc \cap Workers = {} /\ Msgs \cap Sources = {}
  /\ WithId \subseteq Msgs
  /\ NoSource \notin Sources \cup Msgs
ASSUME BoundsAssumption ==
  Notifications \in BOOLEAN /\ MessageRemoveRetries \in Nat \ {0} /\ MaxRestarts \in Nat

VARIABLES
  kind,      \* what a request is like: "malformed" requests have no destination
             \* id, no event name (gRPC) or no readable body (SQS)
  main,      \* where main() is; the channels are closed from here
  restarts,
  grpc,      \* where each gRPC call is
  queue,     \* SQS: the state of each message
  sub,       \* where the loop of Subscribe is
  worker,    \* where each goroutine ProcessMessage is
  msg,       \* the message it was started with
  removals,  \* its failed attempts to delete the message
  listener,  \* where ListenForMessages is, with the request and its outcome
  publisher, \* the response that Publish is sending, or NoSource
  events,    \* Redis: the ids of the stored events
  outcome,   \* Redis: the outcome stored for each event
  taken,     \* auxiliary: the sources whose request the listener received
  applied,   \* auxiliary: how often the event moved its machine
  posted,    \* SQS: the responses in the errors queue
  announced  \* auxiliary: the error responses the publisher received

redis == <<events, outcome, applied>>
sqs == <<queue, sub, worker, msg, removals>>
process == <<main, restarts>>
notices == <<publisher, posted, announced>>
vars == <<kind, process, grpc, sqs, listener, notices, redis, taken>>

ListenerPc == {"idle", "store", "process", "notify", "report", "exited"}

TypeOK ==
  /\ kind \in [Grpc \cup Msgs -> {"malformed", "noConfig", "good"}]
  /\ main \in {"running", "done", "closed", "graceful", "waiting", "exited", "crashed",
               "panicked"}
  /\ restarts \in 0 .. MaxRestarts
  /\ grpc \in [Grpc -> {"new", "send", "accepted", "refused", "timeout", "broken"}]
  /\ queue \in [Msgs -> {"visible", "hidden", "gone"}]
  /\ sub \in {"poll", "receive", "exited"}
  /\ worker \in [Workers -> {"new", "send", "remove", "ended"}]
  /\ msg \in [Workers -> Msgs \cup {NoSource}]
  /\ removals \in [Workers -> 0 .. MessageRemoveRetries]
  /\ listener \in [pc : ListenerPc, src : Sources \cup {NoSource}, code : Errors \cup {"Ok"}]
  /\ publisher \in Responses \cup {NoSource}
  /\ events \subseteq EventIds
  /\ outcome \in [EventIds -> Errors \cup {"none", "Ok"}]
  /\ taken \subseteq Sources
  /\ applied \in [EventIds -> Nat]
  /\ posted \subseteq Responses /\ announced \subseteq Responses

Idle == [pc |-> "idle", src |-> NoSource, code |-> "Ok"]

Init ==
  /\ kind \in [Grpc \cup Msgs -> {"malformed", "noConfig", "good"}]
  /\ main = "running" /\ restarts = 0
  /\ grpc = [g \in Grpc |-> "new"]
  /\ queue = [m \in Msgs |-> "visible"]
  /\ sub = "poll"
  /\ worker = [w \in Workers |-> "new"]
  /\ msg = [w \in Workers |-> NoSource]
  /\ removals = [w \in Workers |-> 0]
  /\ listener = Idle
  /\ publisher = NoSource
  /\ events = {}
  /\ outcome = [e \in EventIds |-> "none"]
  /\ taken = {}
  /\ applied = [e \in EventIds |-> 0]
  /\ posted = {} /\ announced = {}

-----------------------------------------------------------------------------
Up == main \notin {"exited", "crashed", "panicked"}

EventsClosed == main \in {"closed", "graceful", "waiting"}

Kind(x) == kind[IF x \in Grpc THEN x ELSE msg[x]]

\* UpdateEvent gives an event without an id a new one, at each delivery.
EventId(x) == IF x \in Workers /\ msg[x] \in WithId THEN msg[x] ELSE x

SendersAt(x) == IF x \in Grpc THEN grpc[x] = "send" ELSE worker[x] = "send"

(* The gRPC method SendEvent.                                              *)

\* The gRPC server takes new calls.
Serving == main \in {"running", "done", "closed"}

\* The handler starts, up to the select.
SendEvent(g) ==
  /\ Serving
  /\ grpc[g] = "new"
  /\ grpc' = [grpc EXCEPT ![g] = IF kind[g] = "malformed" THEN "refused" ELSE "send"]
  /\ UNCHANGED <<kind, process, sqs, listener, notices, redis, taken>>

\* time.After fires before the listener is ready.
Timeout(g) ==
  /\ Up
  /\ grpc[g] = "send"
  /\ "timeout" \in Faults
  /\ grpc' = [grpc EXCEPT ![g] = "timeout"]
  /\ UNCHANGED <<kind, process, sqs, listener, notices, redis, taken>>

(* The SQS subscriber.                                                     *)

\* Mutant: the loop does not look at the done channel.
PollForever ==
  /\ Up
  /\ sub = "poll"
  /\ sub' = "receive"
  /\ UNCHANGED <<kind, process, grpc, queue, worker, msg, removals, listener, notices, redis,
                 taken>>

Poll ==
  /\ Up
  /\ sub = "poll"
  /\ sub' = IF main = "running" THEN "receive" ELSE "exited"
  /\ UNCHANGED <<kind, process, grpc, queue, worker, msg, removals, listener, notices, redis,
                 taken>>

\* Mutant: a message that cannot be read is removed from the queue.
ReceiveAll(w, m) ==
  /\ Up
  /\ sub = "receive" /\ queue[m] = "visible" /\ worker[w] = "new"
  /\ queue' = [queue EXCEPT ![m] = "hidden"]
  /\ msg' = [msg EXCEPT ![w] = m]
  /\ worker' = [worker EXCEPT ![w] = IF kind[m] = "malformed" THEN "remove" ELSE "send"]
  /\ UNCHANGED <<kind, process, grpc, sub, removals, listener, notices, redis,
                 taken>>

\* Mutant: a message without a configuration is dropped here.
ReceiveGood(w, m) ==
  /\ Up
  /\ sub = "receive" /\ queue[m] = "visible" /\ worker[w] = "new"
  /\ queue' = [queue EXCEPT ![m] = "hidden"]
  /\ msg' = [msg EXCEPT ![w] = m]
  /\ worker' = [worker EXCEPT ![w] = IF kind[m] # "good" THEN "ended" ELSE "send"]
  /\ UNCHANGED <<kind, process, grpc, sub, removals, listener, notices, redis, taken>>

\* One message of those that ReceiveMessage returns, and the checks that
\* ProcessMessage makes before it sends: a malformed message is left alone.
Receive(w, m) ==
  /\ Up
  /\ sub = "receive" /\ queue[m] = "visible" /\ worker[w] = "new"
  /\ queue' = [queue EXCEPT ![m] = "hidden"]
  /\ msg' = [msg EXCEPT ![w] = m]
  /\ worker' = [worker EXCEPT ![w] = IF kind[m] = "malformed" THEN "ended" ELSE "send"]
  /\ UNCHANGED <<kind, process, grpc, sub, removals, listener, notices, redis,
                 taken>>

\* No more messages, or an error; the loop sleeps and goes on.
ReceiveEnds ==
  /\ Up
  /\ sub = "receive"
  /\ sub' = "poll"
  /\ UNCHANGED <<kind, process, grpc, queue, worker, msg, removals, listener, notices, redis,
                 taken>>

DeleteMessage(w) ==
  /\ Up
  /\ worker[w] = "remove"
  /\ queue' = [queue EXCEPT ![msg[w]] = "gone"]
  /\ worker' = [worker EXCEPT ![w] = "ended"]
  /\ UNCHANGED <<kind, process, grpc, sub, msg, removals, listener, notices, redis,
                 taken>>

DeleteMessageFails(w) ==
  /\ Up
  /\ worker[w] = "remove"
  /\ "remove" \in Faults
  /\ removals' = [removals EXCEPT ![w] = @ + 1]
  /\ worker' = [worker EXCEPT ![w] = IF removals'[w] = MessageRemoveRetries THEN "ended" ELSE @]
  /\ UNCHANGED <<kind, process, grpc, queue, sub, msg, listener, notices, redis, taken>>

\* SQS: the visibility timeout of a message that was not deleted.
VisibilityTimeout(m) ==
  /\ queue[m] = "hidden"
  /\ "visibility" \in Faults
  /\ queue' = [queue EXCEPT ![m] = "visible"]
  /\ UNCHANGED <<kind, process, grpc, sub, worker, msg, removals, listener, notices, redis,
                 taken>>

(* The listener.                                                           *)

Event == EventId(listener.src)

ListenerAt(l) == Up /\ listener.pc = l

ListenerGoes(l, code) == listener' = [listener EXCEPT !.pc = l, !.code = code]

\* Mutant: errors are not announced.
ReportOnly == "report"

\* PostNotificationAndReportOutcome: the notification, if there is a topic,
\* comes before the outcome.
PostNotification == IF Notifications THEN "notify" ELSE "report"

\* Mutant: a gRPC request remains to be sent.
AcceptAgain(x) ==
  /\ ListenerAt("idle") /\ ~EventsClosed /\ SendersAt(x)
  /\ listener' = [pc |-> IF Kind(x) = "good" THEN "store" ELSE PostNotification,
                  src |-> x,
                  code |-> IF Kind(x) = "good" THEN "Ok" ELSE "MissingDestination"]
  /\ taken' = taken \cup {x}
  /\ worker' = IF x \in Workers THEN [worker EXCEPT ![x] = "remove"] ELSE worker
  /\ UNCHANGED <<kind, process, grpc, queue, sub, msg, removals, notices, redis>>

\* The rendezvous on eventsCh.  The sender goes on; the listener looks for the
\* destination.
Accept(x) ==
  /\ ListenerAt("idle") /\ ~EventsClosed /\ SendersAt(x)
  /\ listener' = [pc |-> IF Kind(x) = "good" THEN "store" ELSE PostNotification,
                  src |-> x,
                  code |-> IF Kind(x) = "good" THEN "Ok" ELSE "MissingDestination"]
  /\ taken' = taken \cup {x}
  /\ grpc' = IF x \in Grpc THEN [grpc EXCEPT ![x] = "accepted"] ELSE grpc
  /\ worker' = IF x \in Workers THEN [worker EXCEPT ![x] = "remove"] ELSE worker
  /\ UNCHANGED <<kind, process, queue, sub, msg, removals, notices, redis>>

\* Mutant: the error of PutEvent is ignored.
PutEventUnchecked ==
  /\ ListenerAt("store")
  /\ \/ events' = events \cup {Event}
     \/ "store" \in Faults /\ events' = events
  /\ ListenerGoes("process", "Ok")
  /\ UNCHANGED <<kind, process, grpc, sqs, notices, outcome, applied, taken>>

\* A failed put may have been executed.
PutEvent ==
  /\ ListenerAt("store")
  /\ \/ events' = events \cup {Event} /\ ListenerGoes("process", "Ok")
     \/ /\ "store" \in Faults
        /\ events' \in {events, events \cup {Event}}
        /\ ListenerGoes(PostNotification, "InternalError")
  /\ UNCHANGED <<kind, process, grpc, sqs, notices, outcome, applied, taken>>

Apply == applied' = [applied EXCEPT ![Event] = @ + 1]

\* Mutant: the error of TxProcessEvent is not looked at.
TxProcessEventUnchecked ==
  /\ ListenerAt("process")
  /\ Apply \/ UNCHANGED applied
  /\ ListenerGoes("report", "Ok")
  /\ UNCHANGED <<kind, process, grpc, sqs, notices, events, outcome, taken>>

\* Mutant: an event that timed out is processed again.
TxProcessEventAgain ==
  /\ ListenerAt("process")
  /\ \/ Apply /\ ListenerGoes("report", "Ok")
     \/ "deadline" \in Faults /\ Apply /\ UNCHANGED listener
  /\ UNCHANGED <<kind, process, grpc, sqs, notices, events, outcome, taken>>

\* The store moves the machine, or returns an error: there is no such machine,
\* the event is not one that it can take, the store failed.  With a deadline
\* the store may return an error for an event that it has applied.
TxProcessEvent ==
  /\ ListenerAt("process")
  /\ \/ Apply /\ ListenerGoes("report", "Ok")
     \/ /\ \/ UNCHANGED applied
           \/ "deadline" \in Faults /\ Apply
        /\ \E code \in {"FsmNotFound", "InternalError"} : ListenerGoes(PostNotification, code)
  /\ UNCHANGED <<kind, process, grpc, sqs, notices, events, outcome, taken>>

\* Mutant: the listener goes on to the next event once it has announced an error.
NotifyOnly ==
  /\ ListenerAt("notify")
  /\ publisher = NoSource
  /\ publisher' = <<Event, listener.code>>
  /\ announced' = announced \cup {publisher'}
  /\ ListenerGoes("idle", listener.code)
  /\ UNCHANGED <<kind, process, grpc, sqs, posted, redis, taken>>

\* The rendezvous on notificationsCh.
Notify ==
  /\ ListenerAt("notify")
  /\ publisher = NoSource
  /\ publisher' = <<Event, listener.code>>
  /\ announced' = announced \cup {publisher'}
  /\ ListenerGoes("report", listener.code)
  /\ UNCHANGED <<kind, process, grpc, sqs, posted, redis, taken>>

\* reportOutcome only logs an error of AddEventOutcome.
ReportOutcome ==
  /\ ListenerAt("report")
  /\ \/ outcome' = [outcome EXCEPT ![Event] = listener.code]
     \/ "outcome" \in Faults /\ UNCHANGED outcome
  /\ listener' = Idle
  /\ UNCHANGED <<kind, process, grpc, sqs, notices, events, applied, taken>>

\* The channel is closed: the loop of ListenForMessages ends.
ListenerExits ==
  /\ ListenerAt("idle") /\ EventsClosed
  /\ ListenerGoes("exited", "Ok")
  /\ UNCHANGED <<kind, process, grpc, sqs, notices, redis, taken>>

(* The publisher.                                                          *)

\* Mutant: the error responses are skipped instead of the others.
PublishSkips ==
  /\ Up
  /\ publisher # NoSource
  /\ publisher' = NoSource
  /\ UNCHANGED <<kind, process, grpc, sqs, listener, redis, taken, announced, posted>>

Publish ==
  /\ Up
  /\ publisher # NoSource
  /\ publisher' = NoSource
  /\ \/ posted' = posted \cup {publisher}
     \/ "publish" \in Faults /\ UNCHANGED posted
  /\ UNCHANGED <<kind, process, grpc, sqs, listener, redis, taken, announced>>

(* RunUntilStopped, and the end of the process.                            *)

MainGoes(from, to) ==
  /\ main = from /\ main' = to
  /\ UNCHANGED <<kind, restarts, grpc, sqs, listener, notices, redis, taken>>

\* SIGTERM arrives: close(done).
Stop == "stop" \in Faults /\ MainGoes("running", "done")

CloseEvents == MainGoes("done", "closed")

GracefulStop == MainGoes("closed", "graceful")

\* GracefulStop returns when no handler is running.
GracefulStopReturns ==
  /\ \A g \in Grpc : grpc[g] # "send"
  /\ MainGoes("graceful", "waiting")

\* The end of the process ends all its goroutines.
Ends(how) ==
  /\ main' = how
  /\ grpc' = [g \in Grpc |-> IF grpc[g] = "send" THEN "broken" ELSE grpc[g]]
  /\ worker' = [w \in Workers |-> IF worker[w] = "new" THEN "new" ELSE "ended"]
  /\ listener' = Idle
  /\ publisher' = NoSource
  /\ UNCHANGED <<kind, restarts, queue, sub, msg, removals, posted, announced, redis, taken>>

\* wg.Wait waits for the subscriber and the listener, not for the publisher nor
\* for the goroutines that process messages.
Exit ==
  /\ main = "waiting" /\ sub = "exited" /\ listener.pc = "exited"
  /\ Ends("exited")

\* A goroutine that sends on the closed eventsCh panics.
Panic(x) == Up /\ EventsClosed /\ SendersAt(x) /\ Ends("panicked")

Crash == Up /\ "crash" \in Faults /\ Ends("crashed")

Restart ==
  /\ ~Up /\ restarts < MaxRestarts
  /\ restarts' = restarts + 1
  /\ main' = "running" /\ sub' = "poll"
  /\ UNCHANGED <<kind, grpc, queue, worker, msg, removals, listener, notices, redis, taken>>

ListenerStep == PutEvent \/ TxProcessEvent \/ Notify \/ ReportOutcome \/ ListenerExits

MainStep == CloseEvents \/ GracefulStop \/ GracefulStopReturns \/ Exit

ServerStep ==
  \/ \E g \in Grpc : Timeout(g)
  \/ Poll \/ ReceiveEnds \/ \E w \in Workers, m \in Msgs : Receive(w, m)
  \/ \E w \in Workers : DeleteMessage(w) \/ DeleteMessageFails(w)
  \/ \E m \in Msgs : VisibilityTimeout(m)
  \/ \E x \in Sources : Accept(x) \/ Panic(x)
  \/ ListenerStep \/ Publish
  \/ Stop \/ MainStep \/ Crash \/ Restart

Next == ServerStep \/ \E g \in Grpc : SendEvent(g)

Spec == Init /\ [][Next]_vars

\* Every goroutine runs, and every call of Redis and SQS returns.  The senders
\* waiting on a channel are served in the order of their arrival, so that one
\* is not passed over for ever: strong fairness for the rendezvous.  A signal,
\* a crash, a timeout or a failure need never happen.
Fairness ==
  /\ WF_vars(ListenerStep) /\ WF_vars(Publish) /\ WF_vars(MainStep)
  /\ WF_vars(Poll) /\ WF_vars(ReceiveEnds)
  /\ \A m \in Msgs : SF_vars(\E w \in Workers : Receive(w, m))
  /\ \A w \in Workers : WF_vars(DeleteMessage(w))
  /\ \A x \in Sources : SF_vars(Accept(x)) /\ WF_vars(Panic(x))

FairSpec == Spec /\ Fairness

-----------------------------------------------------------------------------
\* The outcome of an event is Ok only if the event moved its machine.
OkMeansApplied == \A e \in EventIds : outcome[e] = "Ok" => applied[e] > 0

\* An error outcome that GetEventOutcome can return was handed to the
\* publisher before, if there is one, with the same code.
ErrorsAreAnnounced ==
  Notifications =>
    \A e \in EventIds : outcome[e] \in Errors => <<e, outcome[e]>> \in announced

\* Every event that moved a machine can be retrieved with GetEvent.
AppliedIsStored == \A e \in EventIds : applied[e] > 0 => e \in events

Deliveries(e) == {x \in taken : EventId(x) = e}

\* An event is applied at most once for each time that the listener received
\* it, whatever the store, the queue and the restarts of the server do.
AppliedOncePerDelivery == \A e \in EventIds : applied[e] <= Cardinality(Deliveries(e))

\* A caller of SendEvent that was told that the event could not be posted can
\* rely on it: the event is not stored, not applied and has no outcome.
UnpostedIsUnprocessed ==
  \A g \in Grpc : grpc[g] \in {"timeout", "refused"} =>
    applied[g] = 0 /\ outcome[g] = "none" /\ g \notin events

\* ProcessMessage deletes only messages whose request the listener received: a
\* message that cannot be read is left to the queue.
DeletedIsTaken ==
  \A m \in Msgs : queue[m] = "gone" => \E w \in taken \cap Workers : msg[w] = m

\* The outcome Ok is not replaced by another, unless the message was delivered
\* more than once.
OkStaysOk ==
  [][\A e \in EventIds :
       outcome[e] = "Ok" /\ Cardinality(Deliveries(e)) <= 1 => outcome'[e] = "Ok"]_vars

Ledger ==
  INSTANCE EventLedger WITH
    Announces <- Notifications,
    Deadlines <- "deadline" \in Faults,
    received <- [e \in EventIds |-> Cardinality(Deliveries(e))],
    stored <- events, moves <- applied, told <- announced, result <- outcome

\* All that the server records of the events it received is the ledger of
\* EventLedger: an event is stored before it moves its machine, moves it at most
\* once for each delivery, and once it has an outcome nothing more happens to it
\* unless it is delivered again.
KeepsLedger == Ledger!Spec

\* An event that was received once has the outcome Ok if and only if it moved its
\* machine, unless the store may report an error for an event that it applied.
TrueIfReceivedOnce ==
  "deadline" \notin Faults =>
    \A e \in EventIds : outcome[e] # "none" /\ Cardinality(Deliveries(e)) <= 1 =>
      applied[e] = IF outcome[e] = "Ok" THEN 1 ELSE 0

\* README.md: "For each `Event` (be it successful or not) we keep track of the
\* `EventOutcome`."  Every event that SendEvent accepted gets an outcome, also
\* when the server is stopped, unless it panics then.
AcceptedHasOutcome ==
  \A g \in Grpc : grpc[g] = "accepted" ~> outcome[g] # "none" \/ main = "panicked"

\* Every message that can be read is processed, gets an outcome and is removed
\* from the queue, unless the server is stopped.
MessagesAreProcessed ==
  \A m \in WithId :
    kind[m] # "malformed" ~> (outcome[m] # "none" /\ queue[m] = "gone") \/ main # "running"

\* Every error outcome is eventually in the errors queue, unless the server ends.
ErrorsArePosted ==
  Notifications =>
    \A e \in EventIds, code \in Errors : outcome[e] = code ~> <<e, code>> \in posted \/ ~Up

\* Once it has received the signal to stop, the server stops.
StopEnds == main = "done" ~> ~Up

\* main.go: "Trap Ctrl-C and SIGTERM (Docker/Kubernetes) to shutdown gracefully".
NeverPanics == main # "panicked"

\* README.md: the outcomes "describe whether the event caused a successful
\* transition (with an `Ok` `code`) or there was an error".
OutcomeIsTrue ==
  listener.pc = "idle" => \A e \in EventIds : outcome[e] \in Errors => applied[e] = 0
=============================================================================
