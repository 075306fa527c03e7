---------------------------- MODULE ConfigStore ----------------------------
(***************************************************************************)
(* The configurations in Redis and the gRPC method PutConfiguration, one   *)
(* step per Redis command of RedisStore.PutConfig: EXISTS, SADD to the set *)
(* of names, SADD to the set of versions of the name, SET.  The results of *)
(* EXISTS and of the two SADDs are not checked for errors.                 *)
(***************************************************************************)
EXTENDS Configurations

CONSTANTS Calls,      \* calls of PutConfiguration, in any server
          Requests,   \* the configurations that may be put
          NoConfig,   \* stands for a key that does not exist
          MaxRetries, \* attempts of RedisStore.put
          Faults      \* the kinds of failure that may happen, a subset of
                      \* {"read", "index", "write", "late", "deadline", "crash"}

ASSUME RequestsAssumption == Requests \subseteq Configuration
ASSUME NoConfigAssumption == NoConfig \notin Configuration
ASSUME MaxRetriesAssumption == MaxRetries \in Nat \ {0}

Names == {r.name : r \in Requests}
VersionIds == {GetVersionId(r) : r \in Requests}

VARIABLES
  config,   \* Redis: the configuration stored at configs#<name>:<version>
  names,    \* Redis: the SET configs
  versions, \* Redis: the SETs configs#<name>
  late,     \* Redis: how many SETs of a call are still to be executed
  req,      \* the argument of each call
  pc,       \* where a call is
  tries,    \* failed attempts of put
  ret,      \* what a call returned; "none" if its server crashed
  raced,    \* auxiliary: ids put by overlapping calls or after a failed EXISTS;
            \* a call goes on until the last of its SETs is executed
  unlisted  \* auxiliary: ids for which an SADD failed

redis == <<config, names, versions, late>>
aux == <<raced, unlisted>>
vars == <<redis, req, pc, tries, ret, aux>>

TypeOK ==
  /\ config \in [VersionIds -> Requests \cup {NoConfig}]
  /\ names \subseteq Names
  /\ versions \in [Names -> SUBSET VersionIds]
  /\ late \in [Calls -> Nat]
  /\ req \in [Calls -> Requests]
  /\ pc \in [Calls -> {"new", "exists", "names", "versions", "put", "done"}]
  /\ tries \in [Calls -> Nat] /\ \A c \in Calls : tries[c] <= MaxRetries
  /\ ret \in [Calls -> {"none", "OK", "InvalidArgument", "AlreadyExists", "Internal",
                        "DeadlineExceeded"}]
  /\ raced \subseteq VersionIds /\ unlisted \subseteq VersionIds

Init ==
  /\ config = [v \in VersionIds |-> NoConfig]
  /\ names = {}
  /\ versions = [n \in Names |-> {}]
  /\ late = [c \in Calls |-> 0]
  /\ req \in [Calls -> Requests]
  /\ pc = [c \in Calls |-> "new"]
  /\ tries = [c \in Calls |-> 0]
  /\ ret = [c \in Calls |-> "none"]
  /\ raced = {} /\ unlisted = {}

-----------------------------------------------------------------------------
Id(c) == GetVersionId(req[c])

InFlight(c) == pc[c] \notin {"new", "done"}

Goto(c, l) == pc' = [pc EXCEPT ![c] = l]

Return(c, r) == Goto(c, "done") /\ ret' = [ret EXCEPT ![c] = r]

Start(c) ==
  /\ pc[c] = "new"
  /\ CheckValid(req[c])
  /\ Goto(c, "exists")
  /\ raced' = IF \E d \in Calls : (InFlight(d) \/ late[d] > 0) /\ Id(d) = Id(c)
              THEN raced \cup {Id(c)} ELSE raced
  /\ UNCHANGED <<redis, req, tries, ret, unlisted>>

\* CheckValid returned an error, or the deadline of the request has passed.
Refuse(c) ==
  /\ pc[c] = "new"
  /\ \/ ~CheckValid(req[c]) /\ Return(c, "InvalidArgument")
     \/ CheckValid(req[c]) /\ "deadline" \in Faults /\ Return(c, "DeadlineExceeded")
  /\ UNCHANGED <<redis, req, tries, aux>>

\* Mutant: an existing configuration is not looked for.
ExistsUnchecked(c) ==
  /\ pc[c] = "exists"
  /\ Goto(c, "names")
  /\ UNCHANGED <<redis, req, tries, ret, aux>>

Exists(c) ==
  /\ pc[c] = "exists"
  /\ IF config[Id(c)] # NoConfig THEN Return(c, "AlreadyExists")
     ELSE Goto(c, "names") /\ UNCHANGED ret
  /\ UNCHANGED <<redis, req, tries, aux>>

\* The Val() of a failed command is 0: the configuration is taken to be new.
ExistsFails(c) ==
  /\ pc[c] = "exists"
  /\ "read" \in Faults
  /\ Goto(c, "names")
  /\ raced' = raced \cup {Id(c)}
  /\ UNCHANGED <<redis, req, tries, ret, unlisted>>

\* The error of an SADD is ignored.
SAddFails(c) == "index" \in Faults /\ unlisted' = unlisted \cup {Id(c)}

AddName(c) ==
  /\ pc[c] = "names"
  /\ \/ names' = names \cup {req[c].name} /\ UNCHANGED unlisted
     \/ SAddFails(c) /\ UNCHANGED names
  /\ Goto(c, "versions")
  /\ UNCHANGED <<config, versions, late, req, tries, ret, raced>>

\* Mutant: the SET of the versions is not updated.
AddNoVersion(c) ==
  /\ pc[c] = "versions"
  /\ Goto(c, "put")
  /\ UNCHANGED <<redis, req, tries, ret, aux>>

AddVersion(c) ==
  /\ pc[c] = "versions"
  /\ \/ versions' = [versions EXCEPT ![req[c].name] = @ \cup {Id(c)}] /\ UNCHANGED unlisted
     \/ SAddFails(c) /\ UNCHANGED versions
  /\ Goto(c, "put")
  /\ UNCHANGED <<config, names, late, req, tries, ret, raced>>

Set(c) == config' = [config EXCEPT ![Id(c)] = req[c]]

\* put succeeds.  The deadline is checked once more before replying.
Put(c) ==
  /\ pc[c] = "put"
  /\ Set(c)
  /\ \/ Return(c, "OK")
     \/ "deadline" \in Faults /\ Return(c, "DeadlineExceeded")
  /\ UNCHANGED <<names, versions, late, req, tries, aux>>

\* What becomes of a SET that gets no answer: nothing calls it back.
Unanswered(c) ==
  \/ Set(c) /\ UNCHANGED late
  \/ UNCHANGED <<config, late>>
  \/ "late" \in Faults /\ late' = [late EXCEPT ![c] = @ + 1] /\ UNCHANGED config

\* Mutant: put reports success when its attempts are used up.
PutTimesOutForgotten(c) ==
  /\ pc[c] = "put"
  /\ "write" \in Faults
  /\ Unanswered(c)
  /\ tries' = [tries EXCEPT ![c] = @ + 1]
  /\ IF tries[c] + 1 = MaxRetries THEN Return(c, "OK") ELSE UNCHANGED <<pc, ret>>
  /\ UNCHANGED <<names, versions, req, aux>>

\* The deadline of one attempt of put.
PutTimesOut(c) ==
  /\ pc[c] = "put"
  /\ "write" \in Faults
  /\ Unanswered(c)
  /\ tries' = [tries EXCEPT ![c] = @ + 1]
  /\ IF tries[c] + 1 = MaxRetries THEN Return(c, "Internal") ELSE UNCHANGED <<pc, ret>>
  /\ UNCHANGED <<names, versions, req, aux>>

\* Any other error of the SET is not retried.
PutFails(c) ==
  /\ pc[c] = "put"
  /\ "write" \in Faults
  /\ Unanswered(c)
  /\ Return(c, "Internal")
  /\ UNCHANGED <<names, versions, req, tries, aux>>

\* Redis executes a SET that no call waits for any more.
LateSet(c) ==
  /\ late[c] > 0
  /\ Set(c)
  /\ late' = [late EXCEPT ![c] = @ - 1]
  /\ UNCHANGED <<names, versions, req, pc, tries, ret, aux>>

\* The server stops, between two commands or while it waits for the SET.
Crash(c) ==
  /\ InFlight(c)
  /\ "crash" \in Faults
  /\ IF pc[c] = "put" THEN Unanswered(c) ELSE UNCHANGED <<config, late>>
  /\ Goto(c, "done")
  /\ UNCHANGED <<names, versions, req, tries, ret, aux>>

Step(c) ==
  \/ Exists(c) \/ ExistsFails(c) \/ AddName(c) \/ AddVersion(c)
  \/ Put(c) \/ PutTimesOut(c) \/ PutFails(c)

Next == \E c \in Calls : Start(c) \/ Refuse(c) \/ Step(c) \/ LateSet(c) \/ Crash(c)

Spec == Init /\ [][Next]_vars

-----------------------------------------------------------------------------
\* README.md: "Once created, a versioned configuration is **immutable** and
\* cannot be changed".
Immutable ==
  [][\A v \in VersionIds : config[v] # NoConfig => config'[v] = config[v]]_vars

\* A stored configuration never changes, unless PutConfig was called for it
\* twice at the same time, one of the calls had no answer to EXISTS, or a SET of
\* a call that had failed was executed after the next one began.
ImmutableUnlessRaced ==
  [][\A v \in VersionIds \ raced : config[v] # NoConfig => config'[v] = config[v]]_vars

\* Whoever was told that a configuration is stored finds it under its id.
AcknowledgedIsStored ==
  \A c \in Calls :
    ret[c] = "OK" => /\ config[Id(c)] # NoConfig
                     /\ Id(c) \in raced \/ config[Id(c)] = req[c]

\* A stored configuration is listed by GetAllConfigs and GetAllVersions, even
\* if the call that stored it failed or crashed: it is listed before it is
\* stored.  An error of SADD, which PutConfig does not look at, is excepted.
StoredIsListed ==
  \A v \in VersionIds \ unlisted :
    config[v] # NoConfig => v[1] \in names /\ v \in versions[v[1]]

\* A version that is listed and cannot be read, on which StreamAllConfigurations
\* fails, is one that is being put, or whose put failed or crashed.
UnreadableOnlyAfterFailure ==
  \A n \in Names : \A v \in versions[n] :
    config[v] = NoConfig =>
      \E c \in Calls : Id(c) = v /\ pc[c] # "new" /\ ret[c] \in {"none", "Internal"}
=============================================================================
