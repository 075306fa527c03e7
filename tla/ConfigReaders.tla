--------------------------- MODULE ConfigReaders ---------------------------
(***************************************************************************)
(* The gRPC methods that read configurations while calls of ConfigStore    *)
(* write them: GetConfiguration, GetAllConfigurations, and                 *)
(* StreamAllConfigurations, which lists the versions of a name and then    *)
(* reads them one by one.  RedisStore.get is one step that succeeds or     *)
(* fails; its retry loop is in FsmStreams and RedisStore.                  *)
(***************************************************************************)
EXTENDS ConfigStore

CONSTANTS Readers, \* calls of the three methods
          Queries  \* their requests: [method, name, id]
\* Faults may also hold "list", "get" and "send", the failures of a reader.

Methods == {"GetConfiguration", "GetAllConfigurations", "StreamAllConfigurations"}
Query == [method : Methods, name : STRING, id : VersionIds \cup {NoConfig}]

ASSUME QueriesAssumption ==
  /\ Queries \subseteq Query
  /\ NoConfig \notin Queries
  /\ \A q \in Queries : q.method = "GetConfiguration" => q.id \in VersionIds

VARIABLES
  query,  \* the request of each reader; NoConfig before it begins
  at,     \* where a reader is
  todo,   \* the ids that are listed and not yet read
  cur,    \* the id that is being read
  found,  \* the names in the answer of GetAllConfigurations
  sent,   \* the configurations in the answer
  status, \* the status of the answer
  acked   \* auxiliary: the ids of the configurations asked for that a call had
          \* reported as stored when the reader began, if the listing works

readers == <<query, at, todo, cur, found, sent, status, acked>>
allVars == <<vars, readers>>

Statuses == {"none", "OK", "InvalidArgument", "NotFound", "Unknown"}

ReadersTypeOK ==
  /\ query \in [Readers -> Queries \cup {NoConfig}]
  /\ at \in [Readers -> {"new", "list", "loop", "get", "done"}]
  /\ todo \in [Readers -> SUBSET VersionIds]
  /\ cur \in [Readers -> VersionIds \cup {NoConfig}]
  /\ found \in [Readers -> SUBSET Names]
  /\ sent \in [Readers -> SUBSET Requests]
  /\ status \in [Readers -> Statuses]
  /\ acked \in [Readers -> SUBSET VersionIds]

ReadersInit ==
  /\ Init
  /\ query = [r \in Readers |-> NoConfig]
  /\ at = [r \in Readers |-> "new"]
  /\ todo = [r \in Readers |-> {}]
  /\ cur = [r \in Readers |-> NoConfig]
  /\ found = [r \in Readers |-> {}]
  /\ sent = [r \in Readers |-> {}]
  /\ status = [r \in Readers |-> "none"]
  /\ acked = [r \in Readers |-> {}]

-----------------------------------------------------------------------------
Moves(r, l) == at' = [at EXCEPT ![r] = l]

Answers(r, s) == Moves(r, "done") /\ status' = [status EXCEPT ![r] = s]

\* A stream has to name a configuration.
Begin(r, q) ==
  /\ at[r] = "new"
  /\ query' = [query EXCEPT ![r] = q]
  /\ cur' = [cur EXCEPT ![r] = q.id]
  /\ IF q.method = "StreamAllConfigurations" /\ q.name = Unset THEN Answers(r, "InvalidArgument")
     ELSE /\ Moves(r, IF q.method = "GetConfiguration" THEN "get" ELSE "list")
          /\ UNCHANGED status
  /\ acked' = [acked EXCEPT ![r] =
                 {Id(c) : c \in {d \in Calls : ret[d] = "OK" /\ q.name \in {Unset, req[d].name}}}]
  /\ UNCHANGED <<vars, todo, found, sent>>

GetAllConfigs == names

GetAllVersions(n) == IF n \in Names THEN versions[n] ELSE {}

\* SMEMBERS of the names if no name is given, or else of its versions, which are
\* the answer or what the stream is to read.  An error is answered by an empty list.
GetAllConfigurations(r) ==
  /\ at[r] = "list"
  /\ \/ /\ IF query[r].name = Unset
           THEN found' = [found EXCEPT ![r] = GetAllConfigs] /\ UNCHANGED todo
           ELSE todo' = [todo EXCEPT ![r] = GetAllVersions(query[r].name)] /\ UNCHANGED found
        /\ UNCHANGED acked
     \/ /\ "list" \in Faults
        /\ acked' = [acked EXCEPT ![r] = {}]
        /\ UNCHANGED <<found, todo>>
  /\ IF query[r].method = "StreamAllConfigurations" THEN Moves(r, "loop") /\ UNCHANGED status
     ELSE Answers(r, "OK")
  /\ UNCHANGED <<vars, query, cur, sent>>

\* The next id of the loop of StreamAllConfigurations; SMEMBERS has no order.
NextId(r) ==
  /\ at[r] = "loop"
  /\ \/ todo[r] = {} /\ Answers(r, "OK") /\ UNCHANGED <<todo, cur>>
     \/ \E v \in todo[r] :
          /\ todo' = [todo EXCEPT ![r] = @ \ {v}]
          /\ cur' = [cur EXCEPT ![r] = v]
          /\ Moves(r, "get") /\ UNCHANGED status
  /\ UNCHANGED <<vars, query, found, sent, acked>>

\* GET of the configuration, which is then sent to the client.
GetConfig(r) ==
  /\ at[r] = "get"
  /\ config[cur[r]] # NoConfig
  /\ sent' = [sent EXCEPT ![r] = @ \cup {config[cur[r]]}]
  /\ IF query[r].method = "StreamAllConfigurations" THEN Moves(r, "loop") /\ UNCHANGED status
     ELSE Answers(r, "OK")
  /\ UNCHANGED <<vars, query, todo, cur, found, acked>>

\* Mutant: a stream skips a version that it cannot read.
GetConfigSkips(r) ==
  /\ at[r] = "get"
  /\ config[cur[r]] = NoConfig \/ "get" \in Faults \/ "send" \in Faults
  /\ IF query[r].method = "StreamAllConfigurations" THEN Moves(r, "loop") /\ UNCHANGED status
     ELSE Answers(r, "NotFound")
  /\ UNCHANGED <<vars, query, todo, cur, found, sent, acked>>

\* The key does not exist, GET fails or has timed out too often, or the client
\* of the stream is gone.
GetConfigFails(r) ==
  /\ at[r] = "get"
  /\ \/ config[cur[r]] = NoConfig \/ "get" \in Faults
     \/ "send" \in Faults /\ query[r].method = "StreamAllConfigurations"
  /\ Answers(r, IF query[r].method = "StreamAllConfigurations" THEN "Unknown" ELSE "NotFound")
  /\ UNCHANGED <<vars, query, todo, cur, found, sent, acked>>

ReaderStep(r) == GetAllConfigurations(r) \/ NextId(r) \/ GetConfig(r) \/ GetConfigFails(r)

ReadersNext ==
  \/ Next /\ UNCHANGED readers
  \/ \E r \in Readers : ReaderStep(r) \/ \E q \in Queries : Begin(r, q)

ReadersSpec == ReadersInit /\ [][ReadersNext]_allVars

-----------------------------------------------------------------------------
\* An answer OK has all that was reported as stored before the call began: a
\* stream has sent the configuration, a list has its version or its name.
\* Excepted are configurations whose SADD failed, and a failure of SMEMBERS,
\* after which the answer is empty and OK all the same.
AnswerHasAcknowledged ==
  \A r \in Readers : status[r] = "OK" =>
    \A v \in acked[r] \ unlisted :
      CASE query[r].method = "StreamAllConfigurations" ->
             \E cfg \in sent[r] : GetVersionId(cfg) = v
        [] query[r].method = "GetAllConfigurations" -> v \in todo[r] \/ v[1] \in found[r]
        [] OTHER -> TRUE

\* No configuration that was read is ever out of date: it is the one that is
\* stored under its id, now and later, unless its id was raced for.  So a
\* client may cache what GetConfiguration returned.
ReadIsCurrent ==
  \A r \in Readers : \A cfg \in sent[r] :
    GetVersionId(cfg) \in raced \/ config[GetVersionId(cfg)] = cfg
=============================================================================
