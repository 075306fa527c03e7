---------------------------- MODULE MCRedisStore ----------------------------
(* Entities with plain names, and two pairs whose keys are the same because *)
(* of the separators in their names.                                       *)
EXTENDS RedisStore

E(k, c, i) == [kind |-> k, cfg |-> c, id |-> i]

Outcome == E("outcome", <<"a">>, <<"x">>)
EventOfOutcome == E("event", <<"a", ":", "outcome">>, <<"x">>)
MachineBC == E("fsm", <<"a">>, <<"b", "#", "c">>)
MachineC == E("fsm", <<"a", "#", "b">>, <<"c">>)
PlainEvent == E("event", <<"a">>, <<"x">>)
PlainConfig == E("config", <<>>, <<"a">>)

MCRequests ==
  [op : {"get", "put"}, entity : {Outcome, EventOfOutcome, PlainEvent}, nil : {FALSE}]
    \cup [op : {"put"}, entity : {MachineBC}, nil : {FALSE, TRUE}]
    \cup [op : {"get"}, entity : {MachineC, PlainConfig}, nil : {FALSE}]

MCRetries == {-1, 0, 1, 2, 3}
MCFaults == {"timeout", "error", "marshal"}
=============================================================================
