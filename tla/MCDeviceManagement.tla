------------------------- MODULE MCDeviceManagement -------------------------
(* Constants of DeviceManagement for model checking. *)
EXTENDS DeviceManagement

\* Instance 1, with room below and above.
MCInitial == [i \in {1} |-> [x \in Writable |-> Zero]]

Asked(op, i, x, items) == [op |-> op, instance |-> i, resource |-> x, items |-> items]
None == LWM2M_MAX_ID
Good == <<[id |-> 1, value |-> 7]>>
Half == <<[id |-> 1, value |-> 7], [id |-> 5, value |-> Bad]>>

\* On the instance there is and on new ones, with data that are refused half way.
MCCommands ==
    {Asked("read", 1, 2, <<>>), Asked("write", 1, None, Half), Asked("update", 1, None, Half),
     Asked("discover", None, None, <<>>), Asked("execute", 1, 2, <<>>), Asked("create", None, None, Good), Asked("create", None, None, Half),
     Asked("delete", 1, None, <<>>), Asked("delete", 0, None, <<>>)}
=============================================================================
