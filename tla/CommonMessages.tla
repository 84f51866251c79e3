-------------------- MODULE CommonMessages --------------------
(* The messages of proto/generated/cpp/common.pb.{h,cc}, one table per function *)
(* that the protocol compiler generated for each of them.  MessageRow says what *)
(* the columns mean.                                                            *)
EXTENDS MessageRow

\* --- Endpoint
Endpoint_class == <<
  <<"host", 1, "String", "">>, <<"region", 3, "String", "">>, <<"port", 2, "UInt32", "">>>>
Endpoint_access == [host |-> 0, port |-> 2, region |-> 1]
Endpoint_copy == [members |-> {"host", "region"},
  sub |-> {}, range |-> <<"port", "port">>]
Endpoint_new == [members |-> {"host", "region"},
  zero |-> <<"port", "port">>]
Endpoint_fast == <<
  <<>>, <<10, 0, "Utf8String", "host">>, <<16, 2, "UInt32", "port">>,
  <<26, 1, "Utf8String", "region">>>>
Endpoint_entries == <<
  <<"host", 0, "Utf8String">>, <<"port", 2, "UInt32">>, <<"region", 1, "Utf8String">>>>
Endpoint_clear == [one |-> {<<0, "host">>, <<1, "region">>},
  batch |-> {}, always |-> {"port"}]
Endpoint_write == <<
  <<0, 1, "String", "host">>, <<2, 2, "UInt32", "port">>, <<1, 3, "String", "region">>>>
Endpoint_size == {
  <<0, 1, "String", "host">>, <<1, 1, "String", "region">>, <<2, 1, "UInt32", "port">>}
Endpoint_merge == {<<0, "host">>, <<1, "region">>, <<2, "port">>}
Endpoint_swap == [one |-> {"host", "region", "port"},
  range |-> <<>>]

\* --- WorldEntryNode
\* Mutant: Clear leaves the last member of the second group alone.
WorldEntryNode_clearShort == [
  one |-> {<<0, "endpoints">>, <<1, "server_code">>, <<2, "display_name">>, <<3, "region">>},
  batch |-> {<<{4, 5, 6, 7}, "world_id", "population">>, <<{8, 9}, "capacity", "capacity">>},
  always |-> {}]
WorldEntryNode_class == <<
  <<"endpoints", 10, "Repeated", "Endpoint">>, <<"server_code", 2, "String", "">>,
  <<"display_name", 3, "String", "">>, <<"region", 4, "String", "">>,
  <<"world_id", 1, "UInt32", "">>, <<"status", 5, "Int", "">>,
  <<"recommended", 6, "Bool", "">>, <<"population", 7, "UInt32", "">>,
  <<"capacity", 8, "UInt32", "">>, <<"transfer_policy", 9, "Int", "">>>>
WorldEntryNode_access == [
  world_id |-> 4, server_code |-> 1, display_name |-> 2, region |-> 3, status |-> 5,
  recommended |-> 6, population |-> 7, capacity |-> 8, transfer_policy |-> 9, endpoints |-> 0]
WorldEntryNode_copy == [members |-> {"endpoints", "server_code", "display_name", "region"},
  sub |-> {}, range |-> <<"world_id", "transfer_policy">>]
WorldEntryNode_new == [members |-> {"endpoints", "server_code", "display_name", "region"},
  zero |-> <<"world_id", "transfer_policy">>]
WorldEntryNode_fast == <<
  <<>>, <<8, 4, "UInt32", "world_id">>, <<18, 1, "Utf8String", "server_code">>,
  <<26, 2, "Utf8String", "display_name">>, <<34, 3, "Utf8String", "region">>,
  <<40, 5, "UInt32", "status">>, <<48, 6, "Bool", "recommended">>,
  <<56, 7, "UInt32", "population">>, <<64, 8, "UInt32", "capacity">>,
  <<72, 9, "UInt32", "transfer_policy">>, <<82, 0, "Repeated", "endpoints">>, <<>>, <<>>, <<>>,
  <<>>, <<>>>>
WorldEntryNode_entries == <<
  <<"world_id", 4, "UInt32">>, <<"server_code", 1, "Utf8String">>,
  <<"display_name", 2, "Utf8String">>, <<"region", 3, "Utf8String">>,
  <<"status", 5, "OpenEnum">>, <<"recommended", 6, "Bool">>, <<"population", 7, "UInt32">>,
  <<"capacity", 8, "UInt32">>, <<"transfer_policy", 9, "OpenEnum">>,
  <<"endpoints", 0, "Repeated">>>>
WorldEntryNode_clear == [one |-> {<<0, "endpoints">>, <<1, "server_code">>, <<2, "display_name">>, <<3, "region">>},
  batch |-> {<<{4, 5, 6, 7}, "world_id", "population">>, <<{8, 9}, "capacity", "transfer_policy">>}, always |-> {}]
WorldEntryNode_write == <<
  <<4, 1, "UInt32", "world_id">>, <<1, 2, "String", "server_code">>,
  <<2, 3, "String", "display_name">>, <<3, 4, "String", "region">>, <<5, 5, "Enum", "status">>,
  <<6, 6, "Bool", "recommended">>, <<7, 7, "UInt32", "population">>,
  <<8, 8, "UInt32", "capacity">>, <<9, 9, "Enum", "transfer_policy">>,
  <<0, 10, "Message", "endpoints">>>>
WorldEntryNode_size == {
  <<0, 1, "Message", "endpoints">>, <<1, 1, "String", "server_code">>,
  <<2, 1, "String", "display_name">>, <<3, 1, "String", "region">>,
  <<4, 1, "UInt32", "world_id">>, <<5, 1, "Enum", "status">>, <<6, 1, "Bool", "recommended">>,
  <<7, 1, "UInt32", "population">>, <<8, 1, "UInt32", "capacity">>,
  <<9, 1, "Enum", "transfer_policy">>}
WorldEntryNode_merge == {
  <<0, "endpoints">>, <<1, "server_code">>, <<2, "display_name">>, <<3, "region">>,
  <<4, "world_id">>, <<5, "status">>, <<6, "recommended">>, <<7, "population">>,
  <<8, "capacity">>, <<9, "transfer_policy">>}
WorldEntryNode_swap == [one |-> {"endpoints", "server_code", "display_name", "region"},
  range |-> <<"world_id", "transfer_policy">>]

\* The messages of the file, by name.
Common == [
  Endpoint |-> Row(Endpoint_class, Endpoint_access, Endpoint_copy, Endpoint_new,
    Endpoint_fast, Endpoint_entries, Endpoint_clear, Endpoint_write,
    Endpoint_size, Endpoint_merge, Endpoint_swap),
  WorldEntryNode |-> Row(WorldEntryNode_class, WorldEntryNode_access, WorldEntryNode_copy, WorldEntryNode_new,
    WorldEntryNode_fast, WorldEntryNode_entries, WorldEntryNode_clear, WorldEntryNode_write,
    WorldEntryNode_size, WorldEntryNode_merge, WorldEntryNode_swap)]
============================================================================
