-------------------- MODULE AccountMessages --------------------
(* The messages of proto/generated/cpp/internal_login_account.pb.{h,cc}, one    *)
(* table per generated function (MessageRow says what the columns mean).  Their *)
(* world list messages have the names of two client messages: the codec knows   *)
(* them as AccountWorldListRequest and AccountWorldListResponse.                *)
EXTENDS MessageRow

\* --- AuthResult
AuthResult_class == <<
  <<"world_entries", 4, "Repeated", "WorldEntryNode">>, <<"login_session", 3, "String", "">>,
  <<"fail_reason", 5, "String", "">>, <<"account_id", 2, "UInt64", "">>,
  <<"ok", 1, "Bool", "">>>>
AuthResult_access == [
  ok |-> 4, account_id |-> 3, login_session |-> 1, world_entries |-> 0, fail_reason |-> 2]
AuthResult_copy == [members |-> {"world_entries", "login_session", "fail_reason"},
  sub |-> {}, range |-> <<"account_id", "ok">>]
AuthResult_new == [members |-> {"world_entries", "login_session", "fail_reason"},
  zero |-> <<"account_id", "ok">>]
AuthResult_fast == <<
  <<>>, <<8, 4, "Bool", "ok">>, <<16, 3, "UInt64", "account_id">>,
  <<26, 1, "Utf8String", "login_session">>, <<34, 0, "Repeated", "world_entries">>,
  <<42, 2, "Utf8String", "fail_reason">>, <<>>, <<>>>>
AuthResult_entries == <<
  <<"ok", 4, "Bool">>, <<"account_id", 3, "UInt64">>, <<"login_session", 1, "Utf8String">>,
  <<"world_entries", 0, "Repeated">>, <<"fail_reason", 2, "Utf8String">>>>
AuthResult_clear == [one |-> {<<0, "world_entries">>, <<1, "login_session">>, <<2, "fail_reason">>},
  batch |-> {<<{3, 4}, "account_id", "ok">>}, always |-> {}]
AuthResult_write == <<
  <<4, 1, "Bool", "ok">>, <<3, 2, "UInt64", "account_id">>,
  <<1, 3, "String", "login_session">>, <<0, 4, "Message", "world_entries">>,
  <<2, 5, "String", "fail_reason">>>>
AuthResult_size == {
  <<0, 1, "Message", "world_entries">>, <<1, 1, "String", "login_session">>,
  <<2, 1, "String", "fail_reason">>, <<3, 1, "UInt64", "account_id">>, <<4, 1, "Bool", "ok">>}
AuthResult_merge == {
  <<0, "world_entries">>, <<1, "login_session">>, <<2, "fail_reason">>, <<3, "account_id">>,
  <<4, "ok">>}
AuthResult_swap == [one |-> {"world_entries", "login_session", "fail_reason"},
  range |-> <<"account_id", "ok">>]

\* --- WorldListRequest
WorldListRequest_class == <<
  <<"login_session", 4, "String", "">>, <<"trace_id", 1, "UInt64", "">>,
  <<"request_id", 2, "UInt64", "">>, <<"account_id", 3, "UInt64", "">>>>
WorldListRequest_access == [
  trace_id |-> 1, request_id |-> 2, account_id |-> 3, login_session |-> 0]
WorldListRequest_copy == [members |-> {"login_session"},
  sub |-> {}, range |-> <<"trace_id", "account_id">>]
WorldListRequest_new == [members |-> {"login_session"},
  zero |-> <<"trace_id", "account_id">>]
WorldListRequest_fast == <<
  <<34, 0, "Utf8String", "login_session">>, <<8, 1, "UInt64", "trace_id">>,
  <<16, 2, "UInt64", "request_id">>, <<24, 3, "UInt64", "account_id">>>>
WorldListRequest_entries == <<
  <<"trace_id", 1, "UInt64">>, <<"request_id", 2, "UInt64">>, <<"account_id", 3, "UInt64">>,
  <<"login_session", 0, "Utf8String">>>>
WorldListRequest_clear == [one |-> {<<0, "login_session">>},
  batch |-> {<<{1, 2, 3}, "trace_id", "account_id">>}, always |-> {}]
WorldListRequest_write == <<
  <<1, 1, "UInt64", "trace_id">>, <<2, 2, "UInt64", "request_id">>,
  <<3, 3, "UInt64", "account_id">>, <<0, 4, "String", "login_session">>>>
WorldListRequest_size == {
  <<0, 1, "String", "login_session">>, <<1, 1, "UInt64", "trace_id">>,
  <<2, 1, "UInt64", "request_id">>, <<3, 1, "UInt64", "account_id">>}
WorldListRequest_merge == {
  <<0, "login_session">>, <<1, "trace_id">>, <<2, "request_id">>, <<3, "account_id">>}
WorldListRequest_swap == [one |-> {"login_session"},
  range |-> <<"trace_id", "account_id">>]

\* --- WorldListResponse
WorldListResponse_class == <<
  <<"world_entries", 4, "Repeated", "WorldEntryNode">>, <<"fail_reason", 5, "String", "">>,
  <<"trace_id", 1, "UInt64", "">>, <<"request_id", 2, "UInt64", "">>, <<"ok", 3, "Bool", "">>>>
WorldListResponse_access == [
  trace_id |-> 2, request_id |-> 3, ok |-> 4, world_entries |-> 0, fail_reason |-> 1]
WorldListResponse_copy == [members |-> {"world_entries", "fail_reason"},
  sub |-> {}, range |-> <<"trace_id", "ok">>]
WorldListResponse_new == [members |-> {"world_entries", "fail_reason"},
  zero |-> <<"trace_id", "ok">>]
WorldListResponse_fast == <<
  <<>>, <<8, 2, "UInt64", "trace_id">>, <<16, 3, "UInt64", "request_id">>,
  <<24, 4, "Bool", "ok">>, <<34, 0, "Repeated", "world_entries">>,
  <<42, 1, "Utf8String", "fail_reason">>, <<>>, <<>>>>
WorldListResponse_entries == <<
  <<"trace_id", 2, "UInt64">>, <<"request_id", 3, "UInt64">>, <<"ok", 4, "Bool">>,
  <<"world_entries", 0, "Repeated">>, <<"fail_reason", 1, "Utf8String">>>>
WorldListResponse_clear == [one |-> {<<0, "world_entries">>, <<1, "fail_reason">>},
  batch |-> {<<{2, 3, 4}, "trace_id", "ok">>}, always |-> {}]
WorldListResponse_write == <<
  <<2, 1, "UInt64", "trace_id">>, <<3, 2, "UInt64", "request_id">>, <<4, 3, "Bool", "ok">>,
  <<0, 4, "Message", "world_entries">>, <<1, 5, "String", "fail_reason">>>>
WorldListResponse_size == {
  <<0, 1, "Message", "world_entries">>, <<1, 1, "String", "fail_reason">>,
  <<2, 1, "UInt64", "trace_id">>, <<3, 1, "UInt64", "request_id">>, <<4, 1, "Bool", "ok">>}
WorldListResponse_merge == {
  <<0, "world_entries">>, <<1, "fail_reason">>, <<2, "trace_id">>, <<3, "request_id">>,
  <<4, "ok">>}
WorldListResponse_swap == [one |-> {"world_entries", "fail_reason"},
  range |-> <<"trace_id", "ok">>]

\* The messages of the file, by name.
Account == [
  AccountAuthResult |-> Row(AuthResult_class, AuthResult_access, AuthResult_copy, AuthResult_new,
    AuthResult_fast, AuthResult_entries, AuthResult_clear, AuthResult_write,
    AuthResult_size, AuthResult_merge, AuthResult_swap),
  AccountWorldListRequest |-> Row(WorldListRequest_class, WorldListRequest_access, WorldListRequest_copy, WorldListRequest_new,
    WorldListRequest_fast, WorldListRequest_entries, WorldListRequest_clear, WorldListRequest_write,
    WorldListRequest_size, WorldListRequest_merge, WorldListRequest_swap),
  AccountWorldListResponse |-> Row(WorldListResponse_class, WorldListResponse_access, WorldListResponse_copy, WorldListResponse_new,
    WorldListResponse_fast, WorldListResponse_entries, WorldListResponse_clear, WorldListResponse_write,
    WorldListResponse_size, WorldListResponse_merge, WorldListResponse_swap)]
============================================================================
