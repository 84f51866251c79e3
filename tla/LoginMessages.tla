-------------------- MODULE LoginMessages --------------------
(* The messages of proto/generated/cpp/client_login.pb.{h,cc}, one table per       *)
(* generated function (MessageRow says what the columns mean).                 *)
EXTENDS MessageRow

\* --- LoginRequest
LoginRequest_class == <<
  <<"login_id", 1, "String", "">>, <<"password", 2, "String", "">>,
  <<"client_version", 3, "String", "">>>>
LoginRequest_access == [login_id |-> 0, password |-> 1, client_version |-> 2]
LoginRequest_copy == [members |-> {"login_id", "password", "client_version"},
  sub |-> {}, range |-> <<>>]
LoginRequest_new == [members |-> {"login_id", "password", "client_version"},
  zero |-> <<>>]
LoginRequest_fast == <<
  <<>>, <<10, 0, "Utf8String", "login_id">>, <<18, 1, "Utf8String", "password">>,
  <<26, 2, "Utf8String", "client_version">>>>
LoginRequest_entries == <<
  <<"login_id", 0, "Utf8String">>, <<"password", 1, "Utf8String">>,
  <<"client_version", 2, "Utf8String">>>>
LoginRequest_clear == [one |-> {<<0, "login_id">>, <<1, "password">>, <<2, "client_version">>},
  batch |-> {}, always |-> {}]
LoginRequest_write == <<
  <<0, 1, "String", "login_id">>, <<1, 2, "String", "password">>,
  <<2, 3, "String", "client_version">>>>
LoginRequest_size == {
  <<0, 1, "String", "login_id">>, <<1, 1, "String", "password">>,
  <<2, 1, "String", "client_version">>}
LoginRequest_merge == {<<0, "login_id">>, <<1, "password">>, <<2, "client_version">>}
LoginRequest_swap == [one |-> {"login_id", "password", "client_version"},
  range |-> <<>>]

\* --- LoginResult
LoginResult_class == <<
  <<"world_entries", 4, "Repeated", "WorldEntryNode">>, <<"login_session", 3, "String", "">>,
  <<"fail_reason", 5, "String", "">>, <<"account_id", 2, "UInt64", "">>,
  <<"ok", 1, "Bool", "">>>>
LoginResult_access == [
  ok |-> 4, account_id |-> 3, login_session |-> 1, world_entries |-> 0, fail_reason |-> 2]
LoginResult_copy == [members |-> {"world_entries", "login_session", "fail_reason"},
  sub |-> {}, range |-> <<"account_id", "ok">>]
LoginResult_new == [members |-> {"world_entries", "login_session", "fail_reason"},
  zero |-> <<"account_id", "ok">>]
LoginResult_fast == <<
  <<>>, <<8, 4, "Bool", "ok">>, <<16, 3, "UInt64", "account_id">>,
  <<26, 1, "Utf8String", "login_session">>, <<34, 0, "Repeated", "world_entries">>,
  <<42, 2, "Utf8String", "fail_reason">>, <<>>, <<>>>>
LoginResult_entries == <<
  <<"ok", 4, "Bool">>, <<"account_id", 3, "UInt64">>, <<"login_session", 1, "Utf8String">>,
  <<"world_entries", 0, "Repeated">>, <<"fail_reason", 2, "Utf8String">>>>
LoginResult_clear == [one |-> {<<0, "world_entries">>, <<1, "login_session">>, <<2, "fail_reason">>},
  batch |-> {<<{3, 4}, "account_id", "ok">>}, always |-> {}]
LoginResult_write == <<
  <<4, 1, "Bool", "ok">>, <<3, 2, "UInt64", "account_id">>,
  <<1, 3, "String", "login_session">>, <<0, 4, "Message", "world_entries">>,
  <<2, 5, "String", "fail_reason">>>>
LoginResult_size == {
  <<0, 1, "Message", "world_entries">>, <<1, 1, "String", "login_session">>,
  <<2, 1, "String", "fail_reason">>, <<3, 1, "UInt64", "account_id">>, <<4, 1, "Bool", "ok">>}
LoginResult_merge == {
  <<0, "world_entries">>, <<1, "login_session">>, <<2, "fail_reason">>, <<3, "account_id">>,
  <<4, "ok">>}
LoginResult_swap == [one |-> {"world_entries", "login_session", "fail_reason"},
  range |-> <<"account_id", "ok">>]

\* --- WorldListRequest
WorldListRequest_class == <<
  <<"login_session", 2, "String", "">>, <<"account_id", 1, "UInt64", "">>>>
WorldListRequest_access == [account_id |-> 1, login_session |-> 0]
WorldListRequest_copy == [members |-> {"login_session"},
  sub |-> {}, range |-> <<"account_id", "account_id">>]
WorldListRequest_new == [members |-> {"login_session"},
  zero |-> <<"account_id", "account_id">>]
WorldListRequest_fast == <<
  <<18, 0, "Utf8String", "login_session">>, <<8, 1, "UInt64", "account_id">>>>
WorldListRequest_entries == <<
  <<"account_id", 1, "UInt64">>, <<"login_session", 0, "Utf8String">>>>
WorldListRequest_clear == [one |-> {<<0, "login_session">>},
  batch |-> {}, always |-> {"account_id"}]
WorldListRequest_write == <<
  <<1, 1, "UInt64", "account_id">>, <<0, 2, "String", "login_session">>>>
WorldListRequest_size == {<<0, 1, "String", "login_session">>, <<1, 1, "UInt64", "account_id">>}
WorldListRequest_merge == {<<0, "login_session">>, <<1, "account_id">>}
WorldListRequest_swap == [one |-> {"login_session", "account_id"},
  range |-> <<>>]

\* --- WorldListResponse
WorldListResponse_class == <<
  <<"world_entries", 2, "Repeated", "WorldEntryNode">>, <<"fail_reason", 3, "String", "">>,
  <<"ok", 1, "Bool", "">>>>
WorldListResponse_access == [ok |-> 2, world_entries |-> 0, fail_reason |-> 1]
WorldListResponse_copy == [members |-> {"world_entries", "fail_reason"},
  sub |-> {}, range |-> <<"ok", "ok">>]
WorldListResponse_new == [members |-> {"world_entries", "fail_reason"},
  zero |-> <<"ok", "ok">>]
WorldListResponse_fast == <<
  <<>>, <<8, 2, "Bool", "ok">>, <<18, 0, "Repeated", "world_entries">>,
  <<26, 1, "Utf8String", "fail_reason">>>>
WorldListResponse_entries == <<
  <<"ok", 2, "Bool">>, <<"world_entries", 0, "Repeated">>, <<"fail_reason", 1, "Utf8String">>>>
WorldListResponse_clear == [one |-> {<<0, "world_entries">>, <<1, "fail_reason">>},
  batch |-> {}, always |-> {"ok"}]
WorldListResponse_write == <<
  <<2, 1, "Bool", "ok">>, <<0, 2, "Message", "world_entries">>,
  <<1, 3, "String", "fail_reason">>>>
WorldListResponse_size == {
  <<0, 1, "Message", "world_entries">>, <<1, 1, "String", "fail_reason">>,
  <<2, 1, "Bool", "ok">>}
WorldListResponse_merge == {<<0, "world_entries">>, <<1, "fail_reason">>, <<2, "ok">>}
WorldListResponse_swap == [one |-> {"world_entries", "fail_reason", "ok"},
  range |-> <<>>]

\* --- WorldSelectRequest
WorldSelectRequest_class == <<
  <<"server_code", 2, "String", "">>, <<"world_id", 1, "UInt32", "">>>>
WorldSelectRequest_access == [world_id |-> 1, server_code |-> 0]
WorldSelectRequest_copy == [members |-> {"server_code"},
  sub |-> {}, range |-> <<"world_id", "world_id">>]
WorldSelectRequest_new == [members |-> {"server_code"},
  zero |-> <<"world_id", "world_id">>]
WorldSelectRequest_fast == <<
  <<18, 0, "Utf8String", "server_code">>, <<8, 1, "UInt32", "world_id">>>>
WorldSelectRequest_entries == <<
  <<"world_id", 1, "UInt32">>, <<"server_code", 0, "Utf8String">>>>
WorldSelectRequest_clear == [one |-> {<<0, "server_code">>},
  batch |-> {}, always |-> {"world_id"}]
WorldSelectRequest_write == <<
  <<1, 1, "UInt32", "world_id">>, <<0, 2, "String", "server_code">>>>
WorldSelectRequest_size == {<<0, 1, "String", "server_code">>, <<1, 1, "UInt32", "world_id">>}
WorldSelectRequest_merge == {<<0, "server_code">>, <<1, "world_id">>}
WorldSelectRequest_swap == [one |-> {"server_code", "world_id"},
  range |-> <<>>]

\* --- WorldSelectResponse
\* Mutant: the parser marks the sub-message with the bit of another field.
WorldSelectResponse_fastBit == <<
  <<>>, <<8, 3, "Bool", "ok">>, <<16, 4, "UInt32", "world_id">>,
  <<26, 0, "Utf8String", "server_code">>, <<34, 3, "Message", "selected_entry">>,
  <<42, 1, "Utf8String", "fail_reason">>, <<>>, <<>>>>
WorldSelectResponse_class == <<
  <<"server_code", 3, "String", "">>, <<"fail_reason", 5, "String", "">>,
  <<"selected_entry", 4, "Message", "WorldEntryNode">>, <<"ok", 1, "Bool", "">>,
  <<"world_id", 2, "UInt32", "">>>>
WorldSelectResponse_access == [
  ok |-> 3, world_id |-> 4, server_code |-> 0, selected_entry |-> 2, fail_reason |-> 1]
WorldSelectResponse_copy == [members |-> {"server_code", "fail_reason"},
  sub |-> {<<2, "selected_entry">>}, range |-> <<"ok", "world_id">>]
WorldSelectResponse_new == [members |-> {"server_code", "fail_reason"},
  zero |-> <<"selected_entry", "world_id">>]
WorldSelectResponse_fast == <<
  <<>>, <<8, 3, "Bool", "ok">>, <<16, 4, "UInt32", "world_id">>,
  <<26, 0, "Utf8String", "server_code">>, <<34, 2, "Message", "selected_entry">>,
  <<42, 1, "Utf8String", "fail_reason">>, <<>>, <<>>>>
WorldSelectResponse_entries == <<
  <<"ok", 3, "Bool">>, <<"world_id", 4, "UInt32">>, <<"server_code", 0, "Utf8String">>,
  <<"selected_entry", 2, "Message">>, <<"fail_reason", 1, "Utf8String">>>>
WorldSelectResponse_clear == [one |-> {<<0, "server_code">>, <<1, "fail_reason">>, <<2, "selected_entry">>},
  batch |-> {<<{3, 4}, "ok", "world_id">>}, always |-> {}]
WorldSelectResponse_write == <<
  <<3, 1, "Bool", "ok">>, <<4, 2, "UInt32", "world_id">>, <<0, 3, "String", "server_code">>,
  <<2, 4, "Message", "selected_entry">>, <<1, 5, "String", "fail_reason">>>>
WorldSelectResponse_size == {
  <<0, 1, "String", "server_code">>, <<1, 1, "String", "fail_reason">>,
  <<2, 1, "Message", "selected_entry">>, <<3, 1, "Bool", "ok">>, <<4, 1, "UInt32", "world_id">>}
WorldSelectResponse_merge == {
  <<0, "server_code">>, <<1, "fail_reason">>, <<2, "selected_entry">>, <<3, "ok">>,
  <<4, "world_id">>}
WorldSelectResponse_swap == [one |-> {"server_code", "fail_reason"},
  range |-> <<"selected_entry", "world_id">>]

\* --- CharacterSummary
CharacterSummary_class == <<
  <<"name", 2, "String", "">>, <<"char_id", 1, "UInt64", "">>, <<"level", 3, "UInt32", "">>,
  <<"job", 4, "UInt32", "">>, <<"last_login_at_epoch_sec", 6, "UInt64", "">>,
  <<"appearance_code", 5, "UInt32", "">>>>
CharacterSummary_access == [
  char_id |-> 1, name |-> 0, level |-> 2, job |-> 3, appearance_code |-> 5,
  last_login_at_epoch_sec |-> 4]
CharacterSummary_copy == [members |-> {"name"},
  sub |-> {}, range |-> <<"char_id", "appearance_code">>]
CharacterSummary_new == [members |-> {"name"},
  zero |-> <<"char_id", "appearance_code">>]
CharacterSummary_fast == <<
  <<>>, <<8, 1, "UInt64", "char_id">>, <<18, 0, "Utf8String", "name">>,
  <<24, 2, "UInt32", "level">>, <<32, 3, "UInt32", "job">>,
  <<40, 5, "UInt32", "appearance_code">>, <<48, 4, "UInt64", "last_login_at_epoch_sec">>, <<>>>>
CharacterSummary_entries == <<
  <<"char_id", 1, "UInt64">>, <<"name", 0, "Utf8String">>, <<"level", 2, "UInt32">>,
  <<"job", 3, "UInt32">>, <<"appearance_code", 5, "UInt32">>,
  <<"last_login_at_epoch_sec", 4, "UInt64">>>>
CharacterSummary_clear == [one |-> {<<0, "name">>},
  batch |-> {<<{1, 2, 3, 4, 5}, "char_id", "appearance_code">>}, always |-> {}]
CharacterSummary_write == <<
  <<1, 1, "UInt64", "char_id">>, <<0, 2, "String", "name">>, <<2, 3, "UInt32", "level">>,
  <<3, 4, "UInt32", "job">>, <<5, 5, "UInt32", "appearance_code">>,
  <<4, 6, "UInt64", "last_login_at_epoch_sec">>>>
CharacterSummary_size == {
  <<0, 1, "String", "name">>, <<1, 1, "UInt64", "char_id">>, <<2, 1, "UInt32", "level">>,
  <<3, 1, "UInt32", "job">>, <<4, 1, "UInt64", "last_login_at_epoch_sec">>,
  <<5, 1, "UInt32", "appearance_code">>}
CharacterSummary_merge == {
  <<0, "name">>, <<1, "char_id">>, <<2, "level">>, <<3, "job">>,
  <<4, "last_login_at_epoch_sec">>, <<5, "appearance_code">>}
CharacterSummary_swap == [one |-> {"name"},
  range |-> <<"char_id", "appearance_code">>]

\* --- CharacterListRequest
CharacterListRequest_row == Empty

\* --- CharacterListResponse
CharacterListResponse_class == <<
  <<"characters", 2, "Repeated", "CharacterSummary">>, <<"fail_reason", 3, "String", "">>,
  <<"ok", 1, "Bool", "">>>>
CharacterListResponse_access == [ok |-> 2, characters |-> 0, fail_reason |-> 1]
CharacterListResponse_copy == [members |-> {"characters", "fail_reason"},
  sub |-> {}, range |-> <<"ok", "ok">>]
CharacterListResponse_new == [members |-> {"characters", "fail_reason"},
  zero |-> <<"ok", "ok">>]
CharacterListResponse_fast == <<
  <<>>, <<8, 2, "Bool", "ok">>, <<18, 0, "Repeated", "characters">>,
  <<26, 1, "Utf8String", "fail_reason">>>>
CharacterListResponse_entries == <<
  <<"ok", 2, "Bool">>, <<"characters", 0, "Repeated">>, <<"fail_reason", 1, "Utf8String">>>>
CharacterListResponse_clear == [one |-> {<<0, "characters">>, <<1, "fail_reason">>},
  batch |-> {}, always |-> {"ok"}]
CharacterListResponse_write == <<
  <<2, 1, "Bool", "ok">>, <<0, 2, "Message", "characters">>, <<1, 3, "String", "fail_reason">>>>
CharacterListResponse_size == {
  <<0, 1, "Message", "characters">>, <<1, 1, "String", "fail_reason">>, <<2, 1, "Bool", "ok">>}
CharacterListResponse_merge == {<<0, "characters">>, <<1, "fail_reason">>, <<2, "ok">>}
CharacterListResponse_swap == [one |-> {"characters", "fail_reason", "ok"},
  range |-> <<>>]

\* --- CharacterSelectRequest
CharacterSelectRequest_class == <<<<"char_id", 1, "UInt64", "">>>>
CharacterSelectRequest_access == [char_id |-> 0]
CharacterSelectRequest_copy == [members |-> {"char_id"},
  sub |-> {}, range |-> <<>>]
CharacterSelectRequest_new == [members |-> {},
  zero |-> <<"char_id", "char_id">>]
CharacterSelectRequest_fast == <<<<8, 0, "UInt64", "char_id">>>>
CharacterSelectRequest_entries == <<<<"char_id", 0, "UInt64">>>>
CharacterSelectRequest_clear == [one |-> {},
  batch |-> {}, always |-> {"char_id"}]
CharacterSelectRequest_write == <<<<0, 1, "UInt64", "char_id">>>>
CharacterSelectRequest_size == {<<0, 1, "UInt64", "char_id">>}
CharacterSelectRequest_merge == {<<0, "char_id">>}
CharacterSelectRequest_swap == [one |-> {"char_id"},
  range |-> <<>>]

\* --- CharacterSelectResponse
CharacterSelectResponse_class == <<
  <<"world_token", 4, "String", "">>, <<"fail_reason", 6, "String", "">>,
  <<"selected_entry", 5, "Message", "WorldEntryNode">>, <<"account_id", 2, "UInt64", "">>,
  <<"char_id", 3, "UInt64", "">>, <<"ok", 1, "Bool", "">>>>
CharacterSelectResponse_access == [
  ok |-> 5, account_id |-> 3, char_id |-> 4, world_token |-> 0, selected_entry |-> 2,
  fail_reason |-> 1]
CharacterSelectResponse_copy == [members |-> {"world_token", "fail_reason"},
  sub |-> {<<2, "selected_entry">>}, range |-> <<"account_id", "ok">>]
CharacterSelectResponse_new == [members |-> {"world_token", "fail_reason"},
  zero |-> <<"selected_entry", "ok">>]
CharacterSelectResponse_fast == <<
  <<>>, <<8, 5, "Bool", "ok">>, <<16, 3, "UInt64", "account_id">>,
  <<24, 4, "UInt64", "char_id">>, <<34, 0, "Utf8String", "world_token">>,
  <<42, 2, "Message", "selected_entry">>, <<50, 1, "Utf8String", "fail_reason">>, <<>>>>
CharacterSelectResponse_entries == <<
  <<"ok", 5, "Bool">>, <<"account_id", 3, "UInt64">>, <<"char_id", 4, "UInt64">>,
  <<"world_token", 0, "Utf8String">>, <<"selected_entry", 2, "Message">>,
  <<"fail_reason", 1, "Utf8String">>>>
CharacterSelectResponse_clear == [one |-> {<<0, "world_token">>, <<1, "fail_reason">>, <<2, "selected_entry">>},
  batch |-> {<<{3, 4, 5}, "account_id", "ok">>}, always |-> {}]
CharacterSelectResponse_write == <<
  <<5, 1, "Bool", "ok">>, <<3, 2, "UInt64", "account_id">>, <<4, 3, "UInt64", "char_id">>,
  <<0, 4, "String", "world_token">>, <<2, 5, "Message", "selected_entry">>,
  <<1, 6, "String", "fail_reason">>>>
CharacterSelectResponse_size == {
  <<0, 1, "String", "world_token">>, <<1, 1, "String", "fail_reason">>,
  <<2, 1, "Message", "selected_entry">>, <<3, 1, "UInt64", "account_id">>,
  <<4, 1, "UInt64", "char_id">>, <<5, 1, "Bool", "ok">>}
CharacterSelectResponse_merge == {
  <<0, "world_token">>, <<1, "fail_reason">>, <<2, "selected_entry">>, <<3, "account_id">>,
  <<4, "char_id">>, <<5, "ok">>}
CharacterSelectResponse_swap == [one |-> {"world_token", "fail_reason"},
  range |-> <<"selected_entry", "ok">>]

\* The messages of the file, by name.
Login == [
  LoginRequest |-> Row(LoginRequest_class, LoginRequest_access, LoginRequest_copy, LoginRequest_new,
    LoginRequest_fast, LoginRequest_entries, LoginRequest_clear, LoginRequest_write,
    LoginRequest_size, LoginRequest_merge, LoginRequest_swap),
  LoginResult |-> Row(LoginResult_class, LoginResult_access, LoginResult_copy, LoginResult_new,
    LoginResult_fast, LoginResult_entries, LoginResult_clear, LoginResult_write,
    LoginResult_size, LoginResult_merge, LoginResult_swap),
  WorldListRequest |-> Row(WorldListRequest_class, WorldListRequest_access, WorldListRequest_copy, WorldListRequest_new,
    WorldListRequest_fast, WorldListRequest_entries, WorldListRequest_clear, WorldListRequest_write,
    WorldListRequest_size, WorldListRequest_merge, WorldListRequest_swap),
  WorldListResponse |-> Row(WorldListResponse_class, WorldListResponse_access, WorldListResponse_copy, WorldListResponse_new,
    WorldListResponse_fast, WorldListResponse_entries, WorldListResponse_clear, WorldListResponse_write,
    WorldListResponse_size, WorldListResponse_merge, WorldListResponse_swap),
  WorldSelectRequest |-> Row(WorldSelectRequest_class, WorldSelectRequest_access, WorldSelectRequest_copy, WorldSelectRequest_new,
    WorldSelectRequest_fast, WorldSelectRequest_entries, WorldSelectRequest_clear, WorldSelectRequest_write,
    WorldSelectRequest_size, WorldSelectRequest_merge, WorldSelectRequest_swap),
  WorldSelectResponse |-> Row(WorldSelectResponse_class, WorldSelectResponse_access, WorldSelectResponse_copy, WorldSelectResponse_new,
    WorldSelectResponse_fast, WorldSelectResponse_entries, WorldSelectResponse_clear, WorldSelectResponse_write,
    WorldSelectResponse_size, WorldSelectResponse_merge, WorldSelectResponse_swap),
  CharacterSummary |-> Row(CharacterSummary_class, CharacterSummary_access, CharacterSummary_copy, CharacterSummary_new,
    CharacterSummary_fast, CharacterSummary_entries, CharacterSummary_clear, CharacterSummary_write,
    CharacterSummary_size, CharacterSummary_merge, CharacterSummary_swap),
  CharacterListRequest |-> CharacterListRequest_row,
  CharacterListResponse |-> Row(CharacterListResponse_class, CharacterListResponse_access, CharacterListResponse_copy, CharacterListResponse_new,
    CharacterListResponse_fast, CharacterListResponse_entries, CharacterListResponse_clear, CharacterListResponse_write,
    CharacterListResponse_size, CharacterListResponse_merge, CharacterListResponse_swap),
  CharacterSelectRequest |-> Row(CharacterSelectRequest_class, CharacterSelectRequest_access, CharacterSelectRequest_copy, CharacterSelectRequest_new,
    CharacterSelectRequest_fast, CharacterSelectRequest_entries, CharacterSelectRequest_clear, CharacterSelectRequest_write,
    CharacterSelectRequest_size, CharacterSelectRequest_merge, CharacterSelectRequest_swap),
  CharacterSelectResponse |-> Row(CharacterSelectResponse_class, CharacterSelectResponse_access, CharacterSelectResponse_copy, CharacterSelectResponse_new,
    CharacterSelectResponse_fast, CharacterSelectResponse_entries, CharacterSelectResponse_clear, CharacterSelectResponse_write,
    CharacterSelectResponse_size, CharacterSelectResponse_merge, CharacterSelectResponse_swap)]
============================================================================
