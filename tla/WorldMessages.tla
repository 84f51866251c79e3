-------------------- MODULE WorldMessages --------------------
(* The messages of proto/generated/cpp/client_world.pb.{h,cc} that clients send *)
(* and their answers, one table per generated function (MessageRow says what    *)
(* the columns mean).                                                           *)
EXTENDS MessageRow

\* --- EnterWorldWithTokenRequest
EnterWorldWithTokenRequest_class == <<
  <<"login_session", 2, "String", "">>, <<"world_token", 3, "String", "">>,
  <<"account_id", 1, "UInt64", "">>>>
EnterWorldWithTokenRequest_access == [account_id |-> 2, login_session |-> 0, world_token |-> 1]
EnterWorldWithTokenRequest_copy == [members |-> {"login_session", "world_token"},
  sub |-> {}, range |-> <<"account_id", "account_id">>]
EnterWorldWithTokenRequest_new == [members |-> {"login_session", "world_token"},
  zero |-> <<"account_id", "account_id">>]
EnterWorldWithTokenRequest_fast == <<
  <<>>, <<8, 2, "UInt64", "account_id">>, <<18, 0, "Utf8String", "login_session">>,
  <<26, 1, "Utf8String", "world_token">>>>
EnterWorldWithTokenRequest_entries == <<
  <<"account_id", 2, "UInt64">>, <<"login_session", 0, "Utf8String">>,
  <<"world_token", 1, "Utf8String">>>>
EnterWorldWithTokenRequest_clear == [one |-> {<<0, "login_session">>, <<1, "world_token">>},
  batch |-> {}, always |-> {"account_id"}]
EnterWorldWithTokenRequest_write == <<
  <<2, 1, "UInt64", "account_id">>, <<0, 2, "String", "login_session">>,
  <<1, 3, "String", "world_token">>>>
EnterWorldWithTokenRequest_size == {
  <<0, 1, "String", "login_session">>, <<1, 1, "String", "world_token">>,
  <<2, 1, "UInt64", "account_id">>}
EnterWorldWithTokenRequest_merge == {
  <<0, "login_session">>, <<1, "world_token">>, <<2, "account_id">>}
EnterWorldWithTokenRequest_swap == [one |-> {"login_session", "world_token", "account_id"},
  range |-> <<>>]

\* --- EnterWorldResult
EnterWorldResult_class == <<
  <<"reconnect_token", 5, "String", "">>, <<"ok", 1, "Bool", "">>,
  <<"reason", 2, "UInt32", "">>, <<"account_id", 3, "UInt64", "">>,
  <<"char_id", 4, "UInt64", "">>>>
EnterWorldResult_access == [
  ok |-> 1, reason |-> 2, account_id |-> 3, char_id |-> 4, reconnect_token |-> 0]
EnterWorldResult_copy == [members |-> {"reconnect_token"},
  sub |-> {}, range |-> <<"ok", "char_id">>]
EnterWorldResult_new == [members |-> {"reconnect_token"},
  zero |-> <<"ok", "char_id">>]
EnterWorldResult_fast == <<
  <<>>, <<8, 1, "Bool", "ok">>, <<16, 2, "UInt32", "reason">>,
  <<24, 3, "UInt64", "account_id">>, <<32, 4, "UInt64", "char_id">>,
  <<42, 0, "Utf8String", "reconnect_token">>, <<>>, <<>>>>
EnterWorldResult_entries == <<
  <<"ok", 1, "Bool">>, <<"reason", 2, "UInt32">>, <<"account_id", 3, "UInt64">>,
  <<"char_id", 4, "UInt64">>, <<"reconnect_token", 0, "Utf8String">>>>
EnterWorldResult_clear == [one |-> {<<0, "reconnect_token">>},
  batch |-> {<<{1, 2, 3, 4}, "ok", "char_id">>}, always |-> {}]
EnterWorldResult_write == <<
  <<1, 1, "Bool", "ok">>, <<2, 2, "UInt32", "reason">>, <<3, 3, "UInt64", "account_id">>,
  <<4, 4, "UInt64", "char_id">>, <<0, 5, "String", "reconnect_token">>>>
EnterWorldResult_size == {
  <<0, 1, "String", "reconnect_token">>, <<1, 1, "Bool", "ok">>, <<2, 1, "UInt32", "reason">>,
  <<3, 1, "UInt64", "account_id">>, <<4, 1, "UInt64", "char_id">>}
EnterWorldResult_merge == {
  <<0, "reconnect_token">>, <<1, "ok">>, <<2, "reason">>, <<3, "account_id">>, <<4, "char_id">>}
EnterWorldResult_swap == [one |-> {"reconnect_token"},
  range |-> <<"ok", "char_id">>]

\* --- LogoutWorldRequest
LogoutWorldRequest_class == <<<<"type", 1, "Int", "">>>>
LogoutWorldRequest_access == [type |-> 0]
LogoutWorldRequest_copy == [members |-> {"type"},
  sub |-> {}, range |-> <<>>]
LogoutWorldRequest_new == [members |-> {},
  zero |-> <<"type", "type">>]
LogoutWorldRequest_fast == <<<<8, 0, "UInt32", "type">>>>
LogoutWorldRequest_entries == <<<<"type", 0, "OpenEnum">>>>
LogoutWorldRequest_clear == [one |-> {},
  batch |-> {}, always |-> {"type"}]
LogoutWorldRequest_write == <<<<0, 1, "Enum", "type">>>>
LogoutWorldRequest_size == {<<0, 1, "Enum", "type">>}
LogoutWorldRequest_merge == {<<0, "type">>}
LogoutWorldRequest_swap == [one |-> {"type"},
  range |-> <<>>]

\* --- LogoutWorldResult
LogoutWorldResult_class == <<
  <<"ok", 1, "Bool", "">>, <<"type", 2, "Int", "">>, <<"account_id", 4, "UInt64", "">>,
  <<"char_id", 5, "UInt64", "">>, <<"reason", 3, "UInt32", "">>>>
LogoutWorldResult_access == [
  ok |-> 0, type |-> 1, reason |-> 4, account_id |-> 2, char_id |-> 3]
LogoutWorldResult_copy == [members |-> {"ok", "type", "account_id", "char_id", "reason"},
  sub |-> {}, range |-> <<>>]
LogoutWorldResult_new == [members |-> {},
  zero |-> <<"ok", "reason">>]
LogoutWorldResult_fast == <<
  <<>>, <<8, 0, "Bool", "ok">>, <<16, 1, "UInt32", "type">>, <<24, 4, "UInt32", "reason">>,
  <<32, 2, "UInt64", "account_id">>, <<40, 3, "UInt64", "char_id">>, <<>>, <<>>>>
LogoutWorldResult_entries == <<
  <<"ok", 0, "Bool">>, <<"type", 1, "OpenEnum">>, <<"reason", 4, "UInt32">>,
  <<"account_id", 2, "UInt64">>, <<"char_id", 3, "UInt64">>>>
LogoutWorldResult_clear == [one |-> {},
  batch |-> {<<{0, 1, 2, 3, 4}, "ok", "reason">>}, always |-> {}]
LogoutWorldResult_write == <<
  <<0, 1, "Bool", "ok">>, <<1, 2, "Enum", "type">>, <<4, 3, "UInt32", "reason">>,
  <<2, 4, "UInt64", "account_id">>, <<3, 5, "UInt64", "char_id">>>>
LogoutWorldResult_size == {
  <<0, 1, "Bool", "ok">>, <<1, 1, "Enum", "type">>, <<2, 1, "UInt64", "account_id">>,
  <<3, 1, "UInt64", "char_id">>, <<4, 1, "UInt32", "reason">>}
LogoutWorldResult_merge == {
  <<0, "ok">>, <<1, "type">>, <<2, "account_id">>, <<3, "char_id">>, <<4, "reason">>}
LogoutWorldResult_swap == [one |-> {},
  range |-> <<"ok", "reason">>]

\* --- ReconnectWorldRequest
ReconnectWorldRequest_class == <<
  <<"reconnect_token", 3, "String", "">>, <<"account_id", 1, "UInt64", "">>,
  <<"char_id", 2, "UInt64", "">>>>
ReconnectWorldRequest_access == [account_id |-> 1, char_id |-> 2, reconnect_token |-> 0]
ReconnectWorldRequest_copy == [members |-> {"reconnect_token"},
  sub |-> {}, range |-> <<"account_id", "char_id">>]
ReconnectWorldRequest_new == [members |-> {"reconnect_token"},
  zero |-> <<"account_id", "char_id">>]
ReconnectWorldRequest_fast == <<
  <<>>, <<8, 1, "UInt64", "account_id">>, <<16, 2, "UInt64", "char_id">>,
  <<26, 0, "Utf8String", "reconnect_token">>>>
ReconnectWorldRequest_entries == <<
  <<"account_id", 1, "UInt64">>, <<"char_id", 2, "UInt64">>,
  <<"reconnect_token", 0, "Utf8String">>>>
ReconnectWorldRequest_clear == [one |-> {<<0, "reconnect_token">>},
  batch |-> {<<{1, 2}, "account_id", "char_id">>}, always |-> {}]
ReconnectWorldRequest_write == <<
  <<1, 1, "UInt64", "account_id">>, <<2, 2, "UInt64", "char_id">>,
  <<0, 3, "String", "reconnect_token">>>>
ReconnectWorldRequest_size == {
  <<0, 1, "String", "reconnect_token">>, <<1, 1, "UInt64", "account_id">>,
  <<2, 1, "UInt64", "char_id">>}
ReconnectWorldRequest_merge == {<<0, "reconnect_token">>, <<1, "account_id">>, <<2, "char_id">>}
ReconnectWorldRequest_swap == [one |-> {"reconnect_token"},
  range |-> <<"account_id", "char_id">>]

\* --- ReconnectWorldResult
ReconnectWorldResult_class == <<
  <<"reconnect_token", 5, "String", "">>, <<"ok", 1, "Bool", "">>,
  <<"reason", 2, "UInt32", "">>, <<"account_id", 3, "UInt64", "">>,
  <<"char_id", 4, "UInt64", "">>, <<"zone_id", 6, "UInt32", "">>,
  <<"map_id", 7, "UInt32", "">>, <<"x", 8, "Int32", "">>, <<"y", 9, "Int32", "">>>>
ReconnectWorldResult_access == [
  ok |-> 1, reason |-> 2, account_id |-> 3, char_id |-> 4, reconnect_token |-> 0,
  zone_id |-> 5, map_id |-> 6, x |-> 7, y |-> 8]
ReconnectWorldResult_copy == [members |-> {"reconnect_token"},
  sub |-> {}, range |-> <<"ok", "y">>]
ReconnectWorldResult_new == [members |-> {"reconnect_token"},
  zero |-> <<"ok", "y">>]
ReconnectWorldResult_fast == <<
  <<>>, <<8, 1, "Bool", "ok">>, <<16, 2, "UInt32", "reason">>,
  <<24, 3, "UInt64", "account_id">>, <<32, 4, "UInt64", "char_id">>,
  <<42, 0, "Utf8String", "reconnect_token">>, <<48, 5, "UInt32", "zone_id">>,
  <<56, 6, "UInt32", "map_id">>, <<64, 7, "SInt32", "x">>, <<72, 8, "SInt32", "y">>, <<>>,
  <<>>, <<>>, <<>>, <<>>, <<>>>>
ReconnectWorldResult_entries == <<
  <<"ok", 1, "Bool">>, <<"reason", 2, "UInt32">>, <<"account_id", 3, "UInt64">>,
  <<"char_id", 4, "UInt64">>, <<"reconnect_token", 0, "Utf8String">>,
  <<"zone_id", 5, "UInt32">>, <<"map_id", 6, "UInt32">>, <<"x", 7, "SInt32">>,
  <<"y", 8, "SInt32">>>>
ReconnectWorldResult_clear == [one |-> {<<0, "reconnect_token">>},
  batch |-> {<<{1, 2, 3, 4, 5, 6, 7}, "ok", "x">>}, always |-> {"y"}]
ReconnectWorldResult_write == <<
  <<1, 1, "Bool", "ok">>, <<2, 2, "UInt32", "reason">>, <<3, 3, "UInt64", "account_id">>,
  <<4, 4, "UInt64", "char_id">>, <<0, 5, "String", "reconnect_token">>,
  <<5, 6, "UInt32", "zone_id">>, <<6, 7, "UInt32", "map_id">>, <<7, 8, "SInt32", "x">>,
  <<8, 9, "SInt32", "y">>>>
ReconnectWorldResult_size == {
  <<0, 1, "String", "reconnect_token">>, <<1, 1, "Bool", "ok">>, <<2, 1, "UInt32", "reason">>,
  <<3, 1, "UInt64", "account_id">>, <<4, 1, "UInt64", "char_id">>,
  <<5, 1, "UInt32", "zone_id">>, <<6, 1, "UInt32", "map_id">>, <<7, 1, "SInt32", "x">>,
  <<8, 1, "SInt32", "y">>}
ReconnectWorldResult_merge == {
  <<0, "reconnect_token">>, <<1, "ok">>, <<2, "reason">>, <<3, "account_id">>,
  <<4, "char_id">>, <<5, "zone_id">>, <<6, "map_id">>, <<7, "x">>, <<8, "y">>}
ReconnectWorldResult_swap == [one |-> {"reconnect_token"},
  range |-> <<"ok", "y">>]

\* --- GetStatsRequest
GetStatsRequest_row == Empty

\* --- StatsResponse
\* Mutant: the size of one field is not counted.
StatsResponse_sizeShort == {
  <<0, 1, "UInt64", "char_id">>, <<1, 1, "UInt32", "hp">>, <<2, 1, "UInt32", "max_hp">>,
  <<3, 1, "UInt32", "atk">>, <<4, 1, "UInt32", "def">>}
StatsResponse_class == <<
  <<"char_id", 1, "UInt64", "">>, <<"hp", 2, "UInt32", "">>, <<"max_hp", 3, "UInt32", "">>,
  <<"atk", 4, "UInt32", "">>, <<"def", 5, "UInt32", "">>, <<"gold", 6, "UInt32", "">>>>
StatsResponse_access == [
  char_id |-> 0, hp |-> 1, max_hp |-> 2, atk |-> 3, def |-> 4, gold |-> 5]
StatsResponse_copy == [members |-> {"char_id", "hp", "max_hp", "atk", "def", "gold"},
  sub |-> {}, range |-> <<>>]
StatsResponse_new == [members |-> {},
  zero |-> <<"char_id", "gold">>]
StatsResponse_fast == <<
  <<>>, <<8, 0, "UInt64", "char_id">>, <<16, 1, "UInt32", "hp">>,
  <<24, 2, "UInt32", "max_hp">>, <<32, 3, "UInt32", "atk">>, <<40, 4, "UInt32", "def">>,
  <<48, 5, "UInt32", "gold">>, <<>>>>
StatsResponse_entries == <<
  <<"char_id", 0, "UInt64">>, <<"hp", 1, "UInt32">>, <<"max_hp", 2, "UInt32">>,
  <<"atk", 3, "UInt32">>, <<"def", 4, "UInt32">>, <<"gold", 5, "UInt32">>>>
StatsResponse_clear == [one |-> {},
  batch |-> {<<{0, 1, 2, 3, 4, 5}, "char_id", "gold">>}, always |-> {}]
StatsResponse_write == <<
  <<0, 1, "UInt64", "char_id">>, <<1, 2, "UInt32", "hp">>, <<2, 3, "UInt32", "max_hp">>,
  <<3, 4, "UInt32", "atk">>, <<4, 5, "UInt32", "def">>, <<5, 6, "UInt32", "gold">>>>
StatsResponse_size == {
  <<0, 1, "UInt64", "char_id">>, <<1, 1, "UInt32", "hp">>, <<2, 1, "UInt32", "max_hp">>,
  <<3, 1, "UInt32", "atk">>, <<4, 1, "UInt32", "def">>, <<5, 1, "UInt32", "gold">>}
StatsResponse_merge == {
  <<0, "char_id">>, <<1, "hp">>, <<2, "max_hp">>, <<3, "atk">>, <<4, "def">>, <<5, "gold">>}
StatsResponse_swap == [one |-> {},
  range |-> <<"char_id", "gold">>]

\* --- MoveRequest
MoveRequest_class == <<<<"x", 1, "Int32", "">>, <<"y", 2, "Int32", "">>>>
MoveRequest_access == [x |-> 0, y |-> 1]
MoveRequest_copy == [members |-> {"x", "y"},
  sub |-> {}, range |-> <<>>]
MoveRequest_new == [members |-> {},
  zero |-> <<"x", "y">>]
MoveRequest_fast == <<<<16, 1, "SInt32", "y">>, <<8, 0, "SInt32", "x">>>>
MoveRequest_entries == <<<<"x", 0, "SInt32">>, <<"y", 1, "SInt32">>>>
MoveRequest_clear == [one |-> {},
  batch |-> {<<{0, 1}, "x", "y">>}, always |-> {}]
MoveRequest_write == <<<<0, 1, "SInt32", "x">>, <<1, 2, "SInt32", "y">>>>
MoveRequest_size == {<<0, 1, "SInt32", "x">>, <<1, 1, "SInt32", "y">>}
MoveRequest_merge == {<<0, "x">>, <<1, "y">>}
MoveRequest_swap == [one |-> {},
  range |-> <<"x", "y">>]

\* --- AddGoldRequest
AddGoldRequest_class == <<<<"add", 1, "UInt32", "">>>>
AddGoldRequest_access == [add |-> 0]
AddGoldRequest_copy == [members |-> {"add"},
  sub |-> {}, range |-> <<>>]
AddGoldRequest_new == [members |-> {},
  zero |-> <<"add", "add">>]
AddGoldRequest_fast == <<<<8, 0, "UInt32", "add">>>>
AddGoldRequest_entries == <<<<"add", 0, "UInt32">>>>
AddGoldRequest_clear == [one |-> {},
  batch |-> {}, always |-> {"add"}]
AddGoldRequest_write == <<<<0, 1, "UInt32", "add">>>>
AddGoldRequest_size == {<<0, 1, "UInt32", "add">>}
AddGoldRequest_merge == {<<0, "add">>}
AddGoldRequest_swap == [one |-> {"add"},
  range |-> <<>>]

\* --- AddGoldResult
AddGoldResult_class == <<<<"ok", 1, "Bool", "">>, <<"gold", 2, "UInt32", "">>>>
AddGoldResult_access == [ok |-> 0, gold |-> 1]
AddGoldResult_copy == [members |-> {"ok", "gold"},
  sub |-> {}, range |-> <<>>]
AddGoldResult_new == [members |-> {},
  zero |-> <<"ok", "gold">>]
AddGoldResult_fast == <<<<16, 1, "UInt32", "gold">>, <<8, 0, "Bool", "ok">>>>
AddGoldResult_entries == <<<<"ok", 0, "Bool">>, <<"gold", 1, "UInt32">>>>
AddGoldResult_clear == [one |-> {},
  batch |-> {<<{0, 1}, "ok", "gold">>}, always |-> {}]
AddGoldResult_write == <<<<0, 1, "Bool", "ok">>, <<1, 2, "UInt32", "gold">>>>
AddGoldResult_size == {<<0, 1, "Bool", "ok">>, <<1, 1, "UInt32", "gold">>}
AddGoldResult_merge == {<<0, "ok">>, <<1, "gold">>}
AddGoldResult_swap == [one |-> {},
  range |-> <<"ok", "gold">>]

\* --- HealSelfRequest
HealSelfRequest_class == <<<<"amount", 1, "UInt32", "">>>>
HealSelfRequest_access == [amount |-> 0]
HealSelfRequest_copy == [members |-> {"amount"},
  sub |-> {}, range |-> <<>>]
HealSelfRequest_new == [members |-> {},
  zero |-> <<"amount", "amount">>]
HealSelfRequest_fast == <<<<8, 0, "UInt32", "amount">>>>
HealSelfRequest_entries == <<<<"amount", 0, "UInt32">>>>
HealSelfRequest_clear == [one |-> {},
  batch |-> {}, always |-> {"amount"}]
HealSelfRequest_write == <<<<0, 1, "UInt32", "amount">>>>
HealSelfRequest_size == {<<0, 1, "UInt32", "amount">>}
HealSelfRequest_merge == {<<0, "amount">>}
HealSelfRequest_swap == [one |-> {"amount"},
  range |-> <<>>]

\* --- SpawnMonsterRequest
SpawnMonsterRequest_class == <<<<"template_id", 1, "UInt32", "">>>>
SpawnMonsterRequest_access == [template_id |-> 0]
SpawnMonsterRequest_copy == [members |-> {"template_id"},
  sub |-> {}, range |-> <<>>]
SpawnMonsterRequest_new == [members |-> {},
  zero |-> <<"template_id", "template_id">>]
SpawnMonsterRequest_fast == <<<<8, 0, "UInt32", "template_id">>>>
SpawnMonsterRequest_entries == <<<<"template_id", 0, "UInt32">>>>
SpawnMonsterRequest_clear == [one |-> {},
  batch |-> {}, always |-> {"template_id"}]
SpawnMonsterRequest_write == <<<<0, 1, "UInt32", "template_id">>>>
SpawnMonsterRequest_size == {<<0, 1, "UInt32", "template_id">>}
SpawnMonsterRequest_merge == {<<0, "template_id">>}
SpawnMonsterRequest_swap == [one |-> {"template_id"},
  range |-> <<>>]

\* --- SpawnMonsterResult
SpawnMonsterResult_class == <<
  <<"monster_id", 1, "UInt64", "">>, <<"hp", 2, "UInt32", "">>, <<"atk", 3, "UInt32", "">>,
  <<"def", 4, "UInt32", "">>>>
SpawnMonsterResult_access == [monster_id |-> 0, hp |-> 1, atk |-> 2, def |-> 3]
SpawnMonsterResult_copy == [members |-> {"monster_id", "hp", "atk", "def"},
  sub |-> {}, range |-> <<>>]
SpawnMonsterResult_new == [members |-> {},
  zero |-> <<"monster_id", "def">>]
SpawnMonsterResult_fast == <<
  <<32, 3, "UInt32", "def">>, <<8, 0, "UInt64", "monster_id">>, <<16, 1, "UInt32", "hp">>,
  <<24, 2, "UInt32", "atk">>>>
SpawnMonsterResult_entries == <<
  <<"monster_id", 0, "UInt64">>, <<"hp", 1, "UInt32">>, <<"atk", 2, "UInt32">>,
  <<"def", 3, "UInt32">>>>
SpawnMonsterResult_clear == [one |-> {},
  batch |-> {<<{0, 1, 2, 3}, "monster_id", "def">>}, always |-> {}]
SpawnMonsterResult_write == <<
  <<0, 1, "UInt64", "monster_id">>, <<1, 2, "UInt32", "hp">>, <<2, 3, "UInt32", "atk">>,
  <<3, 4, "UInt32", "def">>>>
SpawnMonsterResult_size == {
  <<0, 1, "UInt64", "monster_id">>, <<1, 1, "UInt32", "hp">>, <<2, 1, "UInt32", "atk">>,
  <<3, 1, "UInt32", "def">>}
SpawnMonsterResult_merge == {<<0, "monster_id">>, <<1, "hp">>, <<2, "atk">>, <<3, "def">>}
SpawnMonsterResult_swap == [one |-> {},
  range |-> <<"monster_id", "def">>]

\* --- AttackMonsterRequest
AttackMonsterRequest_class == <<<<"monster_id", 1, "UInt64", "">>>>
AttackMonsterRequest_access == [monster_id |-> 0]
AttackMonsterRequest_copy == [members |-> {"monster_id"},
  sub |-> {}, range |-> <<>>]
AttackMonsterRequest_new == [members |-> {},
  zero |-> <<"monster_id", "monster_id">>]
AttackMonsterRequest_fast == <<<<8, 0, "UInt64", "monster_id">>>>
AttackMonsterRequest_entries == <<<<"monster_id", 0, "UInt64">>>>
AttackMonsterRequest_clear == [one |-> {},
  batch |-> {}, always |-> {"monster_id"}]
AttackMonsterRequest_write == <<<<0, 1, "UInt64", "monster_id">>>>
AttackMonsterRequest_size == {<<0, 1, "UInt64", "monster_id">>}
AttackMonsterRequest_merge == {<<0, "monster_id">>}
AttackMonsterRequest_swap == [one |-> {"monster_id"},
  range |-> <<>>]

\* --- AttackPlayerRequest
AttackPlayerRequest_class == <<<<"target_char_id", 1, "UInt64", "">>>>
AttackPlayerRequest_access == [target_char_id |-> 0]
AttackPlayerRequest_copy == [members |-> {"target_char_id"},
  sub |-> {}, range |-> <<>>]
AttackPlayerRequest_new == [members |-> {},
  zero |-> <<"target_char_id", "target_char_id">>]
AttackPlayerRequest_fast == <<<<8, 0, "UInt64", "target_char_id">>>>
AttackPlayerRequest_entries == <<<<"target_char_id", 0, "UInt64">>>>
AttackPlayerRequest_clear == [one |-> {},
  batch |-> {}, always |-> {"target_char_id"}]
AttackPlayerRequest_write == <<<<0, 1, "UInt64", "target_char_id">>>>
AttackPlayerRequest_size == {<<0, 1, "UInt64", "target_char_id">>}
AttackPlayerRequest_merge == {<<0, "target_char_id">>}
AttackPlayerRequest_swap == [one |-> {"target_char_id"},
  range |-> <<>>]

\* --- AttackResult
AttackResult_class == <<
  <<"attacker_id", 1, "UInt64", "">>, <<"target_id", 2, "UInt64", "">>,
  <<"damage", 3, "UInt32", "">>, <<"target_hp", 4, "UInt32", "">>, <<"killed", 5, "Bool", "">>,
  <<"drop_item_id", 6, "UInt32", "">>, <<"drop_count", 7, "UInt32", "">>,
  <<"attacker_gold", 8, "UInt32", "">>>>
AttackResult_access == [
  attacker_id |-> 0, target_id |-> 1, damage |-> 2, target_hp |-> 3, killed |-> 4,
  drop_item_id |-> 5, drop_count |-> 6, attacker_gold |-> 7]
AttackResult_copy == [members |-> {"attacker_id", "target_id", "damage", "target_hp", "killed", "drop_item_id", "drop_count", "attacker_gold"},
  sub |-> {}, range |-> <<>>]
AttackResult_new == [members |-> {},
  zero |-> <<"attacker_id", "attacker_gold">>]
AttackResult_fast == <<
  <<64, 7, "UInt32", "attacker_gold">>, <<8, 0, "UInt64", "attacker_id">>,
  <<16, 1, "UInt64", "target_id">>, <<24, 2, "UInt32", "damage">>,
  <<32, 3, "UInt32", "target_hp">>, <<40, 4, "Bool", "killed">>,
  <<48, 5, "UInt32", "drop_item_id">>, <<56, 6, "UInt32", "drop_count">>>>
AttackResult_entries == <<
  <<"attacker_id", 0, "UInt64">>, <<"target_id", 1, "UInt64">>, <<"damage", 2, "UInt32">>,
  <<"target_hp", 3, "UInt32">>, <<"killed", 4, "Bool">>, <<"drop_item_id", 5, "UInt32">>,
  <<"drop_count", 6, "UInt32">>, <<"attacker_gold", 7, "UInt32">>>>
AttackResult_clear == [one |-> {},
  batch |-> {<<{0, 1, 2, 3, 4, 5, 6, 7}, "attacker_id", "attacker_gold">>}, always |-> {}]
AttackResult_write == <<
  <<0, 1, "UInt64", "attacker_id">>, <<1, 2, "UInt64", "target_id">>,
  <<2, 3, "UInt32", "damage">>, <<3, 4, "UInt32", "target_hp">>, <<4, 5, "Bool", "killed">>,
  <<5, 6, "UInt32", "drop_item_id">>, <<6, 7, "UInt32", "drop_count">>,
  <<7, 8, "UInt32", "attacker_gold">>>>
AttackResult_size == {
  <<0, 1, "UInt64", "attacker_id">>, <<1, 1, "UInt64", "target_id">>,
  <<2, 1, "UInt32", "damage">>, <<3, 1, "UInt32", "target_hp">>, <<4, 1, "Bool", "killed">>,
  <<5, 1, "UInt32", "drop_item_id">>, <<6, 1, "UInt32", "drop_count">>,
  <<7, 1, "UInt32", "attacker_gold">>}
AttackResult_merge == {
  <<0, "attacker_id">>, <<1, "target_id">>, <<2, "damage">>, <<3, "target_hp">>,
  <<4, "killed">>, <<5, "drop_item_id">>, <<6, "drop_count">>, <<7, "attacker_gold">>}
AttackResult_swap == [one |-> {},
  range |-> <<"attacker_id", "attacker_gold">>]

\* The messages of the file, by name.
World == [
  EnterWorldWithTokenRequest |-> Row(EnterWorldWithTokenRequest_class, EnterWorldWithTokenRequest_access, EnterWorldWithTokenRequest_copy, EnterWorldWithTokenRequest_new,
    EnterWorldWithTokenRequest_fast, EnterWorldWithTokenRequest_entries, EnterWorldWithTokenRequest_clear, EnterWorldWithTokenRequest_write,
    EnterWorldWithTokenRequest_size, EnterWorldWithTokenRequest_merge, EnterWorldWithTokenRequest_swap),
  EnterWorldResult |-> Row(EnterWorldResult_class, EnterWorldResult_access, EnterWorldResult_copy, EnterWorldResult_new,
    EnterWorldResult_fast, EnterWorldResult_entries, EnterWorldResult_clear, EnterWorldResult_write,
    EnterWorldResult_size, EnterWorldResult_merge, EnterWorldResult_swap),
  LogoutWorldRequest |-> Row(LogoutWorldRequest_class, LogoutWorldRequest_access, LogoutWorldRequest_copy, LogoutWorldRequest_new,
    LogoutWorldRequest_fast, LogoutWorldRequest_entries, LogoutWorldRequest_clear, LogoutWorldRequest_write,
    LogoutWorldRequest_size, LogoutWorldRequest_merge, LogoutWorldRequest_swap),
  LogoutWorldResult |-> Row(LogoutWorldResult_class, LogoutWorldResult_access, LogoutWorldResult_copy, LogoutWorldResult_new,
    LogoutWorldResult_fast, LogoutWorldResult_entries, LogoutWorldResult_clear, LogoutWorldResult_write,
    LogoutWorldResult_size, LogoutWorldResult_merge, LogoutWorldResult_swap),
  ReconnectWorldRequest |-> Row(ReconnectWorldRequest_class, ReconnectWorldRequest_access, ReconnectWorldRequest_copy, ReconnectWorldRequest_new,
    ReconnectWorldRequest_fast, ReconnectWorldRequest_entries, ReconnectWorldRequest_clear, ReconnectWorldRequest_write,
    ReconnectWorldRequest_size, ReconnectWorldRequest_merge, ReconnectWorldRequest_swap),
  ReconnectWorldResult |-> Row(ReconnectWorldResult_class, ReconnectWorldResult_access, ReconnectWorldResult_copy, ReconnectWorldResult_new,
    ReconnectWorldResult_fast, ReconnectWorldResult_entries, ReconnectWorldResult_clear, ReconnectWorldResult_write,
    ReconnectWorldResult_size, ReconnectWorldResult_merge, ReconnectWorldResult_swap),
  GetStatsRequest |-> GetStatsRequest_row,
  StatsResponse |-> Row(StatsResponse_class, StatsResponse_access, StatsResponse_copy, StatsResponse_new,
    StatsResponse_fast, StatsResponse_entries, StatsResponse_clear, StatsResponse_write,
    StatsResponse_size, StatsResponse_merge, StatsResponse_swap),
  MoveRequest |-> Row(MoveRequest_class, MoveRequest_access, MoveRequest_copy, MoveRequest_new,
    MoveRequest_fast, MoveRequest_entries, MoveRequest_clear, MoveRequest_write,
    MoveRequest_size, MoveRequest_merge, MoveRequest_swap),
  AddGoldRequest |-> Row(AddGoldRequest_class, AddGoldRequest_access, AddGoldRequest_copy, AddGoldRequest_new,
    AddGoldRequest_fast, AddGoldRequest_entries, AddGoldRequest_clear, AddGoldRequest_write,
    AddGoldRequest_size, AddGoldRequest_merge, AddGoldRequest_swap),
  AddGoldResult |-> Row(AddGoldResult_class, AddGoldResult_access, AddGoldResult_copy, AddGoldResult_new,
    AddGoldResult_fast, AddGoldResult_entries, AddGoldResult_clear, AddGoldResult_write,
    AddGoldResult_size, AddGoldResult_merge, AddGoldResult_swap),
  HealSelfRequest |-> Row(HealSelfRequest_class, HealSelfRequest_access, HealSelfRequest_copy, HealSelfRequest_new,
    HealSelfRequest_fast, HealSelfRequest_entries, HealSelfRequest_clear, HealSelfRequest_write,
    HealSelfRequest_size, HealSelfRequest_merge, HealSelfRequest_swap),
  SpawnMonsterRequest |-> Row(SpawnMonsterRequest_class, SpawnMonsterRequest_access, SpawnMonsterRequest_copy, SpawnMonsterRequest_new,
    SpawnMonsterRequest_fast, SpawnMonsterRequest_entries, SpawnMonsterRequest_clear, SpawnMonsterRequest_write,
    SpawnMonsterRequest_size, SpawnMonsterRequest_merge, SpawnMonsterRequest_swap),
  SpawnMonsterResult |-> Row(SpawnMonsterResult_class, SpawnMonsterResult_access, SpawnMonsterResult_copy, SpawnMonsterResult_new,
    SpawnMonsterResult_fast, SpawnMonsterResult_entries, SpawnMonsterResult_clear, SpawnMonsterResult_write,
    SpawnMonsterResult_size, SpawnMonsterResult_merge, SpawnMonsterResult_swap),
  AttackMonsterRequest |-> Row(AttackMonsterRequest_class, AttackMonsterRequest_access, AttackMonsterRequest_copy, AttackMonsterRequest_new,
    AttackMonsterRequest_fast, AttackMonsterRequest_entries, AttackMonsterRequest_clear, AttackMonsterRequest_write,
    AttackMonsterRequest_size, AttackMonsterRequest_merge, AttackMonsterRequest_swap),
  AttackPlayerRequest |-> Row(AttackPlayerRequest_class, AttackPlayerRequest_access, AttackPlayerRequest_copy, AttackPlayerRequest_new,
    AttackPlayerRequest_fast, AttackPlayerRequest_entries, AttackPlayerRequest_clear, AttackPlayerRequest_write,
    AttackPlayerRequest_size, AttackPlayerRequest_merge, AttackPlayerRequest_swap),
  AttackResult |-> Row(AttackResult_class, AttackResult_access, AttackResult_copy, AttackResult_new,
    AttackResult_fast, AttackResult_entries, AttackResult_clear, AttackResult_write,
    AttackResult_size, AttackResult_merge, AttackResult_swap)]
============================================================================
