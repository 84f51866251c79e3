-------------------- MODULE VisibilityMessages --------------------
(* The messages of proto/generated/cpp/client_world.pb.{h,cc} that tell a client *)
(* who is in sight, one table per generated function (MessageRow says what the   *)
(* columns mean).                                                                *)
EXTENDS MessageRow

\* --- PlayerSnapshot
PlayerSnapshot_class == <<
  <<"char_id", 1, "UInt64", "">>, <<"x", 2, "Int32", "">>, <<"y", 3, "Int32", "">>>>
PlayerSnapshot_access == [char_id |-> 0, x |-> 1, y |-> 2]
PlayerSnapshot_copy == [members |-> {"char_id", "x", "y"},
  sub |-> {}, range |-> <<>>]
PlayerSnapshot_new == [members |-> {},
  zero |-> <<"char_id", "y">>]
PlayerSnapshot_fast == <<
  <<>>, <<8, 0, "UInt64", "char_id">>, <<16, 1, "SInt32", "x">>, <<24, 2, "SInt32", "y">>>>
PlayerSnapshot_entries == <<
  <<"char_id", 0, "UInt64">>, <<"x", 1, "SInt32">>, <<"y", 2, "SInt32">>>>
PlayerSnapshot_clear == [one |-> {},
  batch |-> {<<{0, 1, 2}, "char_id", "y">>}, always |-> {}]
PlayerSnapshot_write == <<
  <<0, 1, "UInt64", "char_id">>, <<1, 2, "SInt32", "x">>, <<2, 3, "SInt32", "y">>>>
PlayerSnapshot_size == {
  <<0, 1, "UInt64", "char_id">>, <<1, 1, "SInt32", "x">>, <<2, 1, "SInt32", "y">>}
PlayerSnapshot_merge == {<<0, "char_id">>, <<1, "x">>, <<2, "y">>}
PlayerSnapshot_swap == [one |-> {},
  range |-> <<"char_id", "y">>]

\* --- PlayerSpawn
PlayerSpawn_class == <<
  <<"char_id", 1, "UInt64", "">>, <<"x", 2, "Int32", "">>, <<"y", 3, "Int32", "">>>>
PlayerSpawn_access == [char_id |-> 0, x |-> 1, y |-> 2]
PlayerSpawn_copy == [members |-> {"char_id", "x", "y"},
  sub |-> {}, range |-> <<>>]
PlayerSpawn_new == [members |-> {},
  zero |-> <<"char_id", "y">>]
PlayerSpawn_fast == <<
  <<>>, <<8, 0, "UInt64", "char_id">>, <<16, 1, "SInt32", "x">>, <<24, 2, "SInt32", "y">>>>
PlayerSpawn_entries == <<
  <<"char_id", 0, "UInt64">>, <<"x", 1, "SInt32">>, <<"y", 2, "SInt32">>>>
PlayerSpawn_clear == [one |-> {},
  batch |-> {<<{0, 1, 2}, "char_id", "y">>}, always |-> {}]
PlayerSpawn_write == <<
  <<0, 1, "UInt64", "char_id">>, <<1, 2, "SInt32", "x">>, <<2, 3, "SInt32", "y">>>>
PlayerSpawn_size == {
  <<0, 1, "UInt64", "char_id">>, <<1, 1, "SInt32", "x">>, <<2, 1, "SInt32", "y">>}
PlayerSpawn_merge == {<<0, "char_id">>, <<1, "x">>, <<2, "y">>}
PlayerSpawn_swap == [one |-> {},
  range |-> <<"char_id", "y">>]

\* --- PlayerDespawn
PlayerDespawn_class == <<<<"char_id", 1, "UInt64", "">>>>
PlayerDespawn_access == [char_id |-> 0]
PlayerDespawn_copy == [members |-> {"char_id"},
  sub |-> {}, range |-> <<>>]
PlayerDespawn_new == [members |-> {},
  zero |-> <<"char_id", "char_id">>]
PlayerDespawn_fast == <<<<8, 0, "UInt64", "char_id">>>>
PlayerDespawn_entries == <<<<"char_id", 0, "UInt64">>>>
PlayerDespawn_clear == [one |-> {},
  batch |-> {}, always |-> {"char_id"}]
PlayerDespawn_write == <<<<0, 1, "UInt64", "char_id">>>>
PlayerDespawn_size == {<<0, 1, "UInt64", "char_id">>}
PlayerDespawn_merge == {<<0, "char_id">>}
PlayerDespawn_swap == [one |-> {"char_id"},
  range |-> <<>>]

\* --- PlayerMove
PlayerMove_class == <<
  <<"char_id", 1, "UInt64", "">>, <<"x", 2, "Int32", "">>, <<"y", 3, "Int32", "">>>>
PlayerMove_access == [char_id |-> 0, x |-> 1, y |-> 2]
PlayerMove_copy == [members |-> {"char_id", "x", "y"},
  sub |-> {}, range |-> <<>>]
PlayerMove_new == [members |-> {},
  zero |-> <<"char_id", "y">>]
PlayerMove_fast == <<
  <<>>, <<8, 0, "UInt64", "char_id">>, <<16, 1, "SInt32", "x">>, <<24, 2, "SInt32", "y">>>>
PlayerMove_entries == <<<<"char_id", 0, "UInt64">>, <<"x", 1, "SInt32">>, <<"y", 2, "SInt32">>>>
PlayerMove_clear == [one |-> {},
  batch |-> {<<{0, 1, 2}, "char_id", "y">>}, always |-> {}]
PlayerMove_write == <<
  <<0, 1, "UInt64", "char_id">>, <<1, 2, "SInt32", "x">>, <<2, 3, "SInt32", "y">>>>
PlayerMove_size == {
  <<0, 1, "UInt64", "char_id">>, <<1, 1, "SInt32", "x">>, <<2, 1, "SInt32", "y">>}
PlayerMove_merge == {<<0, "char_id">>, <<1, "x">>, <<2, "y">>}
PlayerMove_swap == [one |-> {},
  range |-> <<"char_id", "y">>]

\* --- PlayerSpawnBatch
PlayerSpawnBatch_class == <<<<"items", 1, "Repeated", "PlayerSnapshot">>>>
PlayerSpawnBatch_access == [items |-> 0]
PlayerSpawnBatch_copy == [members |-> {"items"},
  sub |-> {}, range |-> <<>>]
PlayerSpawnBatch_new == [members |-> {"items"},
  zero |-> <<>>]
PlayerSpawnBatch_fast == <<<<10, 0, "Repeated", "items">>>>
PlayerSpawnBatch_entries == <<<<"items", 0, "Repeated">>>>
PlayerSpawnBatch_clear == [one |-> {<<0, "items">>},
  batch |-> {}, always |-> {}]
PlayerSpawnBatch_write == <<<<0, 1, "Message", "items">>>>
PlayerSpawnBatch_size == {<<0, 1, "Message", "items">>}
PlayerSpawnBatch_merge == {<<0, "items">>}
PlayerSpawnBatch_swap == [one |-> {"items"},
  range |-> <<>>]

\* --- PlayerDespawnBatch
PlayerDespawnBatch_class == <<<<"char_ids", 1, "Packed", "">>>>
PlayerDespawnBatch_access == [char_ids |-> 0]
PlayerDespawnBatch_copy == [members |-> {"char_ids"},
  sub |-> {}, range |-> <<>>]
PlayerDespawnBatch_new == [members |-> {"char_ids"},
  zero |-> <<>>]
PlayerDespawnBatch_fast == <<<<10, 0, "Packed", "char_ids">>>>
PlayerDespawnBatch_entries == <<<<"char_ids", 0, "Packed">>>>
PlayerDespawnBatch_clear == [one |-> {<<0, "char_ids">>},
  batch |-> {}, always |-> {}]
PlayerDespawnBatch_write == <<<<0, 1, "Packed", "char_ids">>>>
PlayerDespawnBatch_size == {<<0, 1, "Packed", "char_ids">>}
PlayerDespawnBatch_merge == {<<0, "char_ids">>}
PlayerDespawnBatch_swap == [one |-> {"char_ids"},
  range |-> <<>>]

\* --- PlayerMoveBatch
PlayerMoveBatch_class == <<<<"items", 1, "Repeated", "PlayerSnapshot">>>>
PlayerMoveBatch_access == [items |-> 0]
PlayerMoveBatch_copy == [members |-> {"items"},
  sub |-> {}, range |-> <<>>]
PlayerMoveBatch_new == [members |-> {"items"},
  zero |-> <<>>]
PlayerMoveBatch_fast == <<<<10, 0, "Repeated", "items">>>>
PlayerMoveBatch_entries == <<<<"items", 0, "Repeated">>>>
PlayerMoveBatch_clear == [one |-> {<<0, "items">>},
  batch |-> {}, always |-> {}]
PlayerMoveBatch_write == <<<<0, 1, "Message", "items">>>>
PlayerMoveBatch_size == {<<0, 1, "Message", "items">>}
PlayerMoveBatch_merge == {<<0, "items">>}
PlayerMoveBatch_swap == [one |-> {"items"},
  range |-> <<>>]

\* --- ZoneMapState
ZoneMapState_class == <<
  <<"char_id", 1, "UInt64", "">>, <<"zone_id", 2, "UInt32", "">>,
  <<"map_id", 3, "UInt32", "">>, <<"x", 4, "Int32", "">>, <<"y", 5, "Int32", "">>,
  <<"reason", 6, "Int", "">>, <<"channel_id", 7, "UInt32", "">>,
  <<"zone_server_id", 8, "UInt32", "">>>>
ZoneMapState_access == [
  char_id |-> 0, zone_id |-> 1, map_id |-> 2, x |-> 3, y |-> 4, reason |-> 5, channel_id |-> 6,
  zone_server_id |-> 7]
ZoneMapState_copy == [members |-> {"char_id", "zone_id", "map_id", "x", "y", "reason", "channel_id", "zone_server_id"},
  sub |-> {}, range |-> <<>>]
ZoneMapState_new == [members |-> {},
  zero |-> <<"char_id", "zone_server_id">>]
ZoneMapState_fast == <<
  <<64, 7, "UInt32", "zone_server_id">>, <<8, 0, "UInt64", "char_id">>,
  <<16, 1, "UInt32", "zone_id">>, <<24, 2, "UInt32", "map_id">>, <<32, 3, "SInt32", "x">>,
  <<40, 4, "SInt32", "y">>, <<48, 5, "UInt32", "reason">>, <<56, 6, "UInt32", "channel_id">>>>
ZoneMapState_entries == <<
  <<"char_id", 0, "UInt64">>, <<"zone_id", 1, "UInt32">>, <<"map_id", 2, "UInt32">>,
  <<"x", 3, "SInt32">>, <<"y", 4, "SInt32">>, <<"reason", 5, "OpenEnum">>,
  <<"channel_id", 6, "UInt32">>, <<"zone_server_id", 7, "UInt32">>>>
ZoneMapState_clear == [one |-> {},
  batch |-> {<<{0, 1, 2, 3, 4, 5, 6, 7}, "char_id", "zone_server_id">>}, always |-> {}]
ZoneMapState_write == <<
  <<0, 1, "UInt64", "char_id">>, <<1, 2, "UInt32", "zone_id">>, <<2, 3, "UInt32", "map_id">>,
  <<3, 4, "SInt32", "x">>, <<4, 5, "SInt32", "y">>, <<5, 6, "Enum", "reason">>,
  <<6, 7, "UInt32", "channel_id">>, <<7, 8, "UInt32", "zone_server_id">>>>
ZoneMapState_size == {
  <<0, 1, "UInt64", "char_id">>, <<1, 1, "UInt32", "zone_id">>, <<2, 1, "UInt32", "map_id">>,
  <<3, 1, "SInt32", "x">>, <<4, 1, "SInt32", "y">>, <<5, 1, "Enum", "reason">>,
  <<6, 1, "UInt32", "channel_id">>, <<7, 1, "UInt32", "zone_server_id">>}
ZoneMapState_merge == {
  <<0, "char_id">>, <<1, "zone_id">>, <<2, "map_id">>, <<3, "x">>, <<4, "y">>, <<5, "reason">>,
  <<6, "channel_id">>, <<7, "zone_server_id">>}
ZoneMapState_swap == [one |-> {},
  range |-> <<"char_id", "zone_server_id">>]

\* The messages of the file, by name.
Visibility == [
  PlayerSnapshot |-> Row(PlayerSnapshot_class, PlayerSnapshot_access, PlayerSnapshot_copy, PlayerSnapshot_new,
    PlayerSnapshot_fast, PlayerSnapshot_entries, PlayerSnapshot_clear, PlayerSnapshot_write,
    PlayerSnapshot_size, PlayerSnapshot_merge, PlayerSnapshot_swap),
  PlayerSpawn |-> Row(PlayerSpawn_class, PlayerSpawn_access, PlayerSpawn_copy, PlayerSpawn_new,
    PlayerSpawn_fast, PlayerSpawn_entries, PlayerSpawn_clear, PlayerSpawn_write,
    PlayerSpawn_size, PlayerSpawn_merge, PlayerSpawn_swap),
  PlayerDespawn |-> Row(PlayerDespawn_class, PlayerDespawn_access, PlayerDespawn_copy, PlayerDespawn_new,
    PlayerDespawn_fast, PlayerDespawn_entries, PlayerDespawn_clear, PlayerDespawn_write,
    PlayerDespawn_size, PlayerDespawn_merge, PlayerDespawn_swap),
  PlayerMove |-> Row(PlayerMove_class, PlayerMove_access, PlayerMove_copy, PlayerMove_new,
    PlayerMove_fast, PlayerMove_entries, PlayerMove_clear, PlayerMove_write,
    PlayerMove_size, PlayerMove_merge, PlayerMove_swap),
  PlayerSpawnBatch |-> Row(PlayerSpawnBatch_class, PlayerSpawnBatch_access, PlayerSpawnBatch_copy, PlayerSpawnBatch_new,
    PlayerSpawnBatch_fast, PlayerSpawnBatch_entries, PlayerSpawnBatch_clear, PlayerSpawnBatch_write,
    PlayerSpawnBatch_size, PlayerSpawnBatch_merge, PlayerSpawnBatch_swap),
  PlayerDespawnBatch |-> Row(PlayerDespawnBatch_class, PlayerDespawnBatch_access, PlayerDespawnBatch_copy, PlayerDespawnBatch_new,
    PlayerDespawnBatch_fast, PlayerDespawnBatch_entries, PlayerDespawnBatch_clear, PlayerDespawnBatch_write,
    PlayerDespawnBatch_size, PlayerDespawnBatch_merge, PlayerDespawnBatch_swap),
  PlayerMoveBatch |-> Row(PlayerMoveBatch_class, PlayerMoveBatch_access, PlayerMoveBatch_copy, PlayerMoveBatch_new,
    PlayerMoveBatch_fast, PlayerMoveBatch_entries, PlayerMoveBatch_clear, PlayerMoveBatch_write,
    PlayerMoveBatch_size, PlayerMoveBatch_merge, PlayerMoveBatch_swap),
  ZoneMapState |-> Row(ZoneMapState_class, ZoneMapState_access, ZoneMapState_copy, ZoneMapState_new,
    ZoneMapState_fast, ZoneMapState_entries, ZoneMapState_clear, ZoneMapState_write,
    ZoneMapState_size, ZoneMapState_merge, ZoneMapState_swap)]
============================================================================
