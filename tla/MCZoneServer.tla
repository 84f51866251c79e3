---------------------------- MODULE MCZoneServer ----------------------------
(***************************************************************************)
(* Two players, two fields and a dungeon on a process that has room for    *)
(* two instances.  The sight radius is odd, so that it is no multiple of   *)
(* the cell's size: <<1, 0>> sees both others at exactly the radius, one   *)
(* two and one three cells away, and these do not see each other.  In a    *)
(* crowd of three a batch of two is cut.                                   *)
(***************************************************************************)
EXTENDS ZoneServer, TLC

CONSTANTS a, b, c, field, town, crypt

MCPlayer == {a, b}
MCCrowd == {a, b, c}
MCMap == {field, town, crypt}
MCDungeon == {crypt}
MCPoint == {<<-4, 0>>, <<1, 0>>, <<6, 0>>}

MCSymmetry == Permutations(Player) \cup Permutations(Map \ Dungeon)
=============================================================================
