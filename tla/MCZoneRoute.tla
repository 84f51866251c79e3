---------------------------- MODULE MCZoneRoute ----------------------------
(* Topologies for model checking ZoneRoute. *)
EXTENDS ZoneRoute, TLC

CONSTANTS z1, z2, p1, p2

\* The gameplay zone of a map is its template id.
TemplateZone == [m \in Map |-> m]

\* Two channels of one zone, both serving its maps (config/servers.json).
ChannelLogical == [z \in Zone |-> 1]
ChannelServes  == [z \in Zone |-> Map]

\* Players are alike; so are the channels of one zone.
PlayerSymmetry  == Permutations(Player)
ChannelSymmetry == PlayerSymmetry \cup Permutations(Zone)
=============================================================================
