------------------------- MODULE ZoneServer_proofs --------------------------
(***************************************************************************)
(* For every set of players, maps and positions and every sight radius: a  *)
(* map instance never counts a player too many, and counts exactly the     *)
(* players bound to it unless the reaping erased it under one; and the     *)
(* spatial index holds nothing but where bound players stand, whatever is  *)
(* lost between the zone and the World server.  While nothing was lost or  *)
(* cut, every player is found where it stands and every client knows the   *)
(* players in its sight.                                                   *)
(***************************************************************************)
EXTENDS ZoneServer, FiniteSetTheorems, TLAPS

IndexEntry == [map : Map, cell : Cells, player : Player]

ZoneState == [instance : [Map -> {None} \cup MapInstanceState],
              binding  : [Player -> {None} \cup PlayerBindingState],
              index    : SUBSET IndexEntry]

Inhabitants(b, m) == {p \in Player : b[p] # None /\ b[p].map = m}

\* What an instance's state x says of its players S, where t says whether it
\* was ever erased under some.
Accounts(x, S, t) ==
    IF x = None THEN ~t => S = {}
    ELSE /\ x.count =< Cardinality(S)
         /\ ~t => x.count = Cardinality(S)

CountedBut(n, b, t) == \A m \in Map : Accounts(n[m], Inhabitants(b, m), m \in t)

Counted(n, b) == CountedBut(n, b, torn)

Sound(b, i) ==
    \A e \in i : /\ b[e.player] # None
                 /\ b[e.player].at # None
                 /\ e = Entry(b[e.player].map, b[e.player].at, e.player)

\* The inductive invariant, of the zone's three maps alone: nothing the World
\* server believes is needed.
ZInv(z) == /\ z \in ZoneState
           /\ Counted(z.instance, z.binding)
           /\ Sound(z.binding, z.index)

-----------------------------------------------------------------------------
(* The maps of the zone *)

LEMMA NoneIsNone == /\ None \notin Point
                    /\ None \notin MapInstanceState
                    /\ None \notin PlayerBindingState
                    /\ None \notin [at : Point, reconnect : BOOLEAN]
  BY ZoneAssumption

LEMMA EntryTyped ==
  ASSUME NEW m \in Map, NEW pt \in Point, NEW p \in Player
  PROVE  /\ Entry(m, pt, p) \in IndexEntry
         /\ Entry(m, pt, p).player = p
  BY DEF Entry, IndexEntry, Cells

LEMMA InhabitantsFinite ==
  ASSUME NEW b, NEW m
  PROVE  /\ IsFiniteSet(Inhabitants(b, m))
         /\ Cardinality(Inhabitants(b, m)) \in Nat
<1>1. Inhabitants(b, m) \subseteq Player
  BY DEF Inhabitants
<1> QED
  BY <1>1, ZoneAssumption, FS_Subset, FS_CardinalityType

\* A player that comes to a map.
LEMMA OneMore ==
  ASSUME NEW b \in [Player -> {None} \cup PlayerBindingState], NEW p \in Player,
         NEW v \in PlayerBindingState, p \notin Inhabitants(b, v.map)
  PROVE  Cardinality(Inhabitants([b EXCEPT ![p] = v], v.map)) = Cardinality(Inhabitants(b, v.map)) + 1
<1>1. Inhabitants([b EXCEPT ![p] = v], v.map) = Inhabitants(b, v.map) \cup {p}
  BY NoneIsNone DEF Inhabitants
<1> QED
  BY <1>1, InhabitantsFinite, FS_AddElement

\* A player that leaves the map it was bound to.
LEMMA OneLess ==
  ASSUME NEW b \in [Player -> {None} \cup PlayerBindingState], NEW p \in Player,
         b[p] # None
  PROVE  /\ Cardinality(Inhabitants([b EXCEPT ![p] = None], b[p].map)) = Cardinality(Inhabitants(b, b[p].map)) - 1
         /\ Cardinality(Inhabitants(b, b[p].map)) >= 1
<1> DEFINE S == Inhabitants(b, b[p].map)
<1>1. Inhabitants([b EXCEPT ![p] = None], b[p].map) = S \ {p}
  BY NoneIsNone DEF Inhabitants
<1>2. p \in S
  BY DEF Inhabitants
<1>3. IsFiniteSet(S) /\ Cardinality(S) \in Nat
  BY InhabitantsFinite
<1>4. Cardinality(S \ {p}) = Cardinality(S) - 1
  BY <1>2, <1>3, FS_RemoveElement
<1>5. IsFiniteSet(S \ {p}) /\ Cardinality(S \ {p}) \in Nat
  BY <1>3, FS_RemoveElement, FS_CardinalityType
<1>6. Cardinality(S) >= 1
  <2> HIDE DEF S
  <2> QED BY <1>3, <1>4, <1>5
<1>7. Cardinality(Inhabitants([b EXCEPT ![p] = None], b[p].map)) = Cardinality(S) - 1
  <2> HIDE DEF S
  <2> QED BY <1>1, <1>4
<1> QED
  BY <1>6, <1>7

-----------------------------------------------------------------------------
(* The counts of the instances *)

LEMMA TouchedKeeps ==
  ASSUME NEW n \in [Map -> {None} \cup MapInstanceState], NEW m \in Map
  PROVE  /\ Touched(n, m) \in [Map -> {None} \cup MapInstanceState]
         /\ \A k \in Map : /\ Touched(n, m)[k] = None <=> n[k] = None
                           /\ n[k] # None => Touched(n, m)[k].count = n[k].count
  BY NoneIsNone DEF Touched, MapInstanceState

LEMMA DecrementedBy ==
  ASSUME NEW n \in [Map -> {None} \cup MapInstanceState], NEW m \in Map
  PROVE  /\ Decremented(n, m) \in [Map -> {None} \cup MapInstanceState]
         /\ n[m] = None => Decremented(n, m) = n
         /\ n[m] # None => /\ Decremented(n, m)[m] # None
                           /\ Decremented(n, m)[m].count = IF n[m].count = 0 THEN 0 ELSE n[m].count - 1
         /\ \A k \in Map \ {m} : Decremented(n, m)[k] = n[k]
<1>1. CASE n[m] = None
  BY <1>1 DEF Decremented
<1>2. CASE n[m] # None
  <2> DEFINE c == IF n[m].count = 0 THEN 0 ELSE n[m].count - 1
  <2>1. n[m].count \in Nat
    BY <1>2 DEF MapInstanceState
  <2>2. Greater(0, n[m].count - 1) = c /\ c \in Nat
    BY <2>1 DEF Greater
  <2> HIDE DEF c
  <2>3. Decremented(n, m) = [n EXCEPT ![m] = [count |-> c, idle |-> FALSE]]
    BY <1>2, <2>2 DEF Decremented
  <2>4. [count |-> c, idle |-> FALSE] \in MapInstanceState
    BY <2>2 DEF MapInstanceState
  <2>5. \A k \in Map : Decremented(n, m)[k] = IF k = m THEN [count |-> c, idle |-> FALSE] ELSE n[k]
    BY <2>3
  <2>6. Decremented(n, m) \in [Map -> {None} \cup MapInstanceState]
    BY <2>3, <2>4
  <2>70. Decremented(n, m)[m] = [count |-> c, idle |-> FALSE]
    BY <2>5
  <2>71. [count |-> c, idle |-> FALSE] # None
    BY <2>4, NoneIsNone
  <2>7. Decremented(n, m)[m] # None /\ Decremented(n, m)[m].count = c
    BY <2>70, <2>71
  <2> QED BY <1>2, <2>5, <2>6, <2>7 DEF c
<1> QED
  BY <1>1, <1>2

LEMMA IncrementedBy ==
  ASSUME NEW n \in [Map -> {None} \cup MapInstanceState], NEW m \in Map, n[m] # None
  PROVE  /\ Incremented(n, m) \in [Map -> {None} \cup MapInstanceState]
         /\ Incremented(n, m)[m] # None
         /\ Incremented(n, m)[m].count = n[m].count + 1
         /\ \A k \in Map \ {m} : Incremented(n, m)[k] = n[k]
<1>1. [count |-> n[m].count + 1, idle |-> FALSE] \in MapInstanceState
  BY DEF MapInstanceState
<1> QED
  BY <1>1, NoneIsNone DEF Incremented

LEMMA CountedTouched ==
  ASSUME NEW n \in [Map -> {None} \cup MapInstanceState], NEW b, NEW m \in Map, Counted(n, b)
  PROVE  Counted(Touched(n, m), b)
  BY TouchedKeeps DEF Counted, CountedBut, Accounts

LEMMA CountedComing ==
  ASSUME NEW n \in [Map -> {None} \cup MapInstanceState],
         NEW b \in [Player -> {None} \cup PlayerBindingState], NEW p \in Player,
         NEW v \in PlayerBindingState, n[v.map] # None,
         b[p] = None, Counted(n, b)
  PROVE  Counted(Incremented(n, v.map), [b EXCEPT ![p] = v])
<1> DEFINE c == [b EXCEPT ![p] = v]
<1>0. v.map \in Map
  BY DEF PlayerBindingState
<1> SUFFICES ASSUME NEW m \in Map
             PROVE  Accounts(Incremented(n, v.map)[m], Inhabitants(c, m), m \in torn)
  BY DEF Counted, CountedBut
<1>00. Accounts(n[m], Inhabitants(b, m), m \in torn)
  BY DEF Counted, CountedBut
<1>1. CASE m = v.map
  <2>1. p \notin Inhabitants(b, v.map)
    BY DEF Inhabitants
  <2>2. Cardinality(Inhabitants(c, m)) = Cardinality(Inhabitants(b, m)) + 1
    BY <1>1, <2>1, OneMore
  <2>3. Cardinality(Inhabitants(b, m)) \in Nat /\ n[m].count \in Nat
    BY <1>1, InhabitantsFinite DEF MapInstanceState
  <2>4. Incremented(n, v.map)[m] # None /\ Incremented(n, v.map)[m].count = n[m].count + 1
    BY <1>0, <1>1, IncrementedBy
  <2> QED
    BY <1>00, <1>1, <2>2, <2>3, <2>4 DEF Accounts
<1>2. CASE m # v.map
  <2>1. Inhabitants(c, m) = Inhabitants(b, m)
    <3>1. p \notin Inhabitants(b, m)
      BY DEF Inhabitants
    <3> QED BY <1>2, <3>1 DEF Inhabitants
  <2>2. Incremented(n, v.map)[m] = n[m]
    BY <1>0, <1>2, IncrementedBy
  <2> QED
    BY <1>00, <2>1, <2>2
<1> QED
  BY <1>1, <1>2

\* Also where the instance is gone, or counts fewer players than it has.
LEMMA CountedGoing ==
  ASSUME NEW n \in [Map -> {None} \cup MapInstanceState],
         NEW b \in [Player -> {None} \cup PlayerBindingState], NEW p \in Player,
         b[p] # None, Counted(n, b)
  PROVE  Counted(Decremented(n, b[p].map), [b EXCEPT ![p] = None])
<1> DEFINE c == [b EXCEPT ![p] = None]
           o == b[p].map
<1>0. o \in Map
  BY DEF PlayerBindingState
<1> SUFFICES ASSUME NEW m \in Map
             PROVE  Accounts(Decremented(n, o)[m], Inhabitants(c, m), m \in torn)
  BY DEF Counted, CountedBut
<1>1. Accounts(n[m], Inhabitants(b, m), m \in torn)
  BY DEF Counted, CountedBut
<1>2. CASE m = o
  <2>1. p \in Inhabitants(b, m)
    BY <1>2 DEF Inhabitants
  <2>2. /\ Cardinality(Inhabitants(c, m)) = Cardinality(Inhabitants(b, m)) - 1
        /\ Cardinality(Inhabitants(b, m)) >= 1
    BY <1>2, OneLess
  <2>3. Cardinality(Inhabitants(b, m)) \in Nat
    BY InhabitantsFinite
  <2>4. CASE n[m] = None
    <3>1. m \in torn
      BY <1>1, <2>1, <2>4 DEF Accounts
    <3>2. Decremented(n, o)[m] = None
      BY <1>0, <1>2, <2>4, DecrementedBy
    <3> QED BY <3>1, <3>2 DEF Accounts
  <2>5. CASE n[m] # None
    <3>1. n[m].count \in Nat
      BY <2>5 DEF MapInstanceState
    <3>2. /\ Decremented(n, o)[m] # None
          /\ Decremented(n, o)[m].count = IF n[m].count = 0 THEN 0 ELSE n[m].count - 1
      BY <1>0, <1>2, <2>5, DecrementedBy
    <3>3. /\ n[m].count =< Cardinality(Inhabitants(b, m))
          /\ m \notin torn => n[m].count = Cardinality(Inhabitants(b, m))
      BY <1>1, <2>5 DEF Accounts
    <3>4. /\ Decremented(n, o)[m].count =< Cardinality(Inhabitants(c, m))
          /\ m \notin torn => Decremented(n, o)[m].count = Cardinality(Inhabitants(c, m))
      BY <2>2, <2>3, <3>1, <3>2, <3>3
    <3> QED BY <3>2, <3>4 DEF Accounts
  <2> QED BY <2>4, <2>5
<1>3. CASE m # o
  <2>1. Inhabitants(c, m) = Inhabitants(b, m)
    <3>1. p \notin Inhabitants(b, m)
      BY <1>3 DEF Inhabitants
    <3> QED BY <3>1 DEF Inhabitants
  <2>2. Decremented(n, o)[m] = n[m]
    BY <1>0, <1>3, DecrementedBy
  <2> QED
    BY <1>1, <2>1, <2>2
<1> QED
  BY <1>2, <1>3

-----------------------------------------------------------------------------
(* The entries of the index *)

LEMMA SoundUnindexed ==
  ASSUME NEW b \in [Player -> {None} \cup PlayerBindingState], NEW i \in SUBSET IndexEntry,
         NEW p \in Player, b[p] # None, Sound(b, i)
  PROVE  /\ Unindexed(i, p, b[p]) \in SUBSET IndexEntry
         /\ \A e \in Unindexed(i, p, b[p]) : e \in i /\ e.player # p
<1>1. Unindexed(i, p, b[p]) \subseteq i
  BY DEF Unindexed
<1>2. ASSUME NEW e \in Unindexed(i, p, b[p]), e.player = p
      PROVE  FALSE
  <2>1. e \in i
    BY <1>1, <1>2
  <2>2. b[p].at # None /\ e = Entry(b[p].map, b[p].at, p)
    BY <1>2, <2>1 DEF Sound
  <2> QED
    BY <1>2, <2>2 DEF Unindexed
<1> QED
  BY <1>1, <1>2

\* Only the entries of a player depend on its binding.
LEMMA SoundElsewhere ==
  ASSUME NEW b, NEW c, NEW i \in SUBSET IndexEntry, NEW j \in SUBSET IndexEntry, NEW p \in Player,
         \A q \in Player \ {p} : c[q] = b[q],
         Sound(b, i), \A e \in j : e \in i /\ e.player # p
  PROVE  Sound(c, j)
<1> SUFFICES ASSUME NEW e \in j
             PROVE  c[e.player] = b[e.player] /\ e \in i
  BY DEF Sound
<1> QED
  BY DEF IndexEntry

LEMMA SoundReindexed ==
  ASSUME NEW b \in [Player -> {None} \cup PlayerBindingState], NEW i \in SUBSET IndexEntry,
         NEW p \in Player, NEW pt \in Point, b[p] # None, Sound(b, i)
  PROVE  LET v == [map |-> b[p].map, at |-> pt]
         IN  /\ Reindexed(i, p, b[p], v) \in SUBSET IndexEntry
             /\ Sound([b EXCEPT ![p] = v], Reindexed(i, p, b[p], v))
<1> DEFINE v == [map |-> b[p].map, at |-> pt]
           c == [b EXCEPT ![p] = v]
           new == Entry(b[p].map, pt, p)
<1>0. b[p].map \in Map /\ b[p].at \in Point \cup {None} /\ pt # None
  BY NoneIsNone DEF PlayerBindingState
<1>1. new \in IndexEntry /\ new.player = p
  BY <1>0, EntryTyped
<1>2. v.map = b[p].map /\ v.at = pt /\ v \in PlayerBindingState
  BY <1>0 DEF PlayerBindingState
<1>3. c[p] = v /\ c[p] # None
  BY <1>2, NoneIsNone
<1>4. c[new.player] # None /\ c[new.player].at # None
      /\ new = Entry(c[new.player].map, c[new.player].at, new.player)
  BY <1>0, <1>1, <1>2, <1>3
<1>5. ASSUME NEW e \in i, e.player # p
      PROVE  c[e.player] # None /\ c[e.player].at # None
             /\ e = Entry(c[e.player].map, c[e.player].at, e.player)
  <2>1. e.player \in Player /\ c[e.player] = b[e.player]
    BY <1>5 DEF IndexEntry
  <2> QED
    BY <2>1 DEF Sound
<1>6. ASSUME NEW e \in i, e.player = p
      PROVE  b[p].at # None /\ e = Entry(b[p].map, b[p].at, p)
  BY <1>6 DEF Sound
<1>7. Reindexed(i, p, b[p], v) \in SUBSET IndexEntry
  BY <1>1, <1>2 DEF Reindexed
<1>8. ASSUME NEW e \in Reindexed(i, p, b[p], v)
      PROVE  e = new \/ (e \in i /\ e.player # p)
  <2>1. CASE b[p].at = None
    BY <1>2, <1>6, <1>8, <2>1 DEF Reindexed
  <2>2. CASE b[p].at # None /\ CellOf(b[p].at) = CellOf(pt)
    <3>1. Reindexed(i, p, b[p], v) = i
      BY <1>2, <2>2 DEF Reindexed
    <3>2. Entry(b[p].map, b[p].at, p) = new
      BY <2>2 DEF Entry
    <3> QED
      BY <1>6, <1>8, <3>1, <3>2
  <2>3. CASE b[p].at # None /\ CellOf(b[p].at) # CellOf(pt)
    <3>1. Reindexed(i, p, b[p], v) = (i \ {Entry(b[p].map, b[p].at, p)}) \cup {new}
      BY <1>2, <2>3 DEF Reindexed
    <3> QED
      BY <1>6, <1>8, <3>1
  <2> QED
    BY <2>1, <2>2, <2>3
<1>9. Sound(c, Reindexed(i, p, b[p], v))
  <2> SUFFICES ASSUME NEW e \in Reindexed(i, p, b[p], v)
               PROVE  c[e.player] # None /\ c[e.player].at # None
                      /\ e = Entry(c[e.player].map, c[e.player].at, e.player)
    BY DEF Sound
  <2> QED
    BY <1>4, <1>5, <1>8
<1> QED
  BY <1>7, <1>9

-----------------------------------------------------------------------------
(* The handlers *)

LEMMA ZParts ==
  ASSUME NEW z, ZInv(z)
  PROVE  /\ z.instance \in [Map -> {None} \cup MapInstanceState]
         /\ z.binding \in [Player -> {None} \cup PlayerBindingState]
         /\ z.index \in SUBSET IndexEntry
         /\ z = [instance |-> z.instance, binding |-> z.binding, index |-> z.index]
         /\ Counted(z.instance, z.binding)
         /\ Sound(z.binding, z.index)
  BY DEF ZInv, ZoneState

LEMMA ZWhole ==
  ASSUME NEW n \in [Map -> {None} \cup MapInstanceState],
         NEW b \in [Player -> {None} \cup PlayerBindingState],
         NEW i \in SUBSET IndexEntry,
         Counted(n, b), Sound(b, i)
  PROVE  ZInv([instance |-> n, binding |-> b, index |-> i])
  BY DEF ZInv, ZoneState

LEMMA ZLeft ==
  ASSUME NEW z, ZInv(z), NEW p \in Player
  PROVE  ZInv(Left(z, p))
<1> DEFINE n == z.instance
           b == z.binding
           i == z.index
           c == [b EXCEPT ![p] = None]
<1>0. /\ n \in [Map -> {None} \cup MapInstanceState]
      /\ b \in [Player -> {None} \cup PlayerBindingState]
      /\ i \in SUBSET IndexEntry
      /\ Counted(n, b)
      /\ Sound(b, i)
  BY ZParts
<1>1. CASE b[p] = None
  BY <1>1 DEF Left
<1>2. CASE b[p] # None
  <2> HIDE DEF n, b, i
  <2>0. b[p].map \in Map
    BY <1>0, <1>2 DEF PlayerBindingState
  <2>1. Counted(Decremented(n, b[p].map), c)
    BY <1>0, <1>2, CountedGoing
  <2>2. Decremented(n, b[p].map) \in [Map -> {None} \cup MapInstanceState]
    BY <1>0, <2>0, <2>1, DecrementedBy
  <2>3. c \in [Player -> {None} \cup PlayerBindingState]
    BY <1>0
  <2>4. /\ Unindexed(i, p, b[p]) \in SUBSET IndexEntry
        /\ \A e \in Unindexed(i, p, b[p]) : e \in i /\ e.player # p
    BY <1>0, <1>2, SoundUnindexed
  <2>5. Sound(c, Unindexed(i, p, b[p]))
    <3>1. \A q \in Player \ {p} : c[q] = b[q]
      BY <1>0
    <3> HIDE DEF c
    <3> QED BY <1>0, <2>4, <3>1, SoundElsewhere
  <2>6. ZInv([instance |-> Decremented(n, b[p].map), binding |-> c, index |-> Unindexed(i, p, b[p])])
    <3> HIDE DEF c
    <3> QED BY <2>1, <2>2, <2>3, <2>4, <2>5, ZWhole
  <2> QED
    BY <1>2, <2>6 DEF Left, n, b, i
<1> QED
  BY <1>1, <1>2

LEMMA ZMoved ==
  ASSUME NEW z, ZInv(z), NEW p \in Player, NEW pt \in Point
  PROVE  ZInv(Moved(z, p, pt))
<1> DEFINE n == z.instance
           b == z.binding
           i == z.index
           v == [map |-> b[p].map, at |-> pt]
           c == [b EXCEPT ![p] = v]
<1>0. /\ n \in [Map -> {None} \cup MapInstanceState]
      /\ b \in [Player -> {None} \cup PlayerBindingState]
      /\ i \in SUBSET IndexEntry
      /\ Counted(n, b)
      /\ Sound(b, i)
  BY ZParts
<1>1. CASE b[p] = None
  BY <1>1 DEF Moved
<1>2. CASE b[p] # None
  <2> HIDE DEF n, b, i
  <2>0. b[p].map \in Map /\ v \in PlayerBindingState /\ v.map = b[p].map /\ v # None
    <3>1. b[p].map \in Map
      BY <1>0, <1>2 DEF PlayerBindingState
    <3>2. v \in PlayerBindingState
      BY <3>1 DEF PlayerBindingState
    <3> QED BY <3>1, <3>2, NoneIsNone
  <2>1. Touched(n, b[p].map) \in [Map -> {None} \cup MapInstanceState] /\ Counted(Touched(n, b[p].map), b)
    BY <1>0, <2>0, TouchedKeeps, CountedTouched
  <2>2. c \in [Player -> {None} \cup PlayerBindingState]
    BY <1>0, <2>0
  <2>3. \A m \in Map : Inhabitants(c, m) = Inhabitants(b, m)
    <3>1. \A q \in Player : (c[q] = None <=> b[q] = None) /\ (b[q] # None => c[q].map = b[q].map)
      BY <1>0, <1>2, <2>0
    <3> HIDE DEF c
    <3> QED BY <3>1 DEF Inhabitants
  <2>4. Counted(Touched(n, b[p].map), c)
    <3> HIDE DEF c
    <3> QED BY <2>1, <2>3 DEF Counted, CountedBut
  <2>5. Reindexed(i, p, b[p], v) \in SUBSET IndexEntry /\ Sound(c, Reindexed(i, p, b[p], v))
    BY <1>0, <1>2, SoundReindexed
  <2>6. ZInv([instance |-> Touched(n, b[p].map), binding |-> c, index |-> Reindexed(i, p, b[p], v)])
    <3> HIDE DEF c, v
    <3> QED BY <2>1, <2>2, <2>4, <2>5, ZWhole
  <2> QED
    BY <1>2, <2>6 DEF Moved, n, b, i
<1> QED
  BY <1>1, <1>2

LEMMA ZEntered ==
  ASSUME NEW z, ZInv(z), NEW p \in Player, NEW m \in Map
  PROVE  ZInv(Entered(z, p, m))
<1> DEFINE n == z.instance
           b == z.binding
           i == z.index
<1>0. /\ n \in [Map -> {None} \cup MapInstanceState]
      /\ b \in [Player -> {None} \cup PlayerBindingState]
      /\ i \in SUBSET IndexEntry
      /\ z = [instance |-> n, binding |-> b, index |-> i]
      /\ Counted(n, b)
      /\ Sound(b, i)
  BY ZParts
<1>1. CASE n[m] = None
  BY <1>1 DEF Entered
<1>2. CASE n[m] # None /\ b[p] = None
  <2> DEFINE v == [map |-> m, at |-> None]
             c == [b EXCEPT ![p] = v]
  <2>0. Entered(z, p, m) = [instance |-> Incremented(n, m), binding |-> c, index |-> i]
    BY <1>0, <1>2 DEF Entered
  <2> HIDE DEF n, b, i
  <2>1. v \in PlayerBindingState /\ v.map = m
    BY DEF PlayerBindingState
  <2>2. Incremented(n, m) \in [Map -> {None} \cup MapInstanceState]
    BY <1>0, <1>2, IncrementedBy
  <2>3. c \in [Player -> {None} \cup PlayerBindingState]
    BY <1>0, <2>1
  <2>4. Counted(Incremented(n, m), c)
    <3>1. n[v.map] # None
      BY <1>2, <2>1
    <3> HIDE DEF v
    <3>2. Counted(Incremented(n, v.map), [b EXCEPT ![p] = v])
      BY <1>0, <1>2, <2>1, <3>1, CountedComing
    <3> QED BY <2>1, <3>2
  <2>5. \A e \in i : e \in i /\ e.player # p
    BY <1>2, <1>0 DEF Sound
  <2>6. Sound(c, i)
    <3>1. \A q \in Player \ {p} : c[q] = b[q]
      BY <1>0
    <3> HIDE DEF c
    <3> QED BY <1>0, <2>5, <3>1, SoundElsewhere
  <2>7. ZInv([instance |-> Incremented(n, m), binding |-> c, index |-> i])
    <3> HIDE DEF c
    <3> QED BY <1>0, <2>2, <2>3, <2>4, <2>6, ZWhole
  <2> QED
    BY <2>0, <2>7
<1>3. CASE n[m] # None /\ b[p] # None /\ b[p].map = m
  <2>0. Entered(z, p, m) = [instance |-> Touched(n, m), binding |-> b, index |-> i]
    BY <1>0, <1>3 DEF Entered
  <2> HIDE DEF n, b, i
  <2>1. Touched(n, m) \in [Map -> {None} \cup MapInstanceState] /\ Counted(Touched(n, m), b)
    BY <1>0, TouchedKeeps, CountedTouched
  <2> QED
    BY <1>0, <2>0, <2>1, ZWhole
<1>4. CASE n[m] # None /\ b[p] # None /\ b[p].map # m
  <2> DEFINE v == [map |-> m, at |-> b[p].at]
             g == [b EXCEPT ![p] = None]
             c == [b EXCEPT ![p] = v]
             d == Decremented(n, b[p].map)
             u == Unindexed(i, p, b[p])
  <2>0. Entered(z, p, m) = [instance |-> Incremented(d, m), binding |-> c, index |-> u]
    <3>1. Entered(z, p, m) = [instance |-> Incremented(d, m), binding |-> [b EXCEPT ![p].map = m], index |-> u]
      BY <1>4 DEF Entered
    <3>2. [b EXCEPT ![p].map = m] = c
      <4>1. [b[p] EXCEPT !.map = m] = v
        BY <1>0, <1>4 DEF PlayerBindingState
      <4> QED BY <1>0, <4>1
    <3> QED BY <3>1, <3>2
  <2> HIDE DEF n, b, i
  <2>1. b[p].map \in Map /\ v \in PlayerBindingState /\ v.map = m
    BY <1>0, <1>4 DEF PlayerBindingState
  <2>2. Counted(d, g)
    BY <1>0, <1>4, CountedGoing
  <2>3. d \in [Map -> {None} \cup MapInstanceState] /\ d[m] = n[m]
    BY <1>0, <1>4, <2>1, <2>2, DecrementedBy
  <2>4. g \in [Player -> {None} \cup PlayerBindingState] /\ g[p] = None /\ [g EXCEPT ![p] = v] = c
    BY <1>0
  <2>5. c \in [Player -> {None} \cup PlayerBindingState]
    BY <1>0, <2>1
  <2>6. Incremented(d, m) \in [Map -> {None} \cup MapInstanceState] /\ Counted(Incremented(d, m), c)
    <3>1. d[v.map] # None
      BY <1>4, <2>1, <2>3
    <3> HIDE DEF v, g, d
    <3>2. Counted(Incremented(d, v.map), [g EXCEPT ![p] = v])
      BY <2>1, <2>2, <2>3, <2>4, <3>1, CountedComing
    <3>3. Incremented(d, m) \in [Map -> {None} \cup MapInstanceState]
      BY <2>1, <2>3, <3>1, IncrementedBy
    <3> QED BY <2>1, <2>4, <3>2, <3>3
  <2>7. u \in SUBSET IndexEntry /\ \A e \in u : e \in i /\ e.player # p
    BY <1>0, <1>4, SoundUnindexed
  <2>8. Sound(c, u)
    <3>1. \A q \in Player \ {p} : c[q] = b[q]
      BY <1>0
    <3> HIDE DEF c, u
    <3> QED BY <1>0, <2>7, <3>1, SoundElsewhere
  <2>9. ZInv([instance |-> Incremented(d, m), binding |-> c, index |-> u])
    <3> HIDE DEF c, d, u
    <3> QED BY <2>5, <2>6, <2>7, <2>8, ZWhole
  <2> QED
    BY <2>0, <2>9
<1> QED
  BY <1>1, <1>2, <1>3, <1>4

\* An instance that counts nobody may be erased.
LEMMA ZWithout ==
  ASSUME NEW z, ZInv(z), NEW m \in Map, Empty(z.instance, m)
  PROVE  ZInv(Without(z, m))
<1> DEFINE n == z.instance
           b == z.binding
           i == z.index
           w == [n EXCEPT ![m] = None]
<1>0. /\ n \in [Map -> {None} \cup MapInstanceState]
      /\ b \in [Player -> {None} \cup PlayerBindingState]
      /\ i \in SUBSET IndexEntry
      /\ z = [instance |-> n, binding |-> b, index |-> i]
      /\ Counted(n, b)
      /\ Sound(b, i)
  BY ZParts
<1>1. Without(z, m) = [instance |-> w, binding |-> b, index |-> i]
  BY <1>0 DEF Without
<1>2. n[m] # None /\ n[m].count = 0
  BY DEF Empty
<1> HIDE DEF n, b, i
<1>3. w \in [Map -> {None} \cup MapInstanceState] /\ w[m] = None /\ \A k \in Map \ {m} : w[k] = n[k]
  BY <1>0
<1> HIDE DEF w
<1>4. m \notin torn => Inhabitants(b, m) = {}
  <2>1. m \notin torn => Cardinality(Inhabitants(b, m)) = 0
    BY <1>0, <1>2 DEF Counted, CountedBut, Accounts
  <2> QED BY <2>1, InhabitantsFinite, FS_EmptySet
<1>5. Counted(w, b)
  BY <1>0, <1>3, <1>4 DEF Counted, CountedBut, Accounts
<1> QED
  BY <1>0, <1>1, <1>3, <1>5, ZWhole

-----------------------------------------------------------------------------
(* The specification *)

\* The World server's view and the clients', of which only the positions
\* that come back to the zone matter.
Around == /\ reaping \in Dungeon \cup {None} /\ torn \subseteq Dungeon
          /\ line \in BOOLEAN /\ strays \in 0 .. MaxStrays
          /\ assigned \subseteq Map
          /\ world \in [Player -> {None} \cup [map : Map, at : Point]]
          /\ due \in [Player -> {None} \cup [at : Point, reconnect : BOOLEAN]]
          /\ seen \in [Player -> SUBSET Player]

Inv == ZInv(Zone) /\ Around

LEMMA ZoneBecomes ==
  ASSUME NEW z, ZInv(z), Becomes(z), UNCHANGED torn
  PROVE  ZInv(Zone)'
<1>1. z = [instance |-> z.instance, binding |-> z.binding, index |-> z.index]
  BY ZParts
<1>2. Zone' = z
  BY <1>1 DEF Zone, Becomes
<1> QED
  BY <1>2 DEF ZInv, ZoneState, Counted, CountedBut, Accounts, Sound, Inhabitants, Entry

LEMMA ZoneUnchanged ==
  ASSUME ZInv(Zone), UNCHANGED <<zone, torn>>
  PROVE  ZInv(Zone)'
<1>1. Becomes(Zone)
  BY DEF Becomes, Zone, zone
<1> QED
  BY <1>1, ZoneBecomes

\* The steps that touch the instances and not their counts.
LEMMA ZoneInstance ==
  ASSUME ZInv(Zone), UNCHANGED <<binding, index, torn>>,
         instance' \in [Map -> {None} \cup MapInstanceState], Counted(instance', binding)
  PROVE  ZInv(Zone)'
<1> DEFINE z == [instance |-> instance', binding |-> binding, index |-> index]
<1>1. ZInv(z)
  BY ZParts, ZWhole DEF Zone
<1>2. Becomes(z)
  BY DEF Becomes
<1> QED
  BY <1>1, <1>2, ZoneBecomes

LEMMA SightTyped == ASSUME NEW b, NEW i, NEW p PROVE Sight(b, i, p) \in SUBSET Player
  BY DEF Sight, Visible

LEMMA ArrivesPart == ASSUME NEW batch, NEW part \in Arrives(batch) PROVE part \subseteq batch
  BY DEF Arrives

LEMMA SeenTyped ==
  ASSUME NEW s \in [Player -> SUBSET Player], NEW p \in Player, NEW B \in SUBSET Player,
         NEW A \in SUBSET Player, NEW S \in SUBSET Player, NEW D \in SUBSET Player, NEW r \in BOOLEAN
  PROVE  /\ SeenLess(s, p, B) \in [Player -> SUBSET Player]
         /\ SeenMoved(s, p, B, A, S, D) \in [Player -> SUBSET Player]
         /\ SeenSnapshot(s, p, S, A, r) \in [Player -> SUBSET Player]
<1>1. SeenLess(s, p, B) \in [Player -> SUBSET Player]
  BY DEF SeenLess
<1>2. SeenMoved(s, p, B, A, S, D) \in [Player -> SUBSET Player]
  BY DEF SeenMoved
<1>3. SeenSnapshot(s, p, S, A, r) \in [Player -> SUBSET Player]
  BY DEF SeenSnapshot
<1> QED
  BY <1>1, <1>2, <1>3

LEMMA MaxIsNat == MaxStrays \in Nat
  BY ZoneAssumption

LEMMA StrayTyped == ASSUME strays \in 0 .. MaxStrays, Stray PROVE strays' \in 0 .. MaxStrays
  BY MaxIsNat DEF Stray

LEMMA TellTyped ==
  ASSUME strays \in 0 .. MaxStrays, NEW s \in [Player -> SUBSET Player],
         NEW t \in [Player -> SUBSET Player], NEW o \in BOOLEAN, Tell(s, t, o)
  PROVE  seen' \in [Player -> SUBSET Player] /\ strays' \in 0 .. MaxStrays
<1>1. PICK D \in SUBSET {q \in Player : t[q] # s[q]} :
        /\ seen' = [q \in Player |-> IF q \in D THEN s[q] ELSE t[q]]
        /\ IF o \/ D # {} THEN Stray ELSE UNCHANGED strays
  BY DEF Tell
<1>2. seen' \in [Player -> SUBSET Player]
  BY <1>1
<1>3. strays' \in 0 .. MaxStrays
  BY <1>1, StrayTyped
<1> QED
  BY <1>2, <1>3

LEMMA InvInit == Init => Inv
<1> SUFFICES ASSUME Init PROVE Inv
  OBVIOUS
<1>1. /\ instance \in [Map -> {None} \cup MapInstanceState]
      /\ binding \in [Player -> {None} \cup PlayerBindingState]
      /\ index \in SUBSET IndexEntry
  BY DEF Init
<1>2. Counted(instance, binding)
  BY DEF Init, Counted, CountedBut, Accounts, Inhabitants
<1>3. Sound(binding, index)
  BY DEF Init, Sound
<1>4. ZInv(Zone)
  BY <1>1, <1>2, <1>3, ZWhole DEF Zone
<1>5. Around
  <2>1. strays \in 0 .. MaxStrays
    BY MaxIsNat DEF Init
  <2>2. reaping \in Dungeon \cup {None} /\ torn \subseteq Dungeon
        /\ line \in BOOLEAN /\ assigned \subseteq Map /\ seen \in [Player -> SUBSET Player]
    BY DEF Init
  <2>3. /\ world \in [Player -> {None} \cup [map : Map, at : Point]]
        /\ due \in [Player -> {None} \cup [at : Point, reconnect : BOOLEAN]]
    BY DEF Init
  <2> QED BY <2>1, <2>2, <2>3 DEF Around
<1> QED
  BY <1>4, <1>5 DEF Inv

LEMMA InvLine == ASSUME Inv, LineUp \/ LineDown PROVE Inv'
<1>1. ZInv(Zone)'
  BY ZoneUnchanged DEF Inv, LineUp, LineDown, reap
<1>2. Around'
  <2>1. CASE LineUp
    BY <2>1 DEF Inv, Around, LineUp, reap
  <2>2. CASE LineDown
    BY <2>2, StrayTyped DEF Inv, Around, LineDown, reap
  <2> QED BY <2>1, <2>2
<1> QED
  BY <1>1, <1>2 DEF Inv

LEMMA InstanceParts ==
  ASSUME ZInv(Zone)
  PROVE  /\ instance \in [Map -> {None} \cup MapInstanceState]
         /\ binding \in [Player -> {None} \cup PlayerBindingState]
         /\ Counted(instance, binding)
  BY ZParts DEF Zone

LEMMA InvAssign == ASSUME Inv, NEW m \in Map, Assign(m) PROVE Inv'
<1>0. ZInv(Zone) /\ UNCHANGED <<binding, index, torn>>
  BY DEF Inv, Assign, reap
<1>1. /\ instance \in [Map -> {None} \cup MapInstanceState]
      /\ Counted(instance, binding)
  BY <1>0, InstanceParts
<1>2. CASE instance[m] # None /\ instance' = Touched(instance, m)
  <2>1. Touched(instance, m) \in [Map -> {None} \cup MapInstanceState] /\ Counted(Touched(instance, m), binding)
    BY <1>1, TouchedKeeps, CountedTouched
  <2> QED BY <1>0, <1>2, <2>1, ZoneInstance DEF Inv, Assign, Around, reap
<1>3. CASE instance[m] = None /\ instance' = [instance EXCEPT ![m] = Fresh]
  <2>1. Fresh \in MapInstanceState /\ Fresh.count = 0 /\ Fresh # None
    <3>1. Fresh \in MapInstanceState /\ Fresh.count = 0
      BY DEF Fresh, MapInstanceState
    <3> QED BY <3>1, NoneIsNone
  <2>2. instance' \in [Map -> {None} \cup MapInstanceState]
    BY <1>1, <1>3, <2>1
  <2>3. Counted(instance', binding)
    <3>1. m \notin torn => Inhabitants(binding, m) = {}
      BY <1>1, <1>3 DEF Counted, CountedBut, Accounts
    <3>2. instance'[m] = Fresh /\ \A k \in Map \ {m} : instance'[k] = instance[k]
      BY <1>1, <1>3
    <3>3. /\ m \notin torn => Cardinality(Inhabitants(binding, m)) = 0
          /\ Cardinality(Inhabitants(binding, m)) \in Nat
      BY <3>1, FS_EmptySet, InhabitantsFinite
    <3> QED BY <1>1, <2>1, <3>2, <3>3 DEF Counted, CountedBut, Accounts
  <2> QED BY <1>0, <2>2, <2>3, ZoneInstance DEF Inv, Assign, Around, reap
<1> QED
  BY <1>2, <1>3 DEF Assign

LEMMA InvAges == ASSUME Inv, NEW m \in Map, Ages(m) PROVE Inv'
<1>0. ZInv(Zone) /\ UNCHANGED <<binding, index, torn>> /\ Around'
  BY DEF Inv, Ages, Around, reap
<1>1. /\ instance \in [Map -> {None} \cup MapInstanceState]
      /\ Counted(instance, binding)
  BY <1>0, InstanceParts
<1>2. /\ instance' \in [Map -> {None} \cup MapInstanceState]
      /\ \A k \in Map : instance'[k] = None <=> instance[k] = None
      /\ \A k \in Map : instance[k] # None => instance'[k].count = instance[k].count
  <2>1. instance' = [instance EXCEPT ![m] = [instance[m] EXCEPT !.idle = TRUE]] /\ instance[m] # None
    BY DEF Ages, Empty
  <2>2. [instance[m] EXCEPT !.idle = TRUE] \in MapInstanceState
        /\ [instance[m] EXCEPT !.idle = TRUE].count = instance[m].count
    BY <1>1, <2>1 DEF MapInstanceState
  <2> QED BY <1>1, <2>1, <2>2, NoneIsNone
<1>3. Counted(instance', binding)
  BY <1>1, <1>2 DEF Counted, CountedBut, Accounts
<1> QED
  BY <1>0, <1>2, <1>3, ZoneInstance DEF Inv

LEMMA InvReapTests == ASSUME Inv, NEW m \in Map, ReapTests(m) PROVE Inv'
<1>1. ZInv(Zone)'
  BY ZoneUnchanged DEF Inv, ReapTests
<1>2. Around'
  BY DEF Inv, Around, ReapTests, Empty
<1> QED
  BY <1>1, <1>2 DEF Inv

\* An instance that is erased with players in it is torn from here on.
LEMMA InvReapErases == ASSUME Inv, ReapErases PROVE Inv'
<1> DEFINE m == reaping
<1>0. /\ ZInv(Zone) /\ UNCHANGED <<binding, index>>
      /\ m \in Dungeon /\ m \in Map
      /\ instance' = [instance EXCEPT ![m] = None]
      /\ torn' = IF In(m) = {} THEN torn ELSE torn \cup {m}
  BY ZoneAssumption DEF Inv, Around, ReapErases
<1>1. /\ instance \in [Map -> {None} \cup MapInstanceState]
      /\ binding \in [Player -> {None} \cup PlayerBindingState]
      /\ index \in SUBSET IndexEntry
      /\ Counted(instance, binding)
      /\ Sound(binding, index)
  BY <1>0, ZParts DEF Zone
<1>2. Around'
  BY <1>0 DEF Inv, Around, ReapErases
<1>3. In(m) = Inhabitants(binding, m)
  BY DEF In, Bound, Inhabitants
<1> HIDE DEF m
<1>4. instance' \in [Map -> {None} \cup MapInstanceState] /\ instance'[m] = None
      /\ \A k \in Map \ {m} : instance'[k] = instance[k] /\ (k \in torn' <=> k \in torn)
  BY <1>0, <1>1
<1>5. m \notin torn' => Inhabitants(binding, m) = {}
  BY <1>0, <1>3
<1>6. CountedBut(instance', binding, torn')
  BY <1>1, <1>4, <1>5 DEF Counted, CountedBut, Accounts
<1>7. ZInv(Zone)'
  <2>1. Counted(instance, binding)'
    BY <1>0, <1>6 DEF Counted, CountedBut, Accounts, Inhabitants
  <2>2. Sound(binding, index)'
    BY <1>0, <1>1 DEF Sound, Entry
  <2> QED BY <1>0, <1>1, <1>4, <2>1, <2>2 DEF ZInv, ZoneState, Zone
<1> QED
  BY <1>2, <1>7 DEF Inv

LEMMA InvEnter ==
  ASSUME Inv, NEW p \in Player, NEW m \in Map,
         EnterAbandoned(p, m) \/ \E pt \in Point : Enter(p, m, pt)
  PROVE  Inv'
<1> DEFINE z == Entered(Zone, p, m)
<1>1. ZInv(z) /\ ZInv(Left(z, p))
  BY ZEntered, ZLeft DEF Inv
<1>2. ZInv(Zone)'
  <2> HIDE DEF z
  <2>1. (Becomes(z) \/ Becomes(Left(z, p))) /\ UNCHANGED torn
    BY DEF EnterAbandoned, Enter, reap, z
  <2> QED BY <1>1, <2>1, ZoneBecomes
<1>3. ASSUME EnterAbandoned(p, m) PROVE Around'
  <2>1. SeenLess(seen, p, Sight(z.binding, z.index, p)) \in [Player -> SUBSET Player]
    <3> HIDE DEF z
    <3>1. Sight(z.binding, z.index, p) \in SUBSET Player
      BY SightTyped
    <3> QED BY <3>1, SeenTyped DEF Inv, Around
  <2>2. seen' = seen \/ seen' = SeenLess(seen, p, Sight(z.binding, z.index, p))
    BY <1>3 DEF EnterAbandoned
  <2>3. seen' \in [Player -> SUBSET Player]
    <3> HIDE DEF z
    <3> QED BY <2>1, <2>2 DEF Inv, Around
  <2> QED BY <1>3, <2>3, StrayTyped DEF Inv, Around, EnterAbandoned, reap
<1>4. ASSUME NEW pt \in Point, Enter(p, m, pt) PROVE Around'
  <2>1. [map |-> m, at |-> pt] \in [map : Map, at : Point]
        /\ [at |-> pt, reconnect |-> FALSE] \in [at : Point, reconnect : BOOLEAN]
    OBVIOUS
  <2>2. /\ world' \in [Player -> {None} \cup [map : Map, at : Point]]
        /\ due' \in [Player -> {None} \cup [at : Point, reconnect : BOOLEAN]]
    <3>1. CASE instance[m] = None
      BY <1>4, <3>1 DEF Inv, Around, Enter
    <3>2. CASE instance[m] # None
      <4>1. /\ world' = [world EXCEPT ![p] = [map |-> m, at |-> pt]]
            /\ due' = [due EXCEPT ![p] = [at |-> pt, reconnect |-> FALSE]]
        BY <1>4, <3>2 DEF Enter
      <4> QED BY <2>1, <4>1 DEF Inv, Around
    <3> QED BY <3>1, <3>2
  <2>3. seen' \in [Player -> SUBSET Player]
    BY <1>4 DEF Inv, Around, Enter
  <2> QED BY <1>4, <2>2, <2>3 DEF Inv, Around, Enter, reap
<1> QED
  BY <1>2, <1>3, <1>4 DEF Inv

LEMMA InvLeave == ASSUME Inv, NEW p \in Player, Leave(p) PROVE Inv'
<1>1. ZInv(IF line THEN Left(Zone, p) ELSE Zone)
  BY ZLeft DEF Inv
<1>2. ZInv(Zone)'
  BY <1>1, ZoneBecomes DEF Leave, reap
<1>3. seen' \in [Player -> SUBSET Player] /\ strays' \in 0 .. MaxStrays
  <2> DEFINE B == IF line THEN Sight(binding, index, p) ELSE {}
  <2>1. B \in SUBSET Player
    BY SightTyped
  <2>2. Tell([seen EXCEPT ![p] = {}], SeenLess(seen, p, B), FALSE)
    BY DEF Leave
  <2> HIDE DEF B
  <2>3. SeenLess(seen, p, B) \in [Player -> SUBSET Player] /\ [seen EXCEPT ![p] = {}] \in [Player -> SUBSET Player]
    BY <2>1, SeenTyped DEF Inv, Around
  <2> QED BY <2>2, <2>3, TellTyped DEF Inv, Around
<1>4. Around'
  BY <1>3 DEF Inv, Around, Leave, reap
<1> QED
  BY <1>2, <1>4 DEF Inv

LEMMA InvTransfer == ASSUME Inv, NEW p \in Player, NEW m \in Map, NEW pt \in Point, Transfer(p, m, pt) PROVE Inv'
<1> DEFINE z == Left(Zone, p)
<1>0. /\ Becomes(Entered(z, p, m)) \/ (Empty(z.instance, m) /\ Becomes(Entered(Without(z, m), p, m)))
      /\ UNCHANGED torn
      /\ reaping' = reaping \/ (reaping' = m /\ m \in Dungeon)
  BY DEF Transfer, Empty
<1>1. ZInv(z)
  BY ZLeft DEF Inv
<1>2. ZInv(Zone)'
  <2> HIDE DEF z
  <2>1. CASE Becomes(Entered(z, p, m))
    BY <1>0, <1>1, <2>1, ZEntered, ZoneBecomes
  <2>2. CASE Empty(z.instance, m) /\ Becomes(Entered(Without(z, m), p, m))
    BY <1>0, <1>1, <2>2, ZWithout, ZEntered, ZoneBecomes
  <2> QED BY <1>0, <2>1, <2>2
<1>3. seen' \in [Player -> SUBSET Player] /\ strays' \in 0 .. MaxStrays
  <2> DEFINE B == Sight(binding, index, p)
  <2>1. B \in SUBSET Player
    BY SightTyped
  <2>2. Tell([seen EXCEPT ![p] = {}], SeenLess(seen, p, B), FALSE)
    BY DEF Transfer
  <2> HIDE DEF B
  <2>3. SeenLess(seen, p, B) \in [Player -> SUBSET Player] /\ [seen EXCEPT ![p] = {}] \in [Player -> SUBSET Player]
    BY <2>1, SeenTyped DEF Inv, Around
  <2> QED BY <2>2, <2>3, TellTyped DEF Inv, Around
<1>4. Around'
  BY <1>0, <1>3 DEF Inv, Around, Transfer
<1> QED
  BY <1>2, <1>4 DEF Inv

LEMMA InvMove == ASSUME Inv, NEW p \in Player, NEW pt \in Point, Move(p, pt) PROVE Inv'
<1> DEFINE z == IF line THEN Moved(Zone, p, pt) ELSE Zone
<1>1. ZInv(z)
  BY ZMoved DEF Inv
<1>2. ZInv(Zone)'
  BY <1>1, ZoneBecomes DEF Move, reap
<1>3. seen' \in [Player -> SUBSET Player] /\ strays' \in 0 .. MaxStrays
  <2> DEFINE B == Sight(binding, index, p)
             A == Sight(z.binding, z.index, p)
  <2>1. B \in SUBSET Player /\ A \in SUBSET Player
    BY SightTyped
  <2>2. IF line /\ Bound(binding, p)
          THEN \E S \in Arrives(A \ B), D \in Arrives(B \ A) :
                 Tell(seen, SeenMoved(seen, p, B, A, S, D), due[p] # None \/ S # A \ B \/ D # B \ A)
          ELSE Tell(seen, seen, due[p] # None)
    BY DEF Move
  <2>3. seen \in [Player -> SUBSET Player] /\ strays \in 0 .. MaxStrays
    BY DEF Inv, Around
  <2> HIDE DEF A, B
  <2>4. CASE line /\ Bound(binding, p)
    <3>1. PICK S \in Arrives(A \ B), D \in Arrives(B \ A) :
             Tell(seen, SeenMoved(seen, p, B, A, S, D), due[p] # None \/ S # A \ B \/ D # B \ A)
      BY <2>2, <2>4
    <3>2. S \in SUBSET Player /\ D \in SUBSET Player
      <4>1. S \subseteq A \ B /\ D \subseteq B \ A
        BY ArrivesPart
      <4> QED BY <2>1, <4>1
    <3>3. SeenMoved(seen, p, B, A, S, D) \in [Player -> SUBSET Player]
      BY <2>1, <2>3, <3>2, SeenTyped
    <3> QED BY <2>3, <3>1, <3>3, TellTyped
  <2>5. CASE ~(line /\ Bound(binding, p))
    BY <2>2, <2>3, <2>5, TellTyped
  <2> QED BY <2>4, <2>5
<1>4. world' \in [Player -> {None} \cup [map : Map, at : Point]]
  <2>1. world \in [Player -> {None} \cup [map : Map, at : Point]] /\ world[p] # None
        /\ world' = [world EXCEPT ![p].at = pt]
    BY DEF Inv, Around, Move
  <2>2. [world[p] EXCEPT !.at = pt] \in [map : Map, at : Point]
    BY <2>1
  <2> QED BY <2>1, <2>2
<1>5. Around'
  BY <1>3, <1>4 DEF Inv, Around, Move, reap
<1> QED
  BY <1>2, <1>5 DEF Inv

LEMMA InvReconnect == ASSUME Inv, NEW p \in Player, Reconnect(p) PROVE Inv'
<1>1. ZInv(Zone)'
  BY ZoneUnchanged DEF Inv, Reconnect, reap
<1>2. Around'
  BY DEF Inv, Around, Reconnect, reap
<1> QED
  BY <1>1, <1>2 DEF Inv

LEMMA InvSnapshot == ASSUME Inv, NEW p \in Player, Snapshot(p) PROVE Inv'
<1> DEFINE z == IF line /\ due[p] # None THEN Moved(Zone, p, due[p].at) ELSE Zone
<1>0. due[p].at \in Point /\ due[p].reconnect \in BOOLEAN
  BY DEF Inv, Around, Snapshot
<1>1. ZInv(z)
  BY <1>0, ZMoved DEF Inv
<1>2. ZInv(Zone)'
  BY <1>1, ZoneBecomes DEF Snapshot, reap
<1>3. seen' \in [Player -> SUBSET Player] /\ strays' \in 0 .. MaxStrays
  <2> DEFINE A == Sight(z.binding, z.index, p)
  <2>1. A \in SUBSET Player
    BY SightTyped
  <2>2. IF line /\ Bound(binding, p)
          THEN \E S \in Arrives(A) :
                 Tell([seen EXCEPT ![p] = S], SeenSnapshot(seen, p, S, A, due[p].reconnect), S # A)
          ELSE UNCHANGED <<seen, strays>>
    BY DEF Snapshot
  <2>3. seen \in [Player -> SUBSET Player] /\ strays \in 0 .. MaxStrays
    BY DEF Inv, Around
  <2> HIDE DEF A
  <2>4. CASE line /\ Bound(binding, p)
    <3>1. PICK S \in Arrives(A) :
             Tell([seen EXCEPT ![p] = S], SeenSnapshot(seen, p, S, A, due[p].reconnect), S # A)
      BY <2>2, <2>4
    <3>2. S \in SUBSET Player
      BY <2>1, ArrivesPart
    <3>3. /\ SeenSnapshot(seen, p, S, A, due[p].reconnect) \in [Player -> SUBSET Player]
          /\ [seen EXCEPT ![p] = S] \in [Player -> SUBSET Player]
      BY <1>0, <2>1, <2>3, <3>2, SeenTyped
    <3> QED BY <2>3, <3>1, <3>3, TellTyped
  <2>5. CASE ~(line /\ Bound(binding, p))
    BY <2>2, <2>3, <2>5
  <2> QED BY <2>4, <2>5
<1>4. Around'
  BY <1>3 DEF Inv, Around, Snapshot, reap
<1> QED
  BY <1>2, <1>4 DEF Inv

LEMMA InvNext == Inv /\ [Next]_vars => Inv'
<1> SUFFICES ASSUME Inv, [Next]_vars PROVE Inv'
  OBVIOUS
<1>1. CASE UNCHANGED vars
  <2>1. ZInv(Zone)'
    BY <1>1, ZoneUnchanged DEF Inv, vars, zone
  <2>2. Around'
    BY <1>1 DEF Inv, Around, vars
  <2> QED BY <2>1, <2>2 DEF Inv
<1>2. CASE LineUp \/ LineDown
  BY <1>2, InvLine
<1>3. CASE ReapErases \/ \E m \in Map : Ages(m) \/ ReapTests(m)
  BY <1>3, InvAges, InvReapTests, InvReapErases
<1>4. CASE \E m \in Map : Assign(m) \/ AssignRefused(m)
  BY <1>1, <1>4, InvAssign DEF AssignRefused
<1>5. CASE \E p \in Player : Leave(p) \/ Reconnect(p) \/ Snapshot(p) \/ \E pt \in Point : Move(p, pt)
  BY <1>5, InvLeave, InvReconnect, InvSnapshot, InvMove
<1>6. CASE \E p \in Player, m \in Map : EnterAbandoned(p, m) \/ \E pt \in Point : Enter(p, m, pt)
  BY <1>6, InvEnter
<1>7. CASE \E p \in Player, m \in Map, pt \in Point : Transfer(p, m, pt)
  BY <1>7, InvTransfer
<1> QED
  BY <1>1, <1>2, <1>3, <1>4, <1>5, <1>6, <1>7 DEF Next

LEMMA InvAlways == Spec => []Inv
  BY InvInit, InvNext, PTL DEF Spec

-----------------------------------------------------------------------------
(* What it means *)

\* The zone's maps, the World server's view and the clients' keep their types,
\* whatever is lost or abandoned.
THEOREM TypeCorrect == Spec => []TypeOK
<1>1. Inv => TypeOK
  <2> SUFFICES ASSUME Inv PROVE TypeOK
    OBVIOUS
  <2>1. /\ instance \in [Map -> {None} \cup MapInstanceState]
        /\ binding \in [Player -> {None} \cup PlayerBindingState]
        /\ index \in SUBSET IndexEntry
    BY ZParts DEF Inv, Zone
  <2> QED BY <2>1 DEF TypeOK, Inv, Around, IndexEntry
<1> QED
  BY <1>1, InvAlways, PTL

\* OnPlayerEnterRequest_, OnPlayerLeaveRequest_, ReapEmptyDungeonInstances_: an
\* instance counts exactly the players bound to it unless the reaping, which
\* runs beside the handlers, erased it under one; even then it never counts a
\* player too many.  For every number of players, instances and lost messages.
THEOREM CountsNeverExceed == Spec => []PlayersCounted
<1>1. Inv => PlayersCounted
  <2> SUFFICES ASSUME Inv PROVE PlayersCounted
    OBVIOUS
  <2>1. Counted(instance, binding)
    BY InstanceParts DEF Inv
  <2>2. \A m : In(m) = Inhabitants(binding, m)
    BY DEF In, Bound, Inhabitants
  <2> QED BY <2>1, <2>2 DEF Counted, CountedBut, Accounts, PlayersCounted
<1> QED
  BY <1>1, InvAlways, PTL

\* UpdateActorSpatialIndex_, RemoveActorFromSpatialIndex_: every entry of the
\* spatial index is that of a bound player in the map and the cell it stands
\* in, for every sight radius and all positions.
THEOREM IndexIsSound == Spec => []IndexSound
<1>1. Inv => IndexSound
  <2> SUFFICES ASSUME Inv PROVE IndexSound
    OBVIOUS
  <2>1. Sound(binding, index)
    BY ZParts DEF Inv, Zone
  <2> QED BY <2>1 DEF Sound, IndexSound, Placed, Bound
<1> QED
  BY <1>1, InvAlways, PTL

-----------------------------------------------------------------------------
(* The cells that are searched *)

LEMMA Quotient ==
  ASSUME NEW a \in Int, NEW c \in Nat, c >= 1
  PROVE  /\ a \div c \in Int
         /\ (a \div c) * c =< a
         /\ a < (a \div c) * c + c
<1>1. a \div c \in Int
  OBVIOUS
<1>2. /\ a = (a \div c) * c + (a % c)
      /\ a % c \in 0 .. c - 1
  OBVIOUS
<1> QED
  BY <1>1, <1>2

\* A product grows with its first factor.
LEMMA ProductGrows ==
  ASSUME NEW x \in Int, NEW y \in Int, NEW c \in Nat, x =< y
  PROVE  x * c =< y * c
<1>1. (y - x) * c >= 0
  OBVIOUS
<1>2. (y - x) * c = y * c - x * c
  OBVIOUS
<1> QED
  BY <1>1, <1>2

LEMMA CellPositive == CellSize \in Nat /\ CellSize >= 1
<1>1. Radius \div 2 \in Int
  BY ZoneAssumption
<1> QED
  BY <1>1 DEF CellSize, Greater

\* The range, rounded up, spans the radius.
LEMMA RangeSpansRadius == /\ NeighborRange \in Nat
                          /\ NeighborRange * CellSize >= Radius
<1> DEFINE c == CellSize
           up == (Radius + c - 1) \div c
<1>1. c \in Nat /\ c >= 1 /\ Radius \in Nat
  BY CellPositive, ZoneAssumption
<1> HIDE DEF c
<1>2. up \in Int /\ Radius + c - 1 < up * c + c
  BY <1>1, Quotient
<1>3. NeighborRange = Greater(1, up)
  BY DEF NeighborRange, c
<1> HIDE DEF up
<1>4. NeighborRange \in Nat /\ NeighborRange >= up
  BY <1>2, <1>3 DEF Greater
<1>5. up * c =< NeighborRange * c
  BY <1>1, <1>2, <1>4, ProductGrows
<1>6. up * c >= Radius
  BY <1>1, <1>2
<1>7. NeighborRange * c >= Radius
  BY <1>1, <1>2, <1>4, <1>5, <1>6
<1> QED
  BY <1>4, <1>7 DEF c

\* Two coordinates no further apart than the radius lie in cells no further
\* apart than the range.
LEMMA CellsWithin ==
  ASSUME NEW x \in Int, NEW y \in Int, x - y =< Radius
  PROVE  x \div CellSize =< y \div CellSize + NeighborRange
<1> DEFINE c == CellSize
           n == NeighborRange
           qx == x \div c
           qy == y \div c
<1>1. c \in Nat /\ c >= 1 /\ Radius \in Nat /\ n \in Nat /\ n * c >= Radius
  BY CellPositive, RangeSpansRadius, ZoneAssumption
<1> HIDE DEF c, n
<1>2. qx \in Int /\ qx * c =< x
  BY <1>1, Quotient
<1>3. qy \in Int /\ y < qy * c + c
  BY <1>1, Quotient
<1> HIDE DEF qx, qy
<1>4. SUFFICES ASSUME qx >= qy + n + 1
               PROVE  FALSE
  BY <1>1, <1>2, <1>3, <1>4 DEF c, n, qx, qy
<1>5. (qy + n + 1) * c =< qx * c
  BY <1>1, <1>2, <1>3, <1>4, ProductGrows
<1>6. (qy + n + 1) * c = qy * c + n * c + c
  BY <1>1, <1>3
<1>7. n * c \in Int /\ qy * c \in Int /\ qx * c \in Int
  BY <1>1, <1>2, <1>3
<1> QED
  BY <1>1, <1>2, <1>3, <1>5, <1>6, <1>7

\* A number whose square is at most that of the radius is at most the radius.
LEMMA SquaresBound ==
  ASSUME NEW x \in Int, NEW y \in Int, x * x + y * y =< Radius * Radius
  PROVE  x =< Radius /\ -x =< Radius
<1>1. Radius \in Nat
  BY ZoneAssumption
<1>2. y * y >= 0
  OBVIOUS
<1>3. x * x =< Radius * Radius
  BY <1>1, <1>2
<1>4. ASSUME x > Radius PROVE FALSE
  <2>1. x * x > Radius * Radius
    BY <1>1, <1>4
  <2> QED BY <1>1, <1>3, <2>1
<1>5. ASSUME -x > Radius PROVE FALSE
  <2>1. x * x > Radius * Radius
    BY <1>1, <1>5
  <2> QED BY <1>1, <1>3, <2>1
<1> QED
  BY <1>1, <1>4, <1>5

\* BuildVisibleActorIdsForPosition_: the cells it searches from a position hold
\* every position in sight of it, whatever the radius.
LEMMA SightIsNear ==
  ASSUME NEW a \in Point, NEW b \in Point, InSight(a, b)
  PROVE  Near(CellOf(b), CellOf(a)) /\ InSight(b, a)
<1>1. a[1] \in Int /\ a[2] \in Int /\ b[1] \in Int /\ b[2] \in Int
  BY ZoneAssumption
<1> DEFINE dx == a[1] - b[1]
           dy == a[2] - b[2]
<1>2. dx \in Int /\ dy \in Int /\ dx * dx + dy * dy =< Radius * Radius
  BY <1>1 DEF InSight
<1>3. dx =< Radius /\ -dx =< Radius
  <2> HIDE DEF dx, dy
  <2> QED BY <1>2, SquaresBound
<1>4. dy =< Radius /\ -dy =< Radius
  <2>1. dy * dy + dx * dx =< Radius * Radius
    BY <1>2
  <2> HIDE DEF dx, dy
  <2> QED BY <1>2, <2>1, SquaresBound
<1>5. /\ a[1] - b[1] =< Radius /\ b[1] - a[1] =< Radius
      /\ a[2] - b[2] =< Radius /\ b[2] - a[2] =< Radius
  BY <1>1, <1>3, <1>4
<1>6. /\ a[1] \div CellSize =< b[1] \div CellSize + NeighborRange
      /\ b[1] \div CellSize =< a[1] \div CellSize + NeighborRange
      /\ a[2] \div CellSize =< b[2] \div CellSize + NeighborRange
      /\ b[2] \div CellSize =< a[2] \div CellSize + NeighborRange
  BY <1>1, <1>5, CellsWithin
<1>7. /\ a[1] \div CellSize \in Int /\ a[2] \div CellSize \in Int
      /\ b[1] \div CellSize \in Int /\ b[2] \div CellSize \in Int
      /\ NeighborRange \in Int
  BY <1>1, CellPositive, Quotient, RangeSpansRadius
<1>8. Near(CellOf(b), CellOf(a))
  BY <1>6, <1>7 DEF Near, CellOf
<1>9. InSight(b, a)
  <2>1. (b[1] - a[1]) * (b[1] - a[1]) = dx * dx /\ (b[2] - a[2]) * (b[2] - a[2]) = dy * dy
    BY <1>1
  <2> QED BY <1>2, <2>1 DEF InSight
<1> QED
  BY <1>8, <1>9

-----------------------------------------------------------------------------
(* The index and the linear scan *)

\* Every player that stands somewhere is in the index.
Whole(b, i) == \A p \in Player : Placed(b, p) => Entry(b[p].map, b[p].at, p) \in i

\* LinearVisible, of any bindings.
Scan(b, p) == {q \in Player \ {p} : /\ Placed(b, q)
                                    /\ b[q].map = b[p].map
                                    /\ InSight(b[q].at, b[p].at)}

LEMMA SightIsScan ==
  ASSUME NEW b \in [Player -> {None} \cup PlayerBindingState], NEW i, NEW p \in Player,
         Whole(b, i), Placed(b, p)
  PROVE  Sight(b, i, p) = Scan(b, p)
<1>1. ASSUME NEW q \in Player, Placed(b, q) PROVE b[q].at \in Point
  BY <1>1 DEF Placed, Bound, PlayerBindingState
<1>2. ASSUME NEW q \in Scan(b, p)
      PROVE  \E e \in i : e.map = b[p].map /\ e.player = q /\ Near(CellOf(b[p].at), e.cell)
  <2>1. q \in Player /\ Placed(b, q) /\ b[q].map = b[p].map /\ InSight(b[q].at, b[p].at)
    BY <1>2 DEF Scan
  <2>2. Near(CellOf(b[p].at), CellOf(b[q].at))
    BY <1>1, <2>1, SightIsNear
  <2>3. Entry(b[q].map, b[q].at, q) \in i
    BY <2>1 DEF Whole
  <2> QED BY <2>1, <2>2, <2>3 DEF Entry
<1>3. Scan(b, p) \subseteq Visible(b, i, p, b[p].map, b[p].at)
  BY <1>2 DEF Scan, Visible
<1>4. Visible(b, i, p, b[p].map, b[p].at) \subseteq Scan(b, p)
  BY DEF Scan, Visible
<1> QED
  BY <1>3, <1>4 DEF Sight

\* Sight is mutual.
LEMMA ScanMutual ==
  ASSUME NEW b \in [Player -> {None} \cup PlayerBindingState], NEW p \in Player, NEW q \in Player,
         Placed(b, p), Placed(b, q), q \in Scan(b, p)
  PROVE  p \in Scan(b, q)
<1>1. b[p].at \in Point /\ b[q].at \in Point
  BY DEF Placed, Bound, PlayerBindingState
<1>2. b[q].map = b[p].map /\ InSight(b[q].at, b[p].at) /\ q # p
  BY DEF Scan
<1>3. InSight(b[p].at, b[q].at)
  BY <1>1, <1>2, SightIsNear
<1> QED
  BY <1>2, <1>3 DEF Scan

-----------------------------------------------------------------------------
(* What the zone, the World server and the clients agree on *)

\* While nothing strayed.  A player the zone knows is one the World server has,
\* on a line that is up; where it stands is where the World server has it,
\* except that it stands nowhere before its first snapshot; a snapshot that is
\* due was asked for with that position; every player that stands somewhere is
\* in the index; and a client whose snapshot came was told of those in sight.
Bindings(b, w, d, l) ==
    \A p \in Player :
        /\ w[p] # None => l
        /\ Bound(b, p) => /\ w[p] # None
                          /\ d[p] = None \/ d[p].reconnect => b[p].at = w[p].at
                          /\ d[p] # None => d[p].at = w[p].at
                          /\ d[p] # None /\ ~d[p].reconnect => b[p].at = None

Told(b, d, s) == \A p \in Player : Placed(b, p) /\ d[p] = None => s[p] = Scan(b, p)

Steady == strays = 0 => /\ Bindings(binding, world, due, line)
                        /\ Whole(binding, index)
                        /\ Told(binding, due, seen)

\* A move and a snapshot of which nothing is cut.
SeenDiff(s, p, B, A) == SeenMoved(s, p, B, A, A \ B, B \ A)
SeenAll(s, p, A, r) == SeenSnapshot(s, p, A, A, r)

Agrees(b, i, d, s) == Whole(b, i) /\ Told(b, d, s)

ZoneBindings == [Player -> {None} \cup PlayerBindingState]

LEMMA PlacedAt ==
  ASSUME NEW b \in ZoneBindings, NEW p \in Player, Placed(b, p)
  PROVE  b[p] \in PlayerBindingState /\ b[p].map \in Map /\ b[p].at \in Point
  BY DEF Placed, Bound, ZoneBindings, PlayerBindingState

\* What others see changes only by the player that moves, comes or goes.
LEMMA ScanOthers ==
  ASSUME NEW b \in ZoneBindings, NEW c \in ZoneBindings, NEW p \in Player, NEW q \in Player \ {p},
         \A r \in Player \ {p} : c[r] = b[r], Placed(b, q)
  PROVE  /\ \A r \in Player \ {p} : r \in Scan(c, q) <=> r \in Scan(b, q)
         /\ p \in Scan(c, q) <=> Placed(c, p) /\ q \in Scan(c, p)
         /\ p \in Scan(b, q) <=> Placed(b, p) /\ q \in Scan(b, p)
         /\ Scan(c, q) \subseteq Player /\ Scan(b, q) \subseteq Player
<1>0. c[q] = b[q] /\ Placed(c, q)
  BY DEF Placed, Bound
<1>1. \A r \in Player \ {p} : Placed(c, r) <=> Placed(b, r)
  BY DEF Placed, Bound
<1>2. \A r \in Player \ {p} : r \in Scan(c, q) <=> r \in Scan(b, q)
  BY <1>0, <1>1 DEF Scan
<1>3. p \in Scan(c, q) => Placed(c, p)
  BY DEF Scan
<1>4. p \in Scan(b, q) => Placed(b, p)
  BY DEF Scan
<1>5. Placed(c, p) => (p \in Scan(c, q) <=> q \in Scan(c, p))
  BY <1>0, ScanMutual DEF ZoneBindings
<1>6. Placed(b, p) => (p \in Scan(b, q) <=> q \in Scan(b, p))
  BY ScanMutual DEF ZoneBindings
<1>7. Scan(c, q) \subseteq Player /\ Scan(b, q) \subseteq Player
  BY DEF Scan
<1> QED
  BY <1>2, <1>3, <1>4, <1>5, <1>6, <1>7

\* A player that stands nowhere before and after is seen by nobody.
LEMMA AgreesUnplaced ==
  ASSUME NEW b \in ZoneBindings, NEW c \in ZoneBindings, NEW i, NEW d, NEW e, NEW s, NEW t,
         NEW p \in Player,
         \A r \in Player \ {p} : c[r] = b[r] /\ e[r] = d[r] /\ t[r] = s[r],
         ~Placed(b, p), ~Placed(c, p), Agrees(b, i, d, s)
  PROVE  Agrees(c, i, e, t)
<1>1. \A r \in Player \ {p} : Placed(c, r) <=> Placed(b, r)
  BY DEF Placed, Bound
<1>2. Whole(c, i)
  BY <1>1 DEF Agrees, Whole
<1>3. ASSUME NEW q \in Player, Placed(c, q), e[q] = None
      PROVE  t[q] = Scan(c, q)
  <2>1. q # p /\ Placed(b, q) /\ t[q] = s[q] /\ d[q] = None
    BY <1>1, <1>3
  <2>2. s[q] = Scan(b, q)
    BY <2>1 DEF Agrees, Told
  <2>3. /\ \A r \in Player \ {p} : r \in Scan(c, q) <=> r \in Scan(b, q)
        /\ p \notin Scan(c, q) /\ p \notin Scan(b, q)
        /\ Scan(c, q) \subseteq Player /\ Scan(b, q) \subseteq Player
    <3>1. q \in Player \ {p} /\ \A r \in Player \ {p} : c[r] = b[r]
      BY <2>1
    <3> QED BY <2>1, <3>1, ScanOthers
  <2>4. Scan(c, q) = Scan(b, q)
    BY <2>3
  <2> QED BY <2>1, <2>2, <2>4
<1> QED
  BY <1>2, <1>3 DEF Agrees, Told

\* The index keeps the entries of the others.
LEMMA OthersIndexed ==
  ASSUME NEW b \in ZoneBindings, NEW i, NEW j, NEW p \in Player, NEW q \in Player \ {p},
         NEW m, NEW pt, i \ {Entry(m, pt, p)} \subseteq j, Whole(b, i), Placed(b, q)
  PROVE  Entry(b[q].map, b[q].at, q) \in j
<1>1. Entry(b[q].map, b[q].at, q) \in i
  BY DEF Whole
<1>2. Entry(b[q].map, b[q].at, q).player = q /\ Entry(m, pt, p).player = p
  BY DEF Entry
<1>3. Entry(b[q].map, b[q].at, q) # Entry(m, pt, p)
  BY <1>2
<1> QED
  BY <1>1, <1>3

\* OnPlayerLeaveRequest_: its despawns leave the others agreeing.
LEMMA AgreesLeft ==
  ASSUME NEW b \in ZoneBindings, NEW i, NEW d, NEW s, NEW t, NEW p \in Player,
         b[p] # None, Agrees(b, i, d, s),
         \A q \in Player \ {p} : t[q] = IF q \in Sight(b, i, p) THEN s[q] \ {p} ELSE s[q]
  PROVE  Agrees([b EXCEPT ![p] = None], Unindexed(i, p, b[p]), d, t)
<1> DEFINE c == [b EXCEPT ![p] = None]
           j == Unindexed(i, p, b[p])
<1>1. c \in ZoneBindings /\ c[p] = None /\ \A r \in Player \ {p} : c[r] = b[r]
  BY DEF ZoneBindings
<1>2. ~Placed(c, p) /\ \A r \in Player \ {p} : Placed(c, r) <=> Placed(b, r)
  BY <1>1 DEF Placed, Bound
<1>3. i \ {Entry(b[p].map, b[p].at, p)} \subseteq j
  BY DEF Unindexed
<1> HIDE DEF c, j
<1>4. Whole(c, j)
  <2> SUFFICES ASSUME NEW q \in Player, Placed(c, q)
               PROVE  Entry(c[q].map, c[q].at, q) \in j
    BY DEF Whole
  <2>1. q \in Player \ {p} /\ Placed(b, q) /\ c[q] = b[q]
    BY <1>1, <1>2
  <2>2. Whole(b, i)
    BY DEF Agrees
  <2>3. Entry(b[q].map, b[q].at, q) \in j
    BY <1>3, <2>1, <2>2, OthersIndexed
  <2> QED BY <2>1, <2>3
<1>5. ASSUME NEW q \in Player, Placed(c, q), d[q] = None
      PROVE  t[q] = Scan(c, q)
  <2>1. q \in Player \ {p} /\ Placed(b, q)
    BY <1>2, <1>5
  <2>2. s[q] = Scan(b, q)
    BY <1>5, <2>1 DEF Agrees, Told
  <2>3. q \in Sight(b, i, p) <=> Placed(b, p) /\ q \in Scan(b, p)
    <3>1. CASE Placed(b, p)
      BY <3>1, SightIsScan DEF Agrees, ZoneBindings
    <3>2. CASE ~Placed(b, p)
      BY <3>2 DEF Sight
    <3> QED BY <3>1, <3>2
  <2>4. /\ \A r \in Player \ {p} : r \in Scan(c, q) <=> r \in Scan(b, q)
        /\ p \notin Scan(c, q)
        /\ p \in Scan(b, q) <=> q \in Sight(b, i, p)
        /\ Scan(c, q) \subseteq Player /\ Scan(b, q) \subseteq Player
    BY <1>1, <1>2, <2>1, <2>3, ScanOthers
  <2>5. CASE q \in Sight(b, i, p)
    BY <2>1, <2>2, <2>4, <2>5
  <2>6. CASE q \notin Sight(b, i, p)
    BY <2>1, <2>2, <2>4, <2>6
  <2> QED BY <2>5, <2>6
<1>6. Agrees(c, j, d, t)
  BY <1>4, <1>5 DEF Agrees, Told
<1> QED
  BY <1>6 DEF c, j

\* UpdateActorSpatialIndex_ keeps the index whole.
LEMMA WholeReindexed ==
  ASSUME NEW b \in ZoneBindings, NEW i, NEW p \in Player, NEW pt \in Point,
         b[p] # None, Whole(b, i)
  PROVE  LET v == [map |-> b[p].map, at |-> pt]
         IN  /\ [b EXCEPT ![p] = v] \in ZoneBindings
             /\ Placed([b EXCEPT ![p] = v], p)
             /\ Whole([b EXCEPT ![p] = v], Reindexed(i, p, b[p], v))
<1> DEFINE v == [map |-> b[p].map, at |-> pt]
           c == [b EXCEPT ![p] = v]
           j == Reindexed(i, p, b[p], v)
<1>1. b[p].map \in Map /\ b[p].at \in Point \cup {None} /\ pt # None
  BY NoneIsNone DEF ZoneBindings, PlayerBindingState
<1>2. v \in PlayerBindingState /\ v.map = b[p].map /\ v.at = pt
  BY <1>1 DEF PlayerBindingState
<1>3. v # None
  BY <1>2, NoneIsNone
<1>4. c \in ZoneBindings /\ c[p] = v /\ \A r \in Player \ {p} : c[r] = b[r]
  BY <1>2 DEF ZoneBindings
<1>5. Placed(c, p)
  BY <1>1, <1>2, <1>3, <1>4 DEF Placed, Bound
<1>6. /\ i \ {Entry(b[p].map, b[p].at, p)} \subseteq j
      /\ Entry(b[p].map, pt, p) \in j
  <2>1. CASE b[p].at = None
    BY <1>2, <2>1 DEF Reindexed
  <2>2. CASE b[p].at # None /\ CellOf(b[p].at) = CellOf(pt)
    <3>1. j = i
      BY <1>2, <2>2 DEF Reindexed
    <3>2. Entry(b[p].map, pt, p) = Entry(b[p].map, b[p].at, p)
      BY <2>2 DEF Entry
    <3>3. Entry(b[p].map, b[p].at, p) \in i
      BY <2>2 DEF Whole, Placed, Bound
    <3> QED BY <3>1, <3>2, <3>3
  <2>3. CASE b[p].at # None /\ CellOf(b[p].at) # CellOf(pt)
    BY <1>2, <2>3 DEF Reindexed
  <2> QED BY <2>1, <2>2, <2>3
<1>7. Whole(c, j)
  <2> HIDE DEF c, j, v
  <2> SUFFICES ASSUME NEW q \in Player, Placed(c, q)
               PROVE  Entry(c[q].map, c[q].at, q) \in j
    BY DEF Whole
  <2>1. CASE q = p
    BY <1>2, <1>4, <1>6, <2>1
  <2>2. CASE q # p
    <3>1. q \in Player \ {p} /\ c[q] = b[q] /\ Placed(b, q)
      BY <1>4, <2>2 DEF Placed, Bound
    <3>2. Entry(b[q].map, b[q].at, q) \in j
      BY <1>6, <3>1, OthersIndexed
    <3> QED BY <3>1, <3>2
  <2> QED BY <2>1, <2>2
<1> QED
  BY <1>4, <1>5, <1>7

\* OnPlayerMoveInternalRequest_: its spawns and despawns, to both sides, are
\* the difference of what is in sight before and after.
LEMMA AgreesMoved ==
  ASSUME NEW b \in ZoneBindings, NEW i, NEW d, NEW s, NEW t, NEW p \in Player,
         NEW c \in ZoneBindings, NEW j,
         \A r \in Player \ {p} : c[r] = b[r], Placed(c, p), Whole(c, j),
         Placed(b, p), d[p] = None, Agrees(b, i, d, s),
         \A q \in Player : t[q] = SeenDiff(s, p, Sight(b, i, p), Sight(c, j, p))[q]
  PROVE  Agrees(c, j, d, t)
<1>1. Whole(b, i)
  BY DEF Agrees
<1> DEFINE B == Scan(b, p)
           A == Scan(c, p)
<1>2. Sight(b, i, p) = B /\ Sight(c, j, p) = A
  BY <1>1, SightIsScan DEF ZoneBindings
<1>3. t[p] = A
  <2>1. t[p] = (s[p] \ (B \ A)) \cup (A \ B)
    BY <1>2 DEF SeenDiff, SeenMoved
  <2>2. s[p] = B
    BY DEF Agrees, Told
  <2> HIDE DEF A, B
  <2> QED BY <2>1, <2>2
<1>4. ASSUME NEW q \in Player \ {p}, Placed(c, q), d[q] = None
      PROVE  t[q] = Scan(c, q)
  <2>1. Placed(b, q)
    BY <1>4 DEF Placed, Bound
  <2>2. s[q] = Scan(b, q)
    BY <1>4, <2>1 DEF Agrees, Told
  <2>3. /\ \A r \in Player \ {p} : r \in Scan(c, q) <=> r \in Scan(b, q)
        /\ p \in Scan(c, q) <=> q \in A
        /\ p \in Scan(b, q) <=> q \in B
        /\ Scan(c, q) \subseteq Player /\ Scan(b, q) \subseteq Player
    BY <2>1, ScanOthers
  <2>4. t[q] = CASE q = p -> (s[q] \ (B \ A)) \cup (A \ B)
                 [] q # p /\ q \in A \ B -> s[q] \cup {p}
                 [] q # p /\ q \in B \ A -> s[q] \ {p}
                 [] OTHER -> s[q]
    BY <1>2 DEF SeenDiff, SeenMoved
  <2> HIDE DEF A, B
  <2>5. CASE q \in A \ B
    <3>1. t[q] = Scan(b, q) \cup {p}
      BY <1>4, <2>2, <2>4, <2>5
    <3> QED BY <2>3, <2>5, <3>1
  <2>6. CASE q \in B \ A
    <3>1. t[q] = Scan(b, q) \ {p}
      BY <1>4, <2>2, <2>4, <2>6
    <3> QED BY <2>3, <2>6, <3>1
  <2>7. CASE q \notin A \ B /\ q \notin B \ A
    <3>1. t[q] = Scan(b, q)
      BY <1>4, <2>2, <2>4, <2>7
    <3>2. p \in Scan(c, q) <=> p \in Scan(b, q)
      BY <2>3, <2>7
    <3> QED BY <2>3, <3>1, <3>2
  <2> QED BY <2>5, <2>6, <2>7
<1> QED
  BY <1>3, <1>4 DEF Agrees, Told

\* TrySendInitialAoiSnapshot_: a first snapshot is told to those in sight too;
\* that of a reconnect need not be, because the player stands where it stood.
LEMMA AgreesSnapshot ==
  ASSUME NEW b \in ZoneBindings, NEW i, NEW d, NEW e, NEW s, NEW t, NEW p \in Player,
         NEW c \in ZoneBindings, NEW j, NEW reconnect \in BOOLEAN,
         \A r \in Player \ {p} : c[r] = b[r], Placed(c, p), Whole(c, j),
         reconnect => c[p] = b[p], ~reconnect => ~Placed(b, p), Agrees(b, i, d, s),
         \A q \in Player \ {p} : e[q] = d[q],
         \A q \in Player : t[q] = SeenAll(s, p, Sight(c, j, p), reconnect)[q]
  PROVE  Agrees(c, j, e, t)
<1> DEFINE A == Scan(c, p)
<1>2. Sight(c, j, p) = A
  BY SightIsScan DEF ZoneBindings
<1>3. t[p] = A
  BY <1>2 DEF SeenAll, SeenSnapshot
<1>4. ASSUME NEW q \in Player \ {p}, Placed(c, q), e[q] = None
      PROVE  t[q] = Scan(c, q)
  <2>1. Placed(b, q) /\ d[q] = None
    BY <1>4 DEF Placed, Bound
  <2>2. s[q] = Scan(b, q)
    BY <1>4, <2>1 DEF Agrees, Told
  <2>3. /\ \A r \in Player \ {p} : r \in Scan(c, q) <=> r \in Scan(b, q)
        /\ p \in Scan(c, q) <=> q \in A
        /\ p \in Scan(b, q) <=> Placed(b, p) /\ q \in Scan(b, p)
        /\ Scan(c, q) \subseteq Player /\ Scan(b, q) \subseteq Player
    BY <2>1, ScanOthers
  <2>4. t[q] = CASE q = p -> A
                 [] q # p /\ q \in A /\ ~reconnect -> s[q] \cup {p}
                 [] OTHER -> s[q]
    BY <1>2 DEF SeenAll, SeenSnapshot
  <2>5. CASE reconnect
    <3>1. c = b
      BY <2>5 DEF ZoneBindings
    <3>2. t[q] = s[q]
      BY <1>4, <2>4, <2>5
    <3> QED BY <2>2, <3>1, <3>2
  <2>6. CASE ~reconnect
    <3>1. ~Placed(b, p)
      BY <2>6
    <3> HIDE DEF A
    <3>2. CASE q \in A
      <4>1. t[q] = Scan(b, q) \cup {p}
        BY <1>4, <2>2, <2>4, <2>6, <3>2
      <4> QED BY <2>3, <3>2, <4>1
    <3>3. CASE q \notin A
      <4>1. t[q] = Scan(b, q)
        BY <1>4, <2>2, <2>4, <2>6, <3>3
      <4>2. p \notin Scan(c, q) /\ p \notin Scan(b, q)
        BY <2>3, <3>1, <3>3
      <4> QED BY <2>3, <4>1, <4>2
    <3> QED BY <3>2, <3>3
  <2> QED BY <2>5, <2>6
<1> QED
  BY <1>3, <1>4 DEF Agrees, Told

-----------------------------------------------------------------------------
(* The steps of the agreement *)

LEMMA NoStray == ASSUME strays \in 0 .. MaxStrays, Stray PROVE strays' # 0
  BY MaxIsNat DEF Stray

\* While nothing strays all that was to be told was told.
LEMMA ToldAll ==
  ASSUME strays \in 0 .. MaxStrays, NEW s, NEW t, NEW o, Tell(s, t, o), strays' = 0
  PROVE  /\ strays = 0 /\ ~o
         /\ \A q \in Player : seen'[q] = t[q]
<1>1. PICK D \in SUBSET {q \in Player : t[q] # s[q]} :
        /\ seen' = [q \in Player |-> IF q \in D THEN s[q] ELSE t[q]]
        /\ IF o \/ D # {} THEN Stray ELSE UNCHANGED strays
  BY DEF Tell
<1>2. ~(o \/ D # {})
  BY <1>1, NoStray
<1> QED
  BY <1>1, <1>2

LEMMA InvParts ==
  ASSUME Inv
  PROVE  /\ binding \in ZoneBindings
         /\ binding = Zone.binding /\ index = Zone.index /\ instance = Zone.instance
         /\ strays \in 0 .. MaxStrays /\ line \in BOOLEAN
         /\ world \in [Player -> {None} \cup [map : Map, at : Point]]
         /\ due \in [Player -> {None} \cup [at : Point, reconnect : BOOLEAN]]
         /\ seen \in [Player -> SUBSET Player]
  BY InstanceParts DEF Inv, Around, Zone, ZoneBindings

LEMMA SteadyParts ==
  ASSUME Steady, strays = 0
  PROVE  /\ Agrees(binding, index, due, seen)
         /\ Bindings(binding, world, due, line)
  BY DEF Steady, Agrees

LEMMA SteadyWhole ==
  ASSUME strays' = 0 => /\ Agrees(binding', index', due', seen')
                        /\ Bindings(binding', world', due', line')
  PROVE  Steady'
  BY DEF Steady, Agrees, Bindings, Whole, Told, Scan, Placed, Bound, Entry, CellOf, InSight

LEMMA SteadyInit == Init => Steady
<1> SUFFICES ASSUME Init PROVE Steady
  OBVIOUS
<1>1. \A p \in Player : binding[p] = None /\ world[p] = None
  BY DEF Init
<1> QED
  BY <1>1 DEF Steady, Bindings, Whole, Told, Placed, Bound

\* Steps that concern no player.
LEMMA SteadyElsewhere ==
  ASSUME Inv, Steady, UNCHANGED <<binding, index, world, due, seen, strays>>, line => line'
  PROVE  Steady'
<1>1. strays = 0 => Bindings(binding, world, due, line')
  BY SteadyParts DEF Bindings
<1> QED
  BY <1>1, SteadyParts, SteadyWhole

\* A player the zone does not know has no position there.
LEMMA Unknown == ASSUME NEW b, NEW p, b[p] = None PROVE ~Placed(b, p) /\ ~Bound(b, p)
  BY DEF Placed, Bound

\* What Entered makes of a player the zone does not know.
LEMMA EnteredNew ==
  ASSUME NEW z, NEW p \in Player, NEW m \in Map, z.binding \in ZoneBindings, z.binding[p] = None,
         z = [instance |-> z.instance, binding |-> z.binding, index |-> z.index]
  PROVE  /\ Entered(z, p, m).index = z.index
         /\ Entered(z, p, m).binding \in ZoneBindings
         /\ \A r \in Player \ {p} : Entered(z, p, m).binding[r] = z.binding[r]
         /\ ~Placed(Entered(z, p, m).binding, p)
         /\ Bound(Entered(z, p, m).binding, p) => /\ z.instance[m] # None
                                                  /\ Entered(z, p, m).binding[p].at = None
<1>1. CASE z.instance[m] = None
  <2>1. Entered(z, p, m) = z
    BY <1>1 DEF Entered
  <2> QED BY <2>1, Unknown
<1>2. CASE z.instance[m] # None
  <2> DEFINE v == [map |-> m, at |-> None]
  <2>1. Entered(z, p, m) = [z EXCEPT !.instance = Incremented(@, m),
                                     !.binding  = [@ EXCEPT ![p] = v]]
    BY <1>2 DEF Entered
  <2>2. Entered(z, p, m).index = z.index /\ Entered(z, p, m).binding = [z.binding EXCEPT ![p] = v]
    BY <2>1
  <2>3. v \in PlayerBindingState
    BY DEF PlayerBindingState
  <2>4. [z.binding EXCEPT ![p] = v] \in ZoneBindings
    BY <2>3 DEF ZoneBindings
  <2>5. [z.binding EXCEPT ![p] = v][p] = v /\ \A r \in Player \ {p} : [z.binding EXCEPT ![p] = v][r] = z.binding[r]
    BY DEF ZoneBindings
  <2> QED BY <1>2, <2>2, <2>4, <2>5 DEF Placed, Bound
<1> QED
  BY <1>1, <1>2

LEMMA DueIsSome ==
  ASSUME NEW m \in Map, NEW pt \in Point, NEW r \in BOOLEAN
  PROVE  [map |-> m, at |-> pt] # None /\ [at |-> pt, reconnect |-> r] # None
<1>1. [map |-> m, at |-> pt] \in PlayerBindingState /\ [at |-> pt, reconnect |-> r] \in [at : Point, reconnect : BOOLEAN]
  BY DEF PlayerBindingState
<1> QED
  BY <1>1, NoneIsNone

LEMMA SteadyEnter ==
  ASSUME Inv, Steady, NEW p \in Player, NEW m \in Map, NEW pt \in Point, Enter(p, m, pt)
  PROVE  Steady'
<1> SUFFICES ASSUME strays' = 0
             PROVE  /\ Agrees(binding', index', due', seen')
                    /\ Bindings(binding', world', due', line')
  BY SteadyWhole
<1>1. strays = 0 /\ line' = line /\ line /\ world[p] = None /\ due[p] = None
  BY DEF Enter
<1>2. Agrees(binding, index, due, seen) /\ Bindings(binding, world, due, line)
  BY <1>1, SteadyParts
<1>3. binding[p] = None
  BY <1>1, <1>2 DEF Bindings, Bound
<1>4. /\ index' = index /\ binding' \in ZoneBindings
      /\ \A r \in Player \ {p} : binding'[r] = binding[r]
      /\ ~Placed(binding', p)
      /\ Bound(binding', p) => instance[m] # None /\ binding'[p].at = None
  <2>1. binding' = Entered(Zone, p, m).binding /\ index' = Entered(Zone, p, m).index
    BY DEF Enter, Becomes
  <2>2. Zone.binding \in ZoneBindings /\ Zone.binding[p] = None
        /\ Zone = [instance |-> Zone.instance, binding |-> Zone.binding, index |-> Zone.index]
    BY <1>3, InvParts DEF Zone
  <2> QED BY <2>1, <2>2, EnteredNew, InvParts
<1>5. /\ \A r \in Player \ {p} : due'[r] = due[r] /\ seen'[r] = seen[r] /\ world'[r] = world[r]
      /\ instance[m] # None => /\ world'[p] = [map |-> m, at |-> pt]
                               /\ due'[p] = [at |-> pt, reconnect |-> FALSE]
  BY InvParts DEF Enter
<1>6. Agrees(binding', index', due', seen')
  <2>1. ~Placed(binding, p) /\ binding \in ZoneBindings
    BY <1>3, Unknown, InvParts
  <2>2. Agrees(binding', index, due', seen')
    BY <1>2, <1>4, <1>5, <2>1, AgreesUnplaced
  <2> QED BY <1>4, <2>2
<1>7. Bindings(binding', world', due', line')
  <2>1. [map |-> m, at |-> pt] # None /\ [at |-> pt, reconnect |-> FALSE] # None
    BY DueIsSome
  <2> QED BY <1>1, <1>2, <1>4, <1>5, <2>1 DEF Bindings, Bound
<1> QED
  BY <1>6, <1>7

\* What Left makes of the zone, and what is told.
LEMMA LeftAgrees ==
  ASSUME Inv, NEW p \in Player, NEW t, Agrees(binding, index, due, seen),
         \A q \in Player : t[q] = SeenLess(seen, p, Sight(binding, index, p))[q]
  PROVE  /\ Left(Zone, p).binding \in ZoneBindings
         /\ Left(Zone, p).binding[p] = None
         /\ \A r \in Player \ {p} : Left(Zone, p).binding[r] = binding[r]
         /\ Agrees(Left(Zone, p).binding, Left(Zone, p).index, due, t)
<1>0. binding \in ZoneBindings /\ binding = Zone.binding /\ index = Zone.index
  BY InvParts
<1>1. \A q \in Player \ {p} : t[q] = IF q \in Sight(binding, index, p) THEN seen[q] \ {p} ELSE seen[q]
  BY DEF SeenLess
<1>2. CASE binding[p] = None
  <2>1. Left(Zone, p) = Zone
    BY <1>0, <1>2 DEF Left
  <2>2. ~Placed(binding, p) /\ Sight(binding, index, p) = {}
    BY <1>2, Unknown DEF Sight
  <2>3. \A q \in Player \ {p} : t[q] = seen[q]
    BY <1>1, <2>2
  <2>4. Agrees(binding, index, due, t)
    BY <1>0, <2>2, <2>3, AgreesUnplaced
  <2> QED BY <1>0, <1>2, <2>1, <2>4
<1>3. CASE binding[p] # None
  <2>1. /\ Left(Zone, p).binding = [binding EXCEPT ![p] = None]
        /\ Left(Zone, p).index = Unindexed(index, p, binding[p])
    BY <1>0, <1>3 DEF Left
  <2>2. Agrees([binding EXCEPT ![p] = None], Unindexed(index, p, binding[p]), due, t)
    <3>1. binding \in ZoneBindings
      BY <1>0
    <3> QED BY <1>1, <1>3, <3>1, AgreesLeft, Zenon
  <2>3. /\ [binding EXCEPT ![p] = None] \in ZoneBindings
        /\ [binding EXCEPT ![p] = None][p] = None
        /\ \A r \in Player \ {p} : [binding EXCEPT ![p] = None][r] = binding[r]
    BY <1>0 DEF ZoneBindings
  <2> QED BY <2>1, <2>2, <2>3
<1> QED
  BY <1>2, <1>3

LEMMA SteadyLeave == ASSUME Inv, Steady, NEW p \in Player, Leave(p) PROVE Steady'
<1> SUFFICES ASSUME strays' = 0
             PROVE  /\ Agrees(binding', index', due', seen')
                    /\ Bindings(binding', world', due', line')
  BY SteadyWhole
<1>1. /\ strays = 0
      /\ \A q \in Player : seen'[q] = SeenLess(seen, p, IF line THEN Sight(binding, index, p) ELSE {})[q]
  <2>1. Tell([seen EXCEPT ![p] = {}],
             SeenLess(seen, p, IF line THEN Sight(binding, index, p) ELSE {}), FALSE)
    BY DEF Leave
  <2> QED BY <2>1, InvParts, ToldAll
<1>2. Agrees(binding, index, due, seen) /\ Bindings(binding, world, due, line)
  BY <1>1, SteadyParts
<1>3. line
  BY <1>2 DEF Bindings, Leave
<1>4. /\ binding' = Left(Zone, p).binding /\ index' = Left(Zone, p).index
      /\ due' = due /\ line' = line /\ \A r \in Player \ {p} : world'[r] = world[r]
  BY <1>3, InvParts DEF Leave, Becomes
<1>5. /\ binding'[p] = None /\ \A r \in Player \ {p} : binding'[r] = binding[r]
      /\ Agrees(binding', index', due', seen')
  BY <1>1, <1>2, <1>3, <1>4, LeftAgrees
<1>6. Bindings(binding', world', due', line')
  BY <1>2, <1>3, <1>4, <1>5 DEF Bindings, Bound
<1> QED
  BY <1>5, <1>6

LEMMA SteadyTransfer ==
  ASSUME Inv, Steady, NEW p \in Player, NEW m \in Map, NEW pt \in Point, Transfer(p, m, pt)
  PROVE  Steady'
<1> DEFINE z == Left(Zone, p)
<1> SUFFICES ASSUME strays' = 0
             PROVE  /\ Agrees(binding', index', due', seen')
                    /\ Bindings(binding', world', due', line')
  BY SteadyWhole
<1>1. /\ strays = 0
      /\ \A q \in Player : seen'[q] = SeenLess(seen, p, Sight(binding, index, p))[q]
  <2>1. Tell([seen EXCEPT ![p] = {}], SeenLess(seen, p, Sight(binding, index, p)), FALSE)
    BY DEF Transfer
  <2> QED BY <2>1, InvParts, ToldAll
<1>2. Agrees(binding, index, due, seen) /\ Bindings(binding, world, due, line)
  BY <1>1, SteadyParts
<1>3. /\ z.binding \in ZoneBindings /\ z.binding[p] = None
      /\ \A r \in Player \ {p} : z.binding[r] = binding[r]
      /\ Agrees(z.binding, z.index, due, seen')
  BY <1>1, <1>2, LeftAgrees
<1>4. z = [instance |-> z.instance, binding |-> z.binding, index |-> z.index]
  <2>1. ZInv(z)
    BY ZLeft DEF Inv
  <2> HIDE DEF z
  <2> QED BY <2>1, ZParts
<1> DEFINE y == IF instance' = Entered(z, p, m).instance /\ binding' = Entered(z, p, m).binding
                    /\ index' = Entered(z, p, m).index THEN z ELSE Without(z, m)
<1>5. /\ binding' = Entered(y, p, m).binding /\ index' = Entered(y, p, m).index
      /\ y = z \/ (y = Without(z, m) /\ Empty(z.instance, m))
  BY DEF Transfer, Becomes
<1>6. /\ line' = line /\ line
      /\ \A r \in Player \ {p} : due'[r] = due[r] /\ world'[r] = world[r]
      /\ world'[p] = [map |-> m, at |-> pt]
      /\ due'[p] = [at |-> pt, reconnect |-> FALSE]
  BY InvParts DEF Transfer
<1> HIDE DEF z, y
<1>40. /\ y = [instance |-> y.instance, binding |-> y.binding, index |-> y.index]
       /\ y.binding = z.binding /\ y.index = z.index
  <2> DEFINE w == [z.instance EXCEPT ![m] = None]
  <2>1. Without(z, m) = [instance |-> w, binding |-> z.binding, index |-> z.index]
    BY <1>4 DEF Without
  <2> HIDE DEF w
  <2> QED BY <1>4, <1>5, <2>1
<1>7. /\ index' = z.index /\ binding' \in ZoneBindings
      /\ \A r \in Player \ {p} : binding'[r] = binding[r]
      /\ ~Placed(binding', p)
      /\ Bound(binding', p) => binding'[p].at = None
  <2>1. /\ Entered(y, p, m).index = y.index
        /\ Entered(y, p, m).binding \in ZoneBindings
        /\ \A r \in Player \ {p} : Entered(y, p, m).binding[r] = y.binding[r]
        /\ ~Placed(Entered(y, p, m).binding, p)
        /\ Bound(Entered(y, p, m).binding, p) => Entered(y, p, m).binding[p].at = None
    BY <1>3, <1>40, EnteredNew
  <2> QED BY <1>3, <1>5, <1>40, <2>1
<1>8. Agrees(binding', index', due', seen')
  <2>1. ~Placed(z.binding, p) /\ \A r \in Player \ {p} : binding'[r] = z.binding[r]
    BY <1>3, <1>7, Unknown
  <2>2. Agrees(binding', z.index, due', seen')
    BY <1>3, <1>6, <1>7, <2>1, AgreesUnplaced
  <2> QED BY <1>7, <2>2
<1>9. Bindings(binding', world', due', line')
  <2>1. [map |-> m, at |-> pt] # None /\ [at |-> pt, reconnect |-> FALSE] # None
    BY DueIsSome
  <2> QED BY <1>2, <1>6, <1>7, <2>1 DEF Bindings, Bound
<1> QED
  BY <1>8, <1>9

LEMMA SteadyReconnect == ASSUME Inv, Steady, NEW p \in Player, Reconnect(p) PROVE Steady'
<1> SUFFICES ASSUME strays' = 0
             PROVE  /\ Agrees(binding', index', due', seen')
                    /\ Bindings(binding', world', due', line')
  BY SteadyWhole
<1>1. /\ strays = 0 /\ UNCHANGED <<binding, index, world, line>>
      /\ world[p] # None /\ due[p] = None
      /\ due' = [due EXCEPT ![p] = [at |-> world[p].at, reconnect |-> TRUE]]
      /\ seen' = [seen EXCEPT ![p] = {}]
  BY DEF Reconnect, zone
<1>2. Agrees(binding, index, due, seen) /\ Bindings(binding, world, due, line)
  BY <1>1, SteadyParts
<1>3. /\ \A r \in Player \ {p} : due'[r] = due[r] /\ seen'[r] = seen[r]
      /\ due'[p] = [at |-> world[p].at, reconnect |-> TRUE]
  BY <1>1, InvParts
<1>4. due'[p] # None
  <2>1. world[p].at \in Point /\ world[p].map \in Map
    BY <1>1, InvParts
  <2> QED BY <1>3, <2>1, DueIsSome
<1>5. Agrees(binding, index, due', seen')
  BY <1>2, <1>3, <1>4 DEF Agrees, Told
<1>6. Bindings(binding, world, due', line)
  BY <1>1, <1>2, <1>3, <1>4 DEF Bindings
<1> QED
  BY <1>1, <1>5, <1>6

\* What Moved makes of a player the zone knows.
LEMMA MovedParts ==
  ASSUME Inv, NEW p \in Player, NEW pt \in Point, Whole(binding, index), binding[p] # None
  PROVE  LET c == Moved(Zone, p, pt).binding
         IN  /\ c \in ZoneBindings
             /\ c[p] = [map |-> binding[p].map, at |-> pt]
             /\ \A r \in Player \ {p} : c[r] = binding[r]
             /\ Placed(c, p)
             /\ Whole(c, Moved(Zone, p, pt).index)
<1> DEFINE v == [map |-> binding[p].map, at |-> pt]
<1>1. binding \in ZoneBindings /\ binding = Zone.binding /\ index = Zone.index
  BY InvParts
<1>2. /\ Moved(Zone, p, pt).binding = [binding EXCEPT ![p] = v]
      /\ Moved(Zone, p, pt).index = Reindexed(index, p, binding[p], v)
  BY <1>1 DEF Moved
<1>3. /\ [binding EXCEPT ![p] = v] \in ZoneBindings
      /\ Placed([binding EXCEPT ![p] = v], p)
      /\ Whole([binding EXCEPT ![p] = v], Reindexed(index, p, binding[p], v))
  BY <1>1, WholeReindexed
<1>4. [binding EXCEPT ![p] = v][p] = v /\ \A r \in Player \ {p} : [binding EXCEPT ![p] = v][r] = binding[r]
  BY <1>1 DEF ZoneBindings
<1> QED
  BY <1>2, <1>3, <1>4

LEMMA SteadyMove ==
  ASSUME Inv, Steady, NEW p \in Player, NEW pt \in Point, Move(p, pt)
  PROVE  Steady'
<1> DEFINE z == IF line THEN Moved(Zone, p, pt) ELSE Zone
           B == Sight(binding, index, p)
           A == Sight(z.binding, z.index, p)
           t == IF line /\ Bound(binding, p) THEN SeenDiff(seen, p, B, A) ELSE seen
<1> SUFFICES ASSUME strays' = 0
             PROVE  /\ Agrees(binding', index', due', seen')
                    /\ Bindings(binding', world', due', line')
  BY SteadyWhole
<1>1. strays = 0 /\ due[p] = None /\ \A q \in Player : seen'[q] = t[q]
  <2>0. strays \in 0 .. MaxStrays
    BY InvParts
  <2>1. IF line /\ Bound(binding, p)
          THEN \E S \in Arrives(A \ B), D \in Arrives(B \ A) :
                 Tell(seen, SeenMoved(seen, p, B, A, S, D), due[p] # None \/ S # A \ B \/ D # B \ A)
          ELSE Tell(seen, seen, due[p] # None)
    BY DEF Move
  <2> HIDE DEF A, B
  <2>2. CASE line /\ Bound(binding, p)
    <3>1. PICK S \in Arrives(A \ B), D \in Arrives(B \ A) :
             Tell(seen, SeenMoved(seen, p, B, A, S, D), due[p] # None \/ S # A \ B \/ D # B \ A)
      BY <2>1, <2>2
    <3>2. /\ strays = 0 /\ ~(due[p] # None \/ S # A \ B \/ D # B \ A)
          /\ \A q \in Player : seen'[q] = SeenMoved(seen, p, B, A, S, D)[q]
      BY <2>0, <3>1, ToldAll
    <3> QED BY <2>2, <3>2 DEF SeenDiff
  <2>3. CASE ~(line /\ Bound(binding, p))
    <3>1. Tell(seen, seen, due[p] # None)
      BY <2>1, <2>3
    <3>2. strays = 0 /\ ~(due[p] # None) /\ \A q \in Player : seen'[q] = seen[q]
      BY <2>0, <3>1, ToldAll
    <3> QED BY <2>3, <3>2
  <2> QED BY <2>2, <2>3
<1>2. Agrees(binding, index, due, seen) /\ Bindings(binding, world, due, line)
  BY <1>1, SteadyParts
<1>3. /\ world[p] # None /\ line /\ line' = line /\ due' = due
      /\ \A r \in Player \ {p} : world'[r] = world[r]
      /\ world'[p].at = pt /\ world'[p] # None
  <2>1. world[p] # None /\ world' = [world EXCEPT ![p] = [world[p] EXCEPT !.at = pt]]
        /\ line' = line /\ due' = due
    BY DEF Move
  <2>2. world[p] \in [map : Map, at : Point]
    BY <2>1, InvParts
  <2>3. [world[p] EXCEPT !.at = pt] = [map |-> world[p].map, at |-> pt]
    BY <2>2
  <2>4. world'[p] = [map |-> world[p].map, at |-> pt] /\ \A r \in Player \ {p} : world'[r] = world[r]
    BY <2>1, <2>3, InvParts
  <2>5. world'[p] # None
    BY <2>2, <2>4, DueIsSome
  <2>6. line
    BY <1>2, <2>1 DEF Bindings
  <2> QED BY <2>1, <2>4, <2>5, <2>6
<1>4. binding' = Moved(Zone, p, pt).binding /\ index' = Moved(Zone, p, pt).index
  BY <1>3 DEF Move, Becomes
<1>5. CASE binding[p] = None
  <2>1. binding' = binding /\ index' = index
    BY <1>4, <1>5, InvParts DEF Moved
  <2>2. \A q \in Player : seen'[q] = seen[q]
    BY <1>1, <1>5 DEF Bound
  <2>3. Agrees(binding', index', due', seen')
    BY <1>2, <1>3, <2>1, <2>2 DEF Agrees, Told
  <2>4. Bindings(binding', world', due', line')
    BY <1>2, <1>3, <1>5, <2>1 DEF Bindings, Bound
  <2> QED BY <2>3, <2>4
<1>6. CASE binding[p] # None
  <2>1. /\ binding' \in ZoneBindings /\ Placed(binding', p) /\ Whole(binding', index')
        /\ binding'[p] = [map |-> binding[p].map, at |-> pt]
        /\ \A r \in Player \ {p} : binding'[r] = binding[r]
    BY <1>2, <1>4, <1>6, MovedParts DEF Agrees
  <2>2. Placed(binding, p)
    <3>1. binding[p].at = world[p].at
      BY <1>1, <1>2, <1>6 DEF Bindings, Bound
    <3>2. world[p].at \in Point
      BY <1>3, InvParts
    <3> QED BY <1>6, <3>1, <3>2, NoneIsNone DEF Placed, Bound
  <2>3. \A q \in Player : seen'[q] = SeenDiff(seen, p, Sight(binding, index, p), Sight(binding', index', p))[q]
    BY <1>1, <1>3, <1>4, <1>6 DEF Bound
  <2>4. Agrees(binding', index', due, seen')
    <3>1. binding \in ZoneBindings
      BY InvParts
    <3>2. due[p] = None /\ Agrees(binding, index, due, seen)
      BY <1>1, <1>2
    <3> HIDE DEF z, t, A, B
    <3> QED BY <2>1, <2>2, <2>3, <3>1, <3>2, AgreesMoved, SMTT(30)
  <2>5. Bindings(binding', world', due', line')
    BY <1>1, <1>2, <1>3, <1>6, <2>1 DEF Bindings, Bound
  <2> QED BY <1>3, <2>4, <2>5
<1> QED
  BY <1>5, <1>6

LEMMA SteadySnapshot == ASSUME Inv, Steady, NEW p \in Player, Snapshot(p) PROVE Steady'
<1> DEFINE z == IF line /\ due[p] # None THEN Moved(Zone, p, due[p].at) ELSE Zone
           sight == Sight(z.binding, z.index, p)
<1> SUFFICES ASSUME strays' = 0
             PROVE  /\ Agrees(binding', index', due', seen')
                    /\ Bindings(binding', world', due', line')
  BY SteadyWhole
<1>1. /\ due[p] # None /\ due[p].at \in Point /\ due[p].reconnect \in BOOLEAN
      /\ line' = line /\ world' = world
      /\ due'[p] = None /\ \A r \in Player \ {p} : due'[r] = due[r]
      /\ binding' = z.binding /\ index' = z.index
  BY InvParts DEF Snapshot, Becomes
<1>2. /\ strays = 0
      /\ line /\ Bound(binding, p)
           => \A q \in Player : seen'[q] = SeenAll(seen, p, sight, due[p].reconnect)[q]
      /\ ~(line /\ Bound(binding, p)) => seen' = seen
  <2>1. CASE line /\ Bound(binding, p)
    <3>1. \E S \in Arrives(sight) :
             Tell([seen EXCEPT ![p] = S], SeenSnapshot(seen, p, S, sight, due[p].reconnect), S # sight)
      BY <2>1 DEF Snapshot
    <3> HIDE DEF sight
    <3>2. PICK S \in Arrives(sight) :
             Tell([seen EXCEPT ![p] = S], SeenSnapshot(seen, p, S, sight, due[p].reconnect), S # sight)
      BY <3>1
    <3>3. /\ strays = 0 /\ ~(S # sight)
          /\ \A q \in Player : seen'[q] = SeenSnapshot(seen, p, S, sight, due[p].reconnect)[q]
      <4>1. strays \in 0 .. MaxStrays
        BY InvParts
      <4> QED BY <3>2, <4>1, ToldAll
    <3> QED BY <2>1, <3>3 DEF SeenAll
  <2>2. CASE ~(line /\ Bound(binding, p))
    BY <2>2 DEF Snapshot
  <2> QED BY <2>1, <2>2
<1>3. Agrees(binding, index, due, seen) /\ Bindings(binding, world, due, line)
  BY <1>2, SteadyParts
<1>4. CASE binding[p] = None
  <2>1. binding' = binding /\ index' = index
    BY <1>1, <1>4, InvParts DEF Moved
  <2>2. seen' = seen
    BY <1>2, <1>4 DEF Bound
  <2>3. Agrees(binding, index, due', seen)
    <3>1. binding \in ZoneBindings /\ ~Placed(binding, p)
      BY <1>4, InvParts, Unknown
    <3> QED BY <1>1, <1>3, <3>1, AgreesUnplaced
  <2>4. Bindings(binding, world, due', line)
    BY <1>1, <1>3, <1>4 DEF Bindings, Bound
  <2> QED BY <1>1, <2>1, <2>2, <2>3, <2>4
<1>5. CASE binding[p] # None
  <2>1. line /\ Bound(binding, p)
    BY <1>3, <1>5 DEF Bindings, Bound
  <2>2. binding' = Moved(Zone, p, due[p].at).binding /\ index' = Moved(Zone, p, due[p].at).index
    BY <1>1, <2>1
  <2>3. /\ binding' \in ZoneBindings /\ Placed(binding', p) /\ Whole(binding', index')
        /\ binding'[p] = [map |-> binding[p].map, at |-> due[p].at]
        /\ \A r \in Player \ {p} : binding'[r] = binding[r]
    BY <1>1, <1>3, <1>5, <2>2, MovedParts DEF Agrees
  <2>4. \A q \in Player : seen'[q] = SeenAll(seen, p, Sight(binding', index', p), due[p].reconnect)[q]
    BY <1>1, <1>2, <2>1
  <2>5. /\ world[p] # None
        /\ due[p].at = world[p].at
        /\ due[p].reconnect => binding[p].at = world[p].at
        /\ ~due[p].reconnect => binding[p].at = None
    BY <1>1, <1>3, <2>1 DEF Bindings
  <2>6. /\ due[p].reconnect => binding'[p] = binding[p]
        /\ ~due[p].reconnect => ~Placed(binding, p)
    <3>1. binding[p] \in PlayerBindingState
      BY <1>5, InvParts DEF ZoneBindings
    <3>2. binding[p] = [map |-> binding[p].map, at |-> binding[p].at]
      BY <3>1 DEF PlayerBindingState
    <3> QED BY <2>3, <2>5, <3>2 DEF Placed
  <2>7. Agrees(binding', index', due', seen')
    <3>1. binding \in ZoneBindings
      BY InvParts
    <3>2. /\ due[p].reconnect \in BOOLEAN
          /\ \A q \in Player \ {p} : due'[q] = due[q]
          /\ Agrees(binding, index, due, seen)
      BY <1>1, <1>3
    <3> HIDE DEF z, sight
    <3> QED BY <2>3, <2>4, <2>6, <3>1, <3>2, AgreesSnapshot, SMTT(30)
  <2>8. Bindings(binding', world', due', line')
    BY <1>1, <1>3, <1>5, <2>1, <2>3, <2>5 DEF Bindings, Bound
  <2> QED BY <2>7, <2>8
<1> QED
  BY <1>4, <1>5

LEMMA SteadyNext == Inv /\ Steady /\ [Next]_vars => Steady'
<1> SUFFICES ASSUME Inv, Steady, [Next]_vars PROVE Steady'
  OBVIOUS
<1>1. CASE UNCHANGED vars
  BY <1>1, SteadyElsewhere DEF vars
<1>2. CASE LineUp \/ ReapErases \/ \E m \in Map : Assign(m) \/ Ages(m) \/ ReapTests(m)
  BY <1>2, SteadyElsewhere DEF LineUp, ReapErases, ReapTests, Assign, Ages, zone
<1>3. CASE LineDown \/ \E p \in Player, m \in Map : EnterAbandoned(p, m)
  <2>1. Stray
    BY <1>3 DEF LineDown, EnterAbandoned
  <2> QED BY <2>1, NoStray, InvParts, SteadyWhole
<1>4. CASE \E m \in Map : AssignRefused(m)
  BY <1>1, <1>4 DEF AssignRefused
<1>5. CASE \E p \in Player : Leave(p) \/ Reconnect(p) \/ Snapshot(p) \/ \E pt \in Point : Move(p, pt)
  BY <1>5, SteadyLeave, SteadyReconnect, SteadySnapshot, SteadyMove
<1>6. CASE \E p \in Player, m \in Map, pt \in Point : Enter(p, m, pt) \/ Transfer(p, m, pt)
  BY <1>6, SteadyEnter, SteadyTransfer
<1> QED
  BY <1>1, <1>2, <1>3, <1>4, <1>5, <1>6 DEF Next

LEMMA SteadyAlways == Spec => [](Inv /\ Steady)
<1>1. Init => Inv /\ Steady
  BY InvInit, SteadyInit
<1>2. (Inv /\ Steady) /\ [Next]_vars => (Inv /\ Steady)'
  BY InvNext, SteadyNext
<1> QED
  BY <1>1, <1>2, PTL DEF Spec

\* OnPlayerMoveInternalRequest_, OnPlayerLeaveRequest_,
\* TrySendInitialAoiSnapshot_: while nothing was lost, abandoned, overtaken or
\* cut (a batch of more than MaxBatch entities is), every client whose snapshot
\* came was told of exactly the players in its sight, for every number of
\* players, all positions and every sight radius.
THEOREM ViewsAlwaysAgree == Spec => []ViewsAgree
<1>1. Inv /\ Steady => ViewsAgree
  <2> SUFFICES ASSUME Steady, strays = 0, NEW p \in Player, Placed(binding, p), due[p] = None
               PROVE  seen[p] = LinearVisible(p)
    BY DEF ViewsAgree
  <2> QED BY DEF Steady, Told, Scan, LinearVisible
<1> QED
  BY <1>1, SteadyAlways, PTL

\* The compare of OnPlayerMoveInternalRequest_ (enable_aoi_linear_compare_):
\* while nothing was lost, abandoned, overtaken or cut, the cells the index is
\* searched in find exactly the players the linear scan finds, whatever the
\* sight radius and the cell size that follows from it.
THEOREM CellsFindAllUnlessStrayed == Spec => [](strays = 0 => CellsFindAll)
<1>1. Inv /\ Steady => (strays = 0 => CellsFindAll)
  <2> SUFFICES ASSUME Inv, Steady, strays = 0, NEW p \in Player, Placed(binding, p)
               PROVE  Sight(binding, index, p) = LinearVisible(p)
    BY DEF CellsFindAll
  <2>1. Sight(binding, index, p) = Scan(binding, p)
    BY InvParts, SightIsScan DEF Steady, ZoneBindings
  <2> QED BY <2>1 DEF Scan, LinearVisible
<1> QED
  BY <1>1, SteadyAlways, PTL
=============================================================================
