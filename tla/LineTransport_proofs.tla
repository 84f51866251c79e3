------------------------ MODULE LineTransport_proofs ------------------------
(* For every number of sessions and frames: the client of an outbound line     *)
(* works on one connection at a time and, until it is stopped, always on one;  *)
(* each session has a write loop exactly while it has something to write,      *)
(* counts the bytes it has queued and writes what it owes in order, without    *)
(* gaps.                                                                       *)
EXTENDS LineTransport, FiniteSetTheorems, SequenceTheorems, TLAPS

Lives == {"none", "new", "up", "ending", "ended"}
LiveStates == {"new", "up", "ending"}

SessionType ==
  [life : Lives, open : BOOLEAN, posted : Seq(Frame \cup {Close}), q : Seq(Frame), bytes : Int,
   writers : {0, 1}, accepted : SUBSET Frame, written : Seq(Frame)]

ClientType == [started : BOOLEAN, manualStop : BOOLEAN, pending : BOOLEAN, backoff : Int]
LoopsType ==
  [spawned : Nat, tested : Nat, resolving : Nat, connecting : Nat, failed : Nat, waiting : Nat]

\* The types, without the bounds that rest on the sizes of the queues.
Typed ==
  /\ client \in ClientType
  /\ loops \in LoopsType
  /\ current \in {0} \cup Serial
  /\ serial \in 0 .. MaxSerial
  /\ conn \in [Serial -> SessionType]
  /\ sent \in Int

\* A session has its writer, and one that was not made yet has nothing.
Written(c) ==
  /\ c.writers = 1 => c.q # <<>>
  /\ c.open /\ c.q # <<>> => c.writers = 1

AllWritten == \A k \in Serial : Written(conn[k])

-----------------------------------------------------------------------------
(* ---- what the steps of a session do to it ---- *)

LEMMA BoundIsNat == MaxSerial \in Nat /\ Delay \in Int /\ MaxDelay \in Nat
  BY ConstantsAssumption

LEMMA SizeIsInt == \A f \in Frame : SizeOf(f) \in Int
<1> SUFFICES ASSUME NEW f \in Frame PROVE SizeOf(f) \in Int
  OBVIOUS
<1>1. BodyOf[f] \in Nat /\ Word \in Nat \ {0} /\ HeaderSize \in Nat
  BY ConstantsAssumption DEF Frame
<1>2. BodyOf[f] % Word \in Int
  BY <1>1
<1> QED
  BY <1>1, <1>2 DEF SizeOf

LEMMA Appended ==
  ASSUME NEW S, NEW s \in Seq(S), NEW x \in S
  PROVE  Append(s, x) \in Seq(S) /\ Append(s, x) # <<>>
  BY SMTT(30)

LEMMA Popped ==
  ASSUME NEW S, NEW s \in Seq(S), s # <<>>
  PROVE  /\ Head(s) \in S
         /\ Tail(s) \in Seq(S)
         /\ Tail(s) = <<>> <=> Len(s) = 1
<1>1. Head(s) \in S /\ Tail(s) \in Seq(S) /\ Len(s) \in Nat \ {0} /\ Len(Tail(s)) = Len(s) - 1
  BY HeadTailProperties, EmptySeq
<1>2. Tail(s) = <<>> <=> Len(Tail(s)) = 0
  BY <1>1, EmptySeq
<1> QED
  BY <1>1, <1>2

LEMMA NewSession ==
  ASSUME NEW c, c = NoSession \/ c = [NoSession EXCEPT !.life = "new", !.open = TRUE]
  PROVE  c \in SessionType /\ Written(c)
<1>1. <<>> \in Seq(Frame) /\ <<>> \in Seq(Frame \cup {Close})
  BY EmptySeq
<1>2. NoSession \in SessionType
  BY <1>1 DEF NoSession, SessionType, Lives
<1>3. NoSession.q = <<>> /\ NoSession.writers = 0
  BY DEF NoSession
<1>4. c \in SessionType
  BY <1>2 DEF SessionType, Lives
<1>5. c.q = <<>> /\ c.writers = 0
  BY <1>2, <1>3 DEF SessionType
<1> QED
  BY <1>4, <1>5 DEF Written

\* The strand runs a frame or a close.
LEMMA StrandRuns ==
  ASSUME NEW c \in SessionType, Written(c), c.posted # <<>>,
         NEW f, f = Head(c.posted), NEW d, d = [c EXCEPT !.posted = Tail(@)]
  PROVE  LET e == CASE f = Close -> [d EXCEPT !.open = FALSE]
                    [] f # Close /\ Overflows(d, f) -> Overflowed(d, f)
                    [] OTHER -> Enqueued(d, f)
         IN  e \in SessionType /\ Written(e) /\ e.life = c.life
<1>1. f \in Frame \cup {Close} /\ Tail(c.posted) \in Seq(Frame \cup {Close})
  BY Popped DEF SessionType
<1>2. d \in SessionType /\ Written(d) /\ d.life = c.life
  BY <1>1 DEF SessionType, Written
<1>3. /\ [d EXCEPT !.open = FALSE] \in SessionType
      /\ Written([d EXCEPT !.open = FALSE])
      /\ [d EXCEPT !.open = FALSE].life = c.life
  BY <1>2 DEF SessionType, Written
<1>4. /\ Overflowed(d, f) \in SessionType /\ Written(Overflowed(d, f))
      /\ Overflowed(d, f).life = c.life
  BY <1>2, <1>3 DEF Overflowed
<1>5. ASSUME f # Close
      PROVE  /\ Enqueued(d, f) \in SessionType /\ Written(Enqueued(d, f))
             /\ Enqueued(d, f).life = c.life
  <2>1. f \in Frame /\ SizeOf(f) \in Int
    BY <1>1, <1>5, SizeIsInt
  <2>2. d.q \in Seq(Frame) /\ d.writers \in {0, 1} /\ d.bytes \in Int
    BY <1>2 DEF SessionType
  <2>3. Append(d.q, f) \in Seq(Frame) /\ Append(d.q, f) # <<>>
    BY <2>1, <2>2, Appended
  <2>4. (d.q = <<>> => d.writers = 0) /\ d.bytes + SizeOf(f) \in Int
    BY <1>2, <2>1, <2>2 DEF Written
  <2> DEFINE e == Enqueued(d, f)
             w == IF d.q = <<>> THEN d.writers + 1 ELSE d.writers
  <2>5. w \in {0, 1}
    BY <2>2, <2>4
  <2>6. /\ e \in SessionType
        /\ e.life = d.life /\ e.open = d.open /\ e.q = Append(d.q, f) /\ e.writers = w
    BY <1>2, <2>3, <2>4, <2>5 DEF Enqueued, SessionType
  <2>7. d.open => w = 1
    BY <1>2, <2>2, <2>4 DEF Written
  <2> HIDE DEF e, w
  <2>8. Written(e)
    BY <2>3, <2>6, <2>7, <1>2 DEF Written
  <2> QED
    BY <2>6, <2>8, <1>2 DEF e
<1> QED
  BY <1>3, <1>4, <1>5

-----------------------------------------------------------------------------
(* ---- types and writers ---- *)

\* A step that replaces one session by one that has its writer.
LEMMA SessionSet ==
  ASSUME conn \in [Serial -> SessionType], AllWritten,
         NEW k \in Serial, NEW e \in SessionType, Written(e),
         conn' = [conn EXCEPT ![k] = e]
  PROVE  conn' \in [Serial -> SessionType] /\ AllWritten'
<1>1. conn'[k] = e /\ \A l \in Serial : l # k => conn'[l] = conn[l]
  OBVIOUS
<1>2. \A l \in Serial : Written(conn'[l])
  BY <1>1 DEF AllWritten
<1> QED
  BY <1>2 DEF AllWritten

LEMMA TypedInit == Init => Typed /\ AllWritten
<1> SUFFICES ASSUME Init PROVE Typed /\ AllWritten
  OBVIOUS
<1>1. NoSession \in SessionType /\ Written(NoSession)
  BY NewSession
<1>2. conn \in [Serial -> SessionType] /\ \A k \in Serial : conn[k] = NoSession
  BY <1>1 DEF Init
<1>3. AllWritten
  BY <1>1, <1>2 DEF AllWritten
<1> QED
  BY <1>2, <1>3, ConstantsAssumption, BoundIsNat DEF Init, Typed, ClientType, LoopsType

\* A close or a frame that is posted.
LEMMA PostedSet ==
  ASSUME Typed, AllWritten, NEW k \in Serial, NEW x \in Frame \cup {Close},
         NEW e, e = [conn[k] EXCEPT !.posted = Append(@, x)]
  PROVE  e \in SessionType /\ Written(e) /\ e.life = conn[k].life
<1>1. conn[k] \in SessionType /\ Written(conn[k])
  BY DEF Typed, AllWritten
<1>2. Append(conn[k].posted, x) \in Seq(Frame \cup {Close})
  BY <1>1, Appended DEF SessionType
<1> QED
  BY <1>1, <1>2 DEF SessionType, Written

LEMMA SessionSteps ==
  ASSUME Typed, AllWritten, NEW k \in Serial, Session(k)
  PROVE  \E e \in SessionType : Written(e) /\ conn' = [conn EXCEPT ![k] = e]
<1> DEFINE c == conn[k]
<1>1. c \in SessionType /\ Written(c)
  BY DEF Typed, AllWritten
<1>2. CASE SessionStart(k)
  <2> DEFINE e == [c EXCEPT !.life = "up"]
  <2>1. conn' = [conn EXCEPT ![k] = e]
    BY <1>2 DEF SessionStart
  <2>2. e \in SessionType /\ Written(e)
    BY <1>1 DEF SessionType, Lives, Written
  <2> QED
    BY <2>1, <2>2
<1>3. CASE ReadFails(k)
  <2> DEFINE d == [c EXCEPT !.posted = Append(@, Close)]
             e == [d EXCEPT !.life = "ending"]
  <2>1. conn' = [conn EXCEPT ![k] = e]
    BY <1>1, <1>3 DEF ReadFails, Typed, SessionType
  <2>2. d \in SessionType /\ Written(d)
    BY PostedSet
  <2> HIDE DEF d
  <2>3. e \in SessionType /\ Written(e)
    BY <2>2 DEF SessionType, Lives, Written
  <2> QED
    BY <2>1, <2>3
<1>4. CASE SessionEnds(k)
  <2> DEFINE e == [c EXCEPT !.life = "ended"]
  <2>1. conn' = [conn EXCEPT ![k] = e]
    BY <1>4 DEF SessionEnds
  <2>2. e \in SessionType /\ Written(e)
    BY <1>1 DEF SessionType, Lives, Written
  <2> QED
    BY <2>1, <2>2
<1>5. CASE Strand(k)
  BY <1>1, <1>5, StrandRuns DEF Strand
<1>6. CASE Write(k)
  <2>1. c.writers = 1 /\ c.q # <<>> /\ c.q \in Seq(Frame)
    BY <1>1, <1>6 DEF Write, SessionType, Written
  <2>2. /\ Head(c.q) \in Frame /\ Tail(c.q) \in Seq(Frame)
        /\ Tail(c.q) = <<>> <=> Len(c.q) = 1
    BY <2>1, Popped
  <2>3. Append(c.written, Head(c.q)) \in Seq(Frame) /\ c.bytes - SizeOf(Head(c.q)) \in Int
    BY <1>1, <2>2, SizeIsInt, Appended DEF SessionType
  <2> DEFINE w == IF Len(c.q) = 1 THEN c.writers - 1 ELSE c.writers
             e == [c EXCEPT !.written = Append(c.written, Head(c.q)),
                            !.bytes = c.bytes - SizeOf(Head(c.q)),
                            !.q = Tail(c.q), !.writers = w]
  <2>4. conn' = [conn EXCEPT ![k] = e]
    BY <1>1, <1>6 DEF Write, Typed, SessionType
  <2>5. w \in {0, 1} /\ (w = 0 <=> Tail(c.q) = <<>>)
    BY <2>1, <2>2
  <2>6. e \in SessionType /\ e.q = Tail(c.q) /\ e.writers = w
    BY <1>1, <2>2, <2>3, <2>5 DEF SessionType
  <2> HIDE DEF e, w
  <2>7. Written(e)
    BY <2>5, <2>6 DEF Written
  <2> QED
    BY <2>4, <2>6, <2>7
<1>7. CASE WriteFails(k)
  <2> DEFINE e == [c EXCEPT !.open = FALSE, !.writers = @ - 1]
  <2>1. c.writers = 1
    BY <1>1, <1>7 DEF WriteFails, SessionType
  <2>2. conn' = [conn EXCEPT ![k] = e]
    BY <1>7 DEF WriteFails
  <2>3. e.writers = 0 /\ e.open = FALSE
    BY <1>1, <2>1 DEF SessionType
  <2>6. e = [c EXCEPT !.open = FALSE, !.writers = 0]
    BY <1>1, <2>1 DEF SessionType
  <2>7. [c EXCEPT !.open = FALSE, !.writers = 0] \in SessionType
    BY <1>1 DEF SessionType
  <2>5. e \in SessionType
    BY <2>6, <2>7
  <2>4. Written(e)
    BY <2>3 DEF Written
  <2> QED
    BY <2>2, <2>4, <2>5
<1> QED
  BY <1>2, <1>3, <1>4, <1>5, <1>6, <1>7 DEF Session

\* What the client's own steps change.
LEMMA ClientTyped ==
  ASSUME Typed
  PROVE  /\ BackedOff \in ClientType
         /\ \A l \in LoopsType :
              Fails(l) \in LoopsType
<1>1. client \in ClientType /\ MaxDelay \in Nat
  BY ConstantsAssumption DEF Typed
<1>2. Grown(client.backoff) \in Int
  BY <1>1 DEF Grown, ClientType
<1>3. BackedOff \in ClientType
  BY <1>1, <1>2 DEF BackedOff, ClientType
<1>4. \A l \in LoopsType : Fails(l) \in LoopsType
  BY DEF Fails, LoopsType
<1> QED
  BY <1>3, <1>4

LEMMA TypedNext == Typed /\ AllWritten /\ [Next]_vars => Typed' /\ AllWritten'
<1> SUFFICES ASSUME Typed, AllWritten, [Next]_vars PROVE Typed' /\ AllWritten'
  OBVIOUS
<1>1. CASE Start \/ WaitBegins \/ WaitEnds \/ ConnectBegins \/ ResolveBegins \/ Resolved
  <2>1. UNCHANGED <<conn, current, serial, sent>>
    BY <1>1 DEF Start, WaitBegins, WaitEnds, ConnectBegins, ResolveBegins, Resolved
  <2>2. AllWritten'
    BY <2>1 DEF AllWritten
  <2>3. client' \in ClientType
    <3> client \in ClientType /\ Delay \in Int
      BY BoundIsNat DEF Typed
    <3>1. CASE Start
      BY <3>1 DEF Start, ClientType
    <3>2. CASE WaitEnds
      BY <3>2 DEF WaitEnds, ClientType
    <3>3. CASE WaitBegins
      BY <3>3 DEF WaitBegins, ClientType
    <3> QED
      BY <1>1, <3>1, <3>2, <3>3 DEF ConnectBegins, ResolveBegins, Resolved
  <2>4. loops' \in LoopsType
    <3> loops \in LoopsType
      BY DEF Typed
    <3>1. CASE Start
      BY <3>1 DEF Start, LoopsType
    <3>2. CASE WaitEnds
      <4> DEFINE x == loops.waiting - 1
                 y == IF Halted THEN loops.spawned ELSE loops.spawned + 1
      <4>1. x \in Nat /\ y \in Nat
        BY <3>2 DEF WaitEnds, LoopsType
      <4>2. loops' = [loops EXCEPT !.waiting = x, !.spawned = y]
        BY <3>2 DEF WaitEnds, LoopsType
      <4> HIDE DEF x, y
      <4> QED
        BY <4>1, <4>2 DEF LoopsType
    <3>3. CASE ConnectBegins
      <4> DEFINE x == loops.spawned - 1
                 y == IF Halted THEN loops.tested ELSE loops.tested + 1
      <4>1. x \in Nat /\ y \in Nat
        BY <3>3 DEF ConnectBegins, LoopsType
      <4>2. loops' = [loops EXCEPT !.spawned = x, !.tested = y]
        BY <3>3 DEF ConnectBegins, LoopsType
      <4> HIDE DEF x, y
      <4> QED
        BY <4>1, <4>2 DEF LoopsType
    <3>4. CASE Resolved
      <4> DEFINE x == loops.resolving - 1
                 y == loops.connecting + 1
      <4>1. x \in Nat /\ y \in Nat
        BY <3>4 DEF Resolved, LoopsType
      <4>2. loops' = [loops EXCEPT !.resolving = x, !.connecting = y]
        BY <3>4 DEF Resolved, LoopsType
      <4> HIDE DEF x, y
      <4> QED
        BY <4>1, <4>2 DEF LoopsType
    <3>5. CASE ResolveBegins
      <4> DEFINE x == loops.tested - 1
                 y == loops.resolving + 1
      <4>1. x \in Nat /\ y \in Nat
        BY <3>5 DEF ResolveBegins, LoopsType
      <4>2. loops' = [loops EXCEPT !.tested = x, !.resolving = y]
        BY <3>5 DEF ResolveBegins, LoopsType
      <4> HIDE DEF x, y
      <4> QED
        BY <4>1, <4>2 DEF LoopsType
    <3>6. CASE WaitBegins
      <4> DEFINE x == loops.failed - 1
                 y == loops.waiting + 1
      <4>1. x \in Nat /\ y \in Nat
        BY <3>6 DEF WaitBegins, LoopsType
      <4>2. loops' = [loops EXCEPT !.failed = x, !.waiting = y]
        BY <3>6 DEF WaitBegins, LoopsType
      <4> HIDE DEF x, y
      <4> QED
        BY <4>1, <4>2 DEF LoopsType
    <3> QED
      BY <1>1, <3>1, <3>2, <3>3, <3>4, <3>5, <3>6
  <2> QED
    BY <2>1, <2>2, <2>3, <2>4 DEF Typed
<1>2. CASE Stop
  <2>1. client' \in ClientType
        /\ current' = 0 /\ UNCHANGED <<loops, serial, sent>>
    BY <1>2 DEF Stop, Typed, ClientType
  <2>2. CASE current = 0
    BY <1>2, <2>1, <2>2 DEF Stop, Typed, AllWritten
  <2>3. CASE current # 0
    <3> DEFINE e == [conn[current] EXCEPT !.posted = Append(@, Close)]
    <3>1. current \in Serial /\ conn' = [conn EXCEPT ![current] = e]
      BY <1>2, <2>3 DEF Stop, Typed
    <3>2. e \in SessionType /\ Written(e)
      BY <3>1, PostedSet
    <3>3. conn' \in [Serial -> SessionType] /\ AllWritten'
      BY <3>1, <3>2, SessionSet DEF Typed
    <3> QED
      BY <2>1, <3>3 DEF Typed
  <2> QED
    BY <2>2, <2>3
<1>3. CASE ConnectFails
  <2>1. PICK step \in {"resolving", "connecting"} :
          loops[step] > 0 /\ loops' = Fails([loops EXCEPT ![step] = @ - 1])
    BY <1>3 DEF ConnectFails
  <2>2. [loops EXCEPT ![step] = @ - 1] \in LoopsType
    BY <2>1 DEF Typed, LoopsType
  <2>5. loops' \in LoopsType
    BY <2>1, <2>2, ClientTyped
  <2>3. client' = BackedOff /\ current' = 0 /\ UNCHANGED <<serial, conn, sent>>
    BY <1>3 DEF ConnectFails
  <2>4. AllWritten'
    BY <2>3 DEF AllWritten
  <2> QED
    BY <2>3, <2>4, <2>5, ClientTyped DEF Typed
<1>4. CASE Connected
  <2> DEFINE e == [NoSession EXCEPT !.life = "new", !.open = TRUE]
  <2>1. serial + 1 \in Serial /\ serial' = serial + 1 /\ current' = serial + 1
    BY <1>4, BoundIsNat DEF Connected, Typed, Serial
  <2>2. conn' = [conn EXCEPT ![serial + 1] = e]
    BY <1>4 DEF Connected
  <2>6. e \in SessionType /\ Written(e)
    BY NewSession
  <2> HIDE DEF e
  <2>3. conn' \in [Serial -> SessionType] /\ AllWritten'
    BY <2>1, <2>2, <2>6, SessionSet DEF Typed
  <2>4. loops' \in LoopsType
    BY <1>4 DEF Connected, Typed, LoopsType
  <2>5. client' \in ClientType
        /\ sent' = sent
    BY <1>4, BoundIsNat DEF Connected, Typed, ClientType
  <2> QED
    BY <2>1, <2>3, <2>4, <2>5, BoundIsNat DEF Typed, Serial
<1>5. ASSUME NEW k \in Serial, Session(k) PROVE Typed' /\ AllWritten'
  <2>1. conn' \in [Serial -> SessionType] /\ AllWritten'
    BY <1>5, SessionSteps, SessionSet DEF Typed
  <2>2. UNCHANGED <<serial, sent>>
    BY <1>5 DEF Session, SessionStart, ReadFails, SessionEnds, Strand, Write, WriteFails
  <2>3. CASE SessionEnds(k)
    BY <2>1, <2>2, <2>3, ClientTyped DEF SessionEnds, Typed
  <2>4. CASE ~SessionEnds(k)
    BY <1>5, <2>1, <2>2, <2>4
    DEF Session, SessionStart, ReadFails, Strand, Write, WriteFails, Typed
  <2> QED
    BY <2>3, <2>4
<1>6. CASE Send
  <2>1. PICK x \in Frame :
          /\ conn' = [conn EXCEPT ![current].posted = IF x \in Ignored THEN @ ELSE Append(@, x),
                                  ![current].accepted = @ \cup {x}]
          /\ sent' = x
    BY <1>6 DEF Send
  <2>2. current \in Serial /\ UNCHANGED <<client, loops, current, serial>>
    BY <1>6 DEF Send, Typed
  <2> DEFINE d == IF x \in Ignored THEN conn[current]
                  ELSE [conn[current] EXCEPT !.posted = Append(@, x)]
             e == [d EXCEPT !.accepted = @ \cup {x}]
  <2>3. d \in SessionType /\ Written(d)
    BY <2>2, PostedSet DEF Typed, AllWritten
  <2>4. conn' = [conn EXCEPT ![current] = e]
    BY <2>1, <2>2, <2>3 DEF Typed, SessionType
  <2> HIDE DEF d
  <2>5. e \in SessionType /\ Written(e)
    BY <2>3 DEF SessionType, Written
  <2> HIDE DEF e
  <2>6. conn' \in [Serial -> SessionType] /\ AllWritten'
    BY <2>2, <2>4, <2>5, SessionSet DEF Typed
  <2>7. sent' \in Int
    BY <2>1, ConstantsAssumption, LenProperties DEF Frame
  <2> QED
    BY <2>2, <2>6, <2>7 DEF Typed
<1>8. CASE CloseLine
  <2>1. current \in Serial /\ UNCHANGED <<client, loops, current, serial, sent>>
    BY <1>8 DEF CloseLine, Typed
  <2> DEFINE d == [conn[current] EXCEPT !.posted = Append(@, Close)]
  <2>2. conn' = [conn EXCEPT ![current] = d]
    BY <1>8 DEF CloseLine
  <2>3. d \in SessionType /\ Written(d)
    BY <2>1, PostedSet
  <2> HIDE DEF d
  <2>4. conn' \in [Serial -> SessionType] /\ AllWritten'
    BY <2>1, <2>2, <2>3, SessionSet DEF Typed
  <2> QED
    BY <2>1, <2>4 DEF Typed
<1>7. CASE UNCHANGED vars
  BY <1>7 DEF vars, Typed, AllWritten
<1> QED
  BY <1>1, <1>2, <1>3, <1>4, <1>5, <1>6, <1>7, <1>8 DEF Next

LEMMA TypedAlways == Spec => [](Typed /\ AllWritten)
  BY TypedInit, TypedNext, PTL DEF Spec

\* A session has exactly one write loop while it is open and has something
\* queued, and a loop never runs on an empty queue (enqueue_send_close_,
\* enqueue_send_drop_, write_loop): no queued frame is left without a writer and
\* no two loops write the same front.
THEOREM OneWriterAlways == Spec => []OneWriter
<1>1. Typed /\ AllWritten => OneWriter
  BY DEF Typed, AllWritten, Written, OneWriter, SessionType
<1> QED
  BY <1>1, TypedAlways, PTL

-----------------------------------------------------------------------------
(* ---- one connection at a time ---- *)

\* The coroutines of the client other than sessions, and all its work.
CountOf(l) == l.spawned + l.tested + l.resolving + l.connecting + l.failed + l.waiting
Coroutines == CountOf(loops)
Work == Cardinality(Live) + Coroutines

\* One piece of work at most, none before the start, and no session ahead of its serial.
Single ==
  /\ Work <= 1
  /\ ~client.started /\ ~client.manualStop => Work = 0
  /\ \A k \in Serial : k > serial => conn[k].life = "none"

LEMMA LiveFinite == IsFiniteSet(Live) /\ Cardinality(Live) \in Nat
<1>1. IsFiniteSet(Serial)
  BY BoundIsNat, FS_Interval DEF Serial
<1>2. Live \subseteq Serial
  BY DEF Live
<1> QED
  BY <1>1, <1>2, FS_Subset, FS_CardinalityType

\* A step that leaves every session as alive as it was.
LEMMA LiveKept ==
  ASSUME \A k \in Serial : conn'[k].life \in LiveStates <=> conn[k].life \in LiveStates
  PROVE  Live' = Live
  BY DEF Live, LiveStates

LEMMA SingleInit == Init => Single
<1> SUFFICES ASSUME Init PROVE Single
  OBVIOUS
<1>1. Live = {}
  BY DEF Init, Live, NoSession
<1>2. Cardinality(Live) = 0
  BY <1>1, FS_EmptySet
<1>3. Coroutines = 0
  BY DEF Init, Coroutines, CountOf
<1> QED
  BY <1>2, <1>3 DEF Init, Single, Work, NoSession

\* schedule_reconnect_ adds a coroutine at most.
LEMMA FailsAdds ==
  ASSUME NEW l \in LoopsType
  PROVE  CountOf(Fails(l)) <= CountOf(l) + 1 /\ (Halted => Fails(l) = l)
  BY DEF Fails, LoopsType, Schedules, CountOf

LEMMA SingleNext == Typed /\ AllWritten /\ Single /\ [Next]_vars => Single'
<1> SUFFICES ASSUME Typed, AllWritten, Single, [Next]_vars PROVE Single'
  OBVIOUS
<1> DEFINE C == Cardinality(Live)
<1>1. C \in Nat /\ loops \in LoopsType /\ client \in ClientType
  BY LiveFinite DEF Typed
<1>2. Live' = Live => C' = C
  OBVIOUS
<1> HIDE DEF C
<1>3. ASSUME Live' = Live, \A k \in Serial : conn[k].life = "none" => conn'[k].life = "none",
             serial' = serial, Coroutines' <= Coroutines, Coroutines' \in Nat,
             ~client'.started /\ ~client'.manualStop => ~client.started /\ ~client.manualStop
      PROVE  Single'
  <2>1. Work' <= Work /\ Work \in Nat /\ Work' \in Nat
    BY <1>1, <1>2, <1>3 DEF Work, C, Coroutines, CountOf, LoopsType
  <2> QED
    BY <1>3, <2>1 DEF Single
<1>4. CASE Start
  <2>1. Coroutines' = Coroutines + 1 /\ client'.started
    BY <1>1, <1>4 DEF Start, Coroutines, CountOf, LoopsType, ClientType
  <2>2. UNCHANGED <<conn, serial>> /\ Work = 0
    BY <1>4 DEF Start, Single
  <2>3. Live' = Live
    BY <2>2 DEF Live
  <2>4. Work' = 1
    BY <1>1, <1>2, <2>1, <2>2, <2>3 DEF Work, C, Coroutines, CountOf, LoopsType
  <2> QED
    BY <2>1, <2>2, <2>4 DEF Single
<1>5. CASE Stop
  <2>1. loops' = loops /\ serial' = serial /\ client'.manualStop
    BY <1>1, <1>5 DEF Stop, ClientType
  <2>2. \A k \in Serial : conn'[k].life = conn[k].life
    <3>1. CASE current = 0
      BY <1>5, <3>1 DEF Stop
    <3>2. CASE current # 0
      <4> DEFINE e == [conn[current] EXCEPT !.posted = Append(@, Close)]
      <4>1. current \in Serial /\ conn' = [conn EXCEPT ![current] = e]
        BY <1>5, <3>2 DEF Stop, Typed
      <4>2. e.life = conn[current].life
        BY <4>1, PostedSet
      <4> HIDE DEF e
      <4> QED
        BY <4>1, <4>2 DEF Typed
    <3> QED
      BY <3>1, <3>2
  <2>3. Live' = Live
    BY <2>2, LiveKept
  <2>4. Coroutines' = Coroutines /\ Coroutines \in Nat
    BY <1>1, <2>1 DEF Coroutines, CountOf, LoopsType
  <2> QED
    BY <1>3, <2>1, <2>2, <2>3, <2>4
<1>6. CASE WaitBegins \/ WaitEnds \/ ConnectBegins \/ ResolveBegins \/ Resolved
  <2>1. UNCHANGED <<conn, serial>> /\ Live' = Live
    BY <1>6 DEF WaitBegins, WaitEnds, ConnectBegins, ResolveBegins, Resolved, Live
  <2>2. client'.started = client.started /\ client'.manualStop = client.manualStop
    BY <1>1, <1>6 DEF WaitBegins, WaitEnds, ConnectBegins, ResolveBegins, Resolved, ClientType
  <2>3. Coroutines' <= Coroutines /\ Coroutines' \in Nat
    <3>1. CASE WaitEnds
      BY <1>1, <3>1 DEF WaitEnds, Coroutines, CountOf, LoopsType
    <3>2. CASE ConnectBegins
      BY <1>1, <3>2 DEF ConnectBegins, Coroutines, CountOf, LoopsType
    <3>3. CASE Resolved
      BY <1>1, <3>3 DEF Resolved, Coroutines, CountOf, LoopsType
    <3>4. CASE WaitBegins
      BY <1>1, <3>4 DEF WaitBegins, Coroutines, CountOf, LoopsType
    <3>5. CASE ResolveBegins
      BY <1>1, <3>5 DEF ResolveBegins, Coroutines, CountOf, LoopsType
    <3> QED
      BY <1>6, <3>1, <3>2, <3>3, <3>4, <3>5
  <2> QED
    BY <1>3, <2>1, <2>2, <2>3
<1>7. CASE ConnectFails
  <2>1. PICK step \in {"resolving", "connecting"} :
          loops[step] > 0 /\ loops' = Fails([loops EXCEPT ![step] = @ - 1])
    BY <1>7 DEF ConnectFails
  <2> DEFINE l == [loops EXCEPT ![step] = @ - 1]
  <2>2. /\ l \in LoopsType
        /\ CountOf(l) = Coroutines - 1
    BY <1>1, <2>1 DEF LoopsType, Coroutines, CountOf
  <2> HIDE DEF l
  <2>3. Coroutines' <= Coroutines /\ Coroutines' \in Nat
    <3>1. Fails(l) \in LoopsType
      BY <2>2, ClientTyped
    <3>2. loops' = Fails(l)
      BY <2>1 DEF l
    <3>3. CountOf(Fails(l)) <= CountOf(l) + 1
      BY <2>2, FailsAdds
    <3>4. Coroutines \in Nat /\ Coroutines' \in Nat
      BY <1>1, <3>1, <3>2 DEF Coroutines, CountOf, LoopsType
    <3> QED
      BY <2>2, <3>2, <3>3, <3>4 DEF Coroutines, CountOf
  <2>4. UNCHANGED <<conn, serial>> /\ Live' = Live
    BY <1>7 DEF ConnectFails, Live
  <2>5. client'.started = client.started /\ client'.manualStop = client.manualStop
    BY <1>1, <1>7 DEF ConnectFails, BackedOff, ClientType
  <2> QED
    BY <1>3, <2>3, <2>4, <2>5
<1>8. CASE Connected
  <2>1. /\ serial + 1 \in Serial /\ serial' = serial + 1 /\ serial \in Nat
        /\ conn' = [conn EXCEPT ![serial + 1] = [NoSession EXCEPT !.life = "new", !.open = TRUE]]
    BY <1>8, BoundIsNat DEF Connected, Typed, Serial
  <2>2. conn[serial + 1].life = "none"
    BY <2>1 DEF Single
  <2>3. [NoSession EXCEPT !.life = "new", !.open = TRUE].life = "new"
    BY DEF NoSession
  <2>4. /\ conn'[serial + 1].life = "new"
        /\ \A k \in Serial : k # serial + 1 => conn'[k] = conn[k]
    BY <2>1, <2>3 DEF Typed
  <2>5. Live' = Live \cup {serial + 1} /\ serial + 1 \notin Live
    BY <2>1, <2>2, <2>4 DEF Live
  <2>6. Cardinality(Live \cup {serial + 1}) = C + 1
    BY <2>5, LiveFinite, FS_AddElement DEF C
  <2>7. Coroutines' = Coroutines - 1 /\ Coroutines \in Nat /\ Coroutines' \in Nat
    BY <1>1, <1>8 DEF Connected, Coroutines, CountOf, LoopsType
  <2>8. Work' = Work /\ Work \in Nat
    BY <1>1, <2>5, <2>6, <2>7 DEF Work, C
  <2>9. client'.started = client.started /\ client'.manualStop = client.manualStop
    BY <1>1, <1>8 DEF Connected, ClientType
  <2>10. \A k \in Serial : k > serial' => conn'[k].life = "none"
    BY <2>1, <2>4 DEF Single, Serial
  <2> QED
    BY <2>8, <2>9, <2>10 DEF Single
<1>9. ASSUME NEW k \in Serial, Session(k) PROVE Single'
  <2>1. conn[k] \in SessionType /\ Written(conn[k])
    BY DEF Typed, AllWritten
  <2>2. serial' = serial
    BY <1>9 DEF Session, SessionStart, ReadFails, SessionEnds, Strand, Write, WriteFails
  <2>3. \A l \in Serial : l # k => conn'[l] = conn[l]
    <3> PICK e \in SessionType : conn' = [conn EXCEPT ![k] = e]
      BY <1>9, SessionSteps
    <3> QED
      BY DEF Typed
  <2>4. CASE SessionEnds(k)
    <3>1. conn[k].life = "ending" /\ conn'[k].life = "ended"
      BY <2>1, <2>4 DEF SessionEnds, Typed, SessionType
    <3>2. Live' = Live \ {k} /\ k \in Live
      BY <2>3, <3>1 DEF Live
    <3>3. Cardinality(Live \ {k}) = C - 1
      BY <3>2, LiveFinite, FS_RemoveElement DEF C
    <3>4. loops' = Fails(loops) /\ loops' \in LoopsType
      BY <1>1, <2>4, ClientTyped DEF SessionEnds
    <3>5. Coroutines' <= Coroutines + 1 /\ Coroutines' \in Nat /\ Coroutines \in Nat
      BY <1>1, <3>4, FailsAdds DEF Coroutines, CountOf, LoopsType
    <3>6. Work' <= Work /\ Work \in Nat /\ Work' \in Nat
      <4> Cardinality(Live') = C - 1 /\ Cardinality(Live') \in Nat
        BY <3>2, <3>3, LiveFinite, FS_RemoveElement, FS_CardinalityType
      <4> QED
        BY <1>1, <3>5 DEF Work, C
    <3>7. client'.started = client.started /\ client'.manualStop = client.manualStop
      BY <1>1, <2>4 DEF SessionEnds, BackedOff, ClientType
    <3>8. \A l \in Serial : l > serial => conn'[l].life = "none"
      BY <2>3, <3>1 DEF Single
    <3> QED
      BY <2>2, <3>6, <3>7, <3>8 DEF Single
  <2>5. CASE ~SessionEnds(k)
    <3>1. UNCHANGED <<client, loops>>
      BY <1>9, <2>5 DEF Session, SessionStart, ReadFails, Strand, Write, WriteFails
    <3>2. \/ conn'[k].life = conn[k].life
          \/ conn[k].life \in LiveStates /\ conn'[k].life \in LiveStates
      <4>1. CASE SessionStart(k) \/ ReadFails(k)
        BY <2>1, <4>1 DEF SessionStart, ReadFails, Typed, SessionType, LiveStates
      <4>2. CASE Strand(k)
        <5> DEFINE f == Head(conn[k].posted)
                   d == [conn[k] EXCEPT !.posted = Tail(@)]
                   e == CASE f = Close -> [d EXCEPT !.open = FALSE]
                          [] f # Close /\ Overflows(d, f) -> Overflowed(d, f)
                          [] OTHER -> Enqueued(d, f)
        <5>1. conn' = [conn EXCEPT ![k] = e] /\ conn[k].posted # <<>>
          BY <4>2 DEF Strand
        <5>2. e.life = conn[k].life
          BY <2>1, <5>1, StrandRuns
        <5> HIDE DEF e
        <5> QED
          BY <5>1, <5>2 DEF Typed
      <4>3. CASE Write(k)
        BY <2>1, <4>3 DEF Write, Typed, SessionType
      <4>4. CASE WriteFails(k)
        BY <2>1, <4>4 DEF WriteFails, Typed, SessionType
      <4> QED
        BY <1>9, <2>5, <4>1, <4>2, <4>3, <4>4 DEF Session
    <3>3. Live' = Live
      BY <2>3, <3>2, LiveKept
    <3>4. \A l \in Serial : conn[l].life = "none" => conn'[l].life = "none"
      BY <2>3, <3>2 DEF LiveStates
    <3>5. Coroutines' = Coroutines /\ Coroutines \in Nat
      BY <1>1, <3>1 DEF Coroutines, CountOf, LoopsType
    <3> QED
      BY <1>3, <2>2, <3>1, <3>3, <3>4, <3>5
  <2> QED
    BY <2>4, <2>5
<1>10. CASE Send \/ CloseLine
  <2>1. UNCHANGED <<client, loops, serial>> /\ current \in Serial
    BY <1>10 DEF Send, CloseLine, Typed
  <2>2. conn[current] \in SessionType
    BY <2>1 DEF Typed
  <2>3. \A l \in Serial : conn'[l].life = conn[l].life
    <3>1. CASE Send
      BY <2>1, <2>2, <3>1 DEF Send, Typed, SessionType
    <3>2. CASE CloseLine
      BY <2>1, <2>2, <3>2 DEF CloseLine, Typed, SessionType
    <3> QED
      BY <1>10, <3>1, <3>2
  <2>4. Live' = Live
    BY <2>3, LiveKept
  <2>5. Coroutines' = Coroutines /\ Coroutines \in Nat
    BY <1>1, <2>1 DEF Coroutines, CountOf, LoopsType
  <2> QED
    BY <1>3, <2>1, <2>3, <2>4, <2>5
<1>11. CASE UNCHANGED vars
  <2>1. UNCHANGED <<client, loops, serial, conn>> /\ Live' = Live
    BY <1>11 DEF vars, Live
  <2>2. Coroutines' = Coroutines /\ Coroutines \in Nat
    BY <1>1, <2>1 DEF Coroutines, CountOf, LoopsType
  <2> QED
    BY <1>3, <2>1, <2>2
<1> QED
  BY <1>4, <1>5, <1>6, <1>7, <1>8, <1>9, <1>10, <1>11 DEF Next

\* A client never works on two connections at once: it connects, waits to
\* reconnect or has a session, and does one of them (connect_loop_,
\* wait_reconnect_, schedule_reconnect_ and the end of a session).
THEOREM OneConnectionAlways == Spec => []OneConnection
<1>1. Typed /\ AllWritten /\ Single => OneConnection
  <2> SUFFICES ASSUME Typed, Single PROVE OneConnection
    OBVIOUS
  <2>1. Cardinality(Live) \in Nat /\ loops \in LoopsType
    BY LiveFinite DEF Typed
  <2> QED
    BY <2>1 DEF Single, Work, Coroutines, CountOf, OneConnection, LoopsType
<1>2. Spec => []Single
  BY SingleInit, SingleNext, TypedAlways, PTL DEF Spec
<1> QED
  BY <1>1, <1>2, TypedAlways, PTL

-----------------------------------------------------------------------------
(* ---- sequences of frames, as sets and in order ---- *)

Frames(s) == Range(s) \ {Close}
Before(A, B) == \A a \in A, b \in B : a < b
Increasing(s) ==
  \A i, j \in DOMAIN s : i < j /\ s[i] # Close /\ s[j] # Close => s[i] < s[j]

LEMMA FrameIsPositive == Frame = 1 .. Len(BodyOf) /\ Len(BodyOf) \in Nat /\ Close \notin Frame
  BY ConstantsAssumption, LenProperties DEF Frame, Close

LEMMA AppendFrames ==
  ASSUME NEW s \in Seq(Frame \cup {Close}), NEW x \in Frame \cup {Close}
  PROVE  /\ Range(Append(s, x)) = Range(s) \cup {x}
         /\ Increasing(s) /\ (x # Close => Before(Frames(s), {x})) => Increasing(Append(s, x))
<1>1. /\ DOMAIN s = 1 .. Len(s) /\ Len(s) \in Nat
      /\ DOMAIN Append(s, x) = 1 .. (Len(s) + 1)
      /\ \A i \in 1 .. Len(s) : Append(s, x)[i] = s[i]
      /\ Append(s, x)[Len(s) + 1] = x
  OBVIOUS
<1>2. Range(Append(s, x)) = Range(s) \cup {x}
  BY <1>1 DEF Range
<1>3. ASSUME Increasing(s), x # Close => Before(Frames(s), {x})
      PROVE  Increasing(Append(s, x))
  <2> SUFFICES ASSUME NEW i \in 1 .. (Len(s) + 1), NEW j \in 1 .. (Len(s) + 1), i < j,
                      Append(s, x)[i] # Close, Append(s, x)[j] # Close
               PROVE  Append(s, x)[i] < Append(s, x)[j]
    BY <1>1 DEF Increasing
  <2>1. i \in 1 .. Len(s) /\ Append(s, x)[i] = s[i] /\ s[i] \in Frames(s)
    BY <1>1 DEF Frames, Range
  <2>2. CASE j = Len(s) + 1
    BY <1>1, <1>3, <2>1, <2>2 DEF Before
  <2>3. CASE j \in 1 .. Len(s)
    BY <1>1, <1>3, <2>1, <2>3 DEF Increasing
  <2> QED
    BY <1>1, <2>2, <2>3
<1> QED
  BY <1>2, <1>3

LEMMA TailFrames ==
  ASSUME NEW s \in Seq(Frame \cup {Close}), s # <<>>
  PROVE  /\ Head(s) \in Range(s) /\ Range(s) = {Head(s)} \cup Range(Tail(s))
         /\ Increasing(s) => Increasing(Tail(s))
         /\ Increasing(s) /\ Head(s) # Close => Before({Head(s)}, Frames(Tail(s)))
<1>1. /\ Len(s) \in Nat \ {0} /\ DOMAIN s = 1 .. Len(s) /\ Head(s) = s[1]
      /\ DOMAIN Tail(s) = 1 .. (Len(s) - 1)
      /\ \A i \in 1 .. (Len(s) - 1) : Tail(s)[i] = s[i + 1]
  OBVIOUS
<1>2. Head(s) \in Range(s) /\ Range(Tail(s)) \subseteq Range(s)
  BY <1>1 DEF Range
<1>3. ASSUME NEW y \in Range(s) PROVE y \in {Head(s)} \cup Range(Tail(s))
  <2>1. PICK i \in 1 .. Len(s) : y = s[i]
    BY <1>1, <1>3 DEF Range
  <2>2. CASE i = 1
    BY <1>1, <2>1, <2>2
  <2>3. CASE i # 1
    <3>1. i - 1 \in 1 .. (Len(s) - 1) /\ Tail(s)[i - 1] = s[i]
      BY <1>1, <2>1, <2>3
    <3> QED
      BY <1>1, <2>1, <3>1 DEF Range
  <2> QED
    BY <2>2, <2>3
<1>4. Increasing(s) => Increasing(Tail(s))
  BY <1>1 DEF Increasing
<1>5. ASSUME Increasing(s), Head(s) # Close PROVE Before({Head(s)}, Frames(Tail(s)))
  <2> SUFFICES ASSUME NEW y \in Frames(Tail(s)) PROVE Head(s) < y
    BY DEF Before
  <2>1. PICK i \in 1 .. (Len(s) - 1) : y = s[i + 1] /\ y # Close
    BY <1>1 DEF Frames, Range
  <2>2. 1 \in DOMAIN s /\ i + 1 \in DOMAIN s /\ 1 < i + 1
    BY <1>1, <2>1
  <2> QED
    BY <1>1, <1>5, <2>1, <2>2 DEF Increasing
<1> QED
  BY <1>2, <1>3, <1>4, <1>5

-----------------------------------------------------------------------------
(* ---- the bytes of the queue ---- *)

Row(i, n) == {i} \X (1 .. n)

LEMMA RowSize ==
  ASSUME NEW i, NEW n \in Nat
  PROVE  IsFiniteSet(Row(i, n)) /\ Cardinality(Row(i, n)) = n
<1>1. IsFiniteSet(1 .. n) /\ Cardinality(1 .. n) = n
  BY FS_Interval
<1> DEFINE g == [m \in 1 .. n |-> <<i, m>>]
<1>2. g \in Bijection(1 .. n, Row(i, n))
  BY DEF Row, Bijection, Injection, Surjection, IsInjective
<1>3. ExistsBijection(1 .. n, Row(i, n))
  BY <1>2 DEF ExistsBijection
<1> QED
  BY <1>1, <1>3, FS_Bijection

LEMMA SizeIsNat == \A f \in Frame : SizeOf(f) \in Nat
<1> SUFFICES ASSUME NEW f \in Frame PROVE SizeOf(f) \in Nat
  OBVIOUS
<1>1. BodyOf[f] \in Nat /\ Word \in Nat \ {0} /\ HeaderSize \in Nat
  BY ConstantsAssumption DEF Frame
<1>2. BodyOf[f] % Word \in Nat
  BY <1>1
<1> QED
  BY <1>1, <1>2 DEF SizeOf

LEMMA AppendBytes ==
  ASSUME NEW q \in Seq(Frame), NEW f \in Frame, IsFiniteSet(QueuedBytes(q))
  PROVE  /\ IsFiniteSet(QueuedBytes(Append(q, f)))
         /\ Cardinality(QueuedBytes(Append(q, f))) = Cardinality(QueuedBytes(q)) + SizeOf(f)
<1> DEFINE r == Append(q, f)
           last == Row(Len(q) + 1, SizeOf(f))
<1>1. /\ DOMAIN q = 1 .. Len(q) /\ Len(q) \in Nat
      /\ DOMAIN r = 1 .. (Len(q) + 1)
      /\ \A i \in 1 .. Len(q) : r[i] = q[i]
      /\ r[Len(q) + 1] = f
  OBVIOUS
<1> HIDE DEF r
<1>2. QueuedBytes(r) = QueuedBytes(q) \cup last
  BY <1>1 DEF QueuedBytes, Row
<1>3. QueuedBytes(q) \cap last = {}
  BY <1>1 DEF QueuedBytes, Row
<1>4. IsFiniteSet(last) /\ Cardinality(last) = SizeOf(f) /\ SizeOf(f) \in Nat
  BY RowSize, SizeIsNat
<1>5. Cardinality(QueuedBytes(q)) \in Nat
  BY FS_CardinalityType
<1>6. /\ IsFiniteSet(QueuedBytes(q) \cup last)
      /\ Cardinality(QueuedBytes(q) \cup last)
           = Cardinality(QueuedBytes(q)) + Cardinality(last) - Cardinality(QueuedBytes(q) \cap last)
  BY <1>4, FS_Union
<1>7. Cardinality(QueuedBytes(q) \cap last) = 0
  BY <1>3, FS_EmptySet
<1> HIDE DEF last
<1> QED
  BY <1>2, <1>4, <1>5, <1>6, <1>7 DEF r

LEMMA TailBytes ==
  ASSUME NEW q \in Seq(Frame), q # <<>>, IsFiniteSet(QueuedBytes(q))
  PROVE  /\ IsFiniteSet(QueuedBytes(Tail(q)))
         /\ Cardinality(QueuedBytes(Tail(q))) = Cardinality(QueuedBytes(q)) - SizeOf(Head(q))
<1> DEFINE t == Tail(q)
           front == Row(1, SizeOf(Head(q)))
           rest == QueuedBytes(q) \ front
<1>1. /\ Len(q) \in Nat \ {0} /\ DOMAIN q = 1 .. Len(q) /\ Head(q) = q[1] /\ Head(q) \in Frame
      /\ DOMAIN t = 1 .. (Len(q) - 1)
      /\ \A i \in 1 .. (Len(q) - 1) : t[i] = q[i + 1]
  OBVIOUS
<1> HIDE DEF t
<1>2. front \subseteq QueuedBytes(q)
  BY <1>1 DEF QueuedBytes, Row
<1>3. \A x \in rest : \E i \in 2 .. Len(q) : \E n \in 1 .. SizeOf(q[i]) : x = <<i, n>>
  BY <1>1 DEF QueuedBytes, Row
<1>4. \A i \in 2 .. Len(q) : \A n \in 1 .. SizeOf(q[i]) : <<i, n>> \in rest
  BY <1>1 DEF QueuedBytes, Row
<1>5. \A x : x \in QueuedBytes(t)
               <=> \E i \in 1 .. (Len(q) - 1) : \E n \in 1 .. SizeOf(q[i + 1]) : x = <<i, n>>
  BY <1>1 DEF QueuedBytes
<1> DEFINE g == [x \in rest |-> <<x[1] - 1, x[2]>>]
<1>6. IsFiniteSet(front) /\ Cardinality(front) = SizeOf(Head(q)) /\ SizeOf(Head(q)) \in Nat
  BY <1>1, RowSize, SizeIsNat
<1> HIDE DEF rest, front
<1>7. ExistsBijection(rest, QueuedBytes(t))
  <2>1. g \in [rest -> QueuedBytes(t)]
    <3> SUFFICES ASSUME NEW x \in rest PROVE <<x[1] - 1, x[2]>> \in QueuedBytes(t)
      OBVIOUS
    <3>1a. PICK i \in 2 .. Len(q) : \E n \in 1 .. SizeOf(q[i]) : x = <<i, n>>
      BY <1>3
    <3>1. PICK n \in 1 .. SizeOf(q[i]) : x = <<i, n>>
      BY <3>1a
    <3>2. i - 1 \in 1 .. (Len(q) - 1) /\ (i - 1) + 1 = i
      BY <1>1
    <3> QED
      BY <1>5, <3>1, <3>2
  <2>2. ASSUME NEW x \in rest, NEW y \in rest, g[x] = g[y] PROVE x = y
    <3>1a. PICK i \in 2 .. Len(q) : \E n \in 1 .. SizeOf(q[i]) : x = <<i, n>>
      BY <1>3
    <3>1. PICK n \in 1 .. SizeOf(q[i]) : x = <<i, n>>
      BY <3>1a
    <3>2a. PICK j \in 2 .. Len(q) : \E m \in 1 .. SizeOf(q[j]) : y = <<j, m>>
      BY <1>3
    <3>2. PICK m \in 1 .. SizeOf(q[j]) : y = <<j, m>>
      BY <3>2a
    <3>3. <<i - 1, n>> = <<j - 1, m>>
      BY <2>2, <3>1, <3>2
    <3>4. i - 1 = j - 1 /\ n = m
      BY <3>3
    <3> QED
      BY <3>1, <3>2, <3>4
  <2>3. ASSUME NEW z \in QueuedBytes(t) PROVE \E x \in rest : g[x] = z
    <3>1a. PICK i \in 1 .. (Len(q) - 1) : \E n \in 1 .. SizeOf(q[i + 1]) : z = <<i, n>>
      BY <1>5, <2>3
    <3>1. PICK n \in 1 .. SizeOf(q[i + 1]) : z = <<i, n>>
      BY <3>1a
    <3>2. i + 1 \in 2 .. Len(q) /\ (i + 1) - 1 = i
      BY <1>1
    <3>3. <<i + 1, n>> \in rest
      BY <1>4, <3>2
    <3>4. g[<<i + 1, n>>] = <<i, n>>
      BY <3>2, <3>3
    <3> QED
      BY <3>1, <3>3, <3>4
  <2> HIDE DEF g
  <2>4. g \in Bijection(rest, QueuedBytes(t))
    BY <2>1, <2>2, <2>3 DEF Bijection, Injection, Surjection, IsInjective
  <2> QED
    BY <2>4 DEF ExistsBijection
<1>8. IsFiniteSet(rest)
  BY FS_Subset DEF rest
<1>9. IsFiniteSet(QueuedBytes(t)) /\ Cardinality(QueuedBytes(t)) = Cardinality(rest)
  BY <1>7, <1>8, FS_Bijection
<1>10. Cardinality(QueuedBytes(q)) = Cardinality(rest) + Cardinality(front)
  <2>1. QueuedBytes(q) = rest \cup front /\ rest \cap front = {}
    BY <1>2 DEF rest
  <2>2. Cardinality(rest \cup front) = Cardinality(rest) + Cardinality(front) - Cardinality(rest \cap front)
    BY <1>6, <1>8, FS_Union
  <2>3. Cardinality(rest \cap front) = 0
    BY <2>1, FS_EmptySet
  <2>4. Cardinality(rest) \in Nat
    BY <1>8, FS_CardinalityType
  <2> QED
    BY <1>6, <2>1, <2>2, <2>3, <2>4
<1>11. Cardinality(rest) \in Nat
  BY <1>8, FS_CardinalityType
<1> QED
  BY <1>6, <1>9, <1>10, <1>11 DEF t

-----------------------------------------------------------------------------
(* ---- what a session holds of the frames it accepted ---- *)

\* The byte count is that of the queue, and within its limit.
Counted(c) ==
  /\ IsFiniteSet(QueuedBytes(c.q))
  /\ c.bytes = Cardinality(QueuedBytes(c.q))
  /\ c.bytes <= MaxBytes

\* Written, queued and posted frames follow one another in the order of the sends.
Ordered(c) ==
  /\ Increasing(c.written) /\ Increasing(c.q) /\ Increasing(c.posted)
  /\ Before(Range(c.written), Range(c.q))
  /\ Before(Range(c.written), Frames(c.posted))
  /\ Before(Range(c.q), Frames(c.posted))

Known(c) == Range(c.written) \cup Range(c.q) \cup Frames(c.posted) \subseteq c.accepted

\* A frame that is owed is written, or nothing sent after it is, and while the
\* session is open it is still queued or posted.
Kept(c) ==
  \A f \in Owed(c) :
    \/ f \in Range(c.written)
    \/ /\ Before(Range(c.written), {f})
       /\ c.open => f \in Range(c.q) \cup Range(c.posted)

Flow(c) == Counted(c) /\ Ordered(c) /\ Known(c) /\ Kept(c)

LEMMA FrameSeqs == Seq(Frame) \subseteq Seq(Frame \cup {Close})
  OBVIOUS

LEMMA FrameInt == \A f \in Frame : f \in Int /\ f # Close
  BY FrameIsPositive DEF Close

LEMMA RangeOfFrames ==
  ASSUME NEW s \in Seq(Frame)
  PROVE  Range(s) \subseteq Frame /\ Frames(s) = Range(s)
<1>1. Range(s) \subseteq Frame
  BY DEF Range
<1> QED
  BY <1>1, FrameIsPositive DEF Frames

LEMMA FlowNew ==
  ASSUME NEW c, c.posted = <<>>, c.q = <<>>, c.written = <<>>, c.accepted = {}, c.bytes = 0
  PROVE  Flow(c)
<1>1. Range(<<>>) = {} /\ Frames(<<>>) = {} /\ DOMAIN <<>> = {}
  BY DEF Range, Frames
<1>2. QueuedBytes(c.q) = {} /\ MaxBytes \in Nat
  BY <1>1, ConstantsAssumption DEF QueuedBytes
<1>6. IsFiniteSet(QueuedBytes(c.q)) /\ Cardinality(QueuedBytes(c.q)) = 0
  BY <1>2, FS_EmptySet, Zenon
<1>3. Counted(c)
  BY <1>2, <1>6 DEF Counted
<1>4. Ordered(c)
  BY <1>1 DEF Ordered, Increasing, Before
<1>5. Known(c) /\ Kept(c)
  BY <1>1 DEF Known, Kept, Owed
<1> QED
  BY <1>3, <1>4, <1>5 DEF Flow

\* A step that moves no frame, and may close the socket.
LEMMA FlowSame ==
  ASSUME NEW c, NEW d, Flow(c),
         d.posted = c.posted, d.q = c.q, d.bytes = c.bytes,
         d.accepted = c.accepted, d.written = c.written, d.open => c.open
  PROVE  Flow(d)
  BY DEF Flow, Counted, Ordered, Known, Kept, Owed

\* A close is posted.
LEMMA FlowClose ==
  ASSUME NEW c \in SessionType, NEW d, Flow(c),
         d.posted = Append(c.posted, Close), d.q = c.q, d.bytes = c.bytes,
         d.accepted = c.accepted, d.written = c.written, d.open = c.open
  PROVE  Flow(d)
<1>1. c.posted \in Seq(Frame \cup {Close})
  BY DEF SessionType
<1>2. /\ Range(d.posted) = Range(c.posted) \cup {Close}
      /\ Increasing(c.posted) => Increasing(d.posted)
  BY <1>1, AppendFrames
<1>3. Frames(d.posted) = Frames(c.posted)
  BY <1>2 DEF Frames
<1> QED
  BY <1>2, <1>3 DEF Flow, Counted, Ordered, Known, Kept, Owed

\* A frame is accepted and posted, after every one that was accepted before.
LEMMA FlowAccept ==
  ASSUME NEW c \in SessionType, NEW d, NEW f \in Frame, Flow(c), Before(c.accepted, {f}),
         d.posted = Append(c.posted, f), d.q = c.q, d.bytes = c.bytes,
         d.accepted = c.accepted \cup {f}, d.written = c.written, d.open = c.open
  PROVE  Flow(d)
<1>1. c.posted \in Seq(Frame \cup {Close}) /\ f # Close
  BY FrameIsPositive DEF SessionType
<1>2. Known(c) /\ Ordered(c)
  BY DEF Flow
<1>3. Before(Range(c.written), {f}) /\ Before(Range(c.q), {f}) /\ Before(Frames(c.posted), {f})
  BY <1>2 DEF Before, Known
<1>4. Range(d.posted) = Range(c.posted) \cup {f} /\ Increasing(d.posted)
  BY <1>1, <1>2, <1>3, AppendFrames DEF Ordered
<1>5. Frames(d.posted) = Frames(c.posted) \cup {f}
  BY <1>1, <1>4 DEF Frames
<1>6. Ordered(d)
  BY <1>2, <1>3, <1>4, <1>5 DEF Ordered, Before
<1>7. Known(d)
  BY <1>2, <1>5 DEF Known
<1>8. Kept(d)
  BY <1>3, <1>4 DEF Kept, Owed, Flow
<1> QED
  BY <1>6, <1>7, <1>8 DEF Flow, Counted

\* A frame is accepted and ignored.
LEMMA FlowIgnored ==
  ASSUME NEW c, NEW d, NEW f \in Ignored, Flow(c),
         d.posted = c.posted, d.q = c.q, d.bytes = c.bytes,
         d.accepted = c.accepted \cup {f}, d.written = c.written, d.open = c.open
  PROVE  Flow(d)
<1>1. Owed(d) = Owed(c)
  BY DEF Owed
<1> QED
  BY <1>1 DEF Flow, Counted, Ordered, Known, Kept

\* The strand runs what was posted first, and keeps a frame or lets it go.
LEMMA FlowDropped ==
  ASSUME NEW c \in SessionType, NEW d, Flow(c), c.posted # <<>>,
         d.posted = Tail(c.posted), d.q = c.q, d.bytes = c.bytes,
         d.accepted = c.accepted, d.written = c.written,
         d.open => c.open /\ Head(c.posted) \in Lossy
  PROVE  Flow(d)
<1>1. c.posted \in Seq(Frame \cup {Close})
  BY DEF SessionType
<1>2. /\ Range(c.posted) = {Head(c.posted)} \cup Range(d.posted)
      /\ Increasing(c.posted) => Increasing(d.posted)
  BY <1>1, TailFrames
<1>3. Frames(d.posted) \subseteq Frames(c.posted)
  BY <1>2 DEF Frames
<1>4. Ordered(d)
  BY <1>2, <1>3 DEF Ordered, Before, Flow
<1>5. Known(d)
  BY <1>3 DEF Known, Flow
<1>6. Kept(d)
  BY <1>2 DEF Kept, Owed, Flow
<1> QED
  BY <1>4, <1>5, <1>6 DEF Flow, Counted

LEMMA FlowQueued ==
  ASSUME NEW c \in SessionType, NEW d, NEW f \in Frame, Flow(c), c.posted # <<>>,
         f = Head(c.posted), c.bytes + SizeOf(f) <= MaxBytes,
         d.posted = Tail(c.posted), d.q = Append(c.q, f), d.bytes = c.bytes + SizeOf(f),
         d.accepted = c.accepted, d.written = c.written, d.open = c.open
  PROVE  Flow(d)
<1>1. c.posted \in Seq(Frame \cup {Close}) /\ c.q \in Seq(Frame) /\ f # Close
  BY FrameIsPositive DEF SessionType
<1>2. /\ Range(c.posted) = {f} \cup Range(d.posted)
      /\ Increasing(c.posted) => Increasing(d.posted)
      /\ Increasing(c.posted) => Before({f}, Frames(d.posted))
  BY <1>1, TailFrames
<1>3. Frames(c.posted) = {f} \cup Frames(d.posted)
  BY <1>1, <1>2 DEF Frames
<1>4. Ordered(c) /\ Known(c) /\ Counted(c) /\ Kept(c)
  BY DEF Flow
<1>5. Before(Range(c.q), {f}) /\ Before(Range(c.written), {f})
  BY <1>3, <1>4 DEF Ordered, Before
<1>6. Frames(c.q) = Range(c.q)
  BY <1>1, RangeOfFrames
<1>7. /\ Range(d.q) = Range(c.q) \cup {f}
      /\ Increasing(c.q) /\ Before(Range(c.q), {f}) => Increasing(d.q)
  <2>1. c.q \in Seq(Frame \cup {Close}) /\ f \in Frame \cup {Close}
    BY <1>1, FrameSeqs
  <2>2. /\ Range(Append(c.q, f)) = Range(c.q) \cup {f}
        /\ Increasing(c.q) /\ (f # Close => Before(Frames(c.q), {f})) => Increasing(Append(c.q, f))
    BY <2>1, AppendFrames, Zenon
  <2> QED BY <1>6, <2>2
<1>8. Ordered(d)
  <2>1. Increasing(d.written) /\ Increasing(d.q) /\ Increasing(d.posted)
    BY <1>2, <1>4, <1>5, <1>7 DEF Ordered
  <2>2. Before(Range(d.written), Range(d.q)) /\ Before(Range(d.written), Frames(d.posted))
    BY <1>3, <1>4, <1>5, <1>7 DEF Ordered, Before
  <2>3. Before(Range(d.q), Frames(d.posted))
    BY <1>2, <1>3, <1>4, <1>7 DEF Ordered, Before
  <2> QED
    BY <2>1, <2>2, <2>3 DEF Ordered
<1>9. Known(d)
  BY <1>3, <1>4, <1>7 DEF Known
<1>10. Kept(d)
  BY <1>2, <1>4, <1>7 DEF Kept, Owed
<1>11. Counted(d)
  BY <1>1, <1>4, AppendBytes DEF Counted
<1> QED
  BY <1>8, <1>9, <1>10, <1>11 DEF Flow

\* The front of the queue is written.
LEMMA FlowWritten ==
  ASSUME NEW c \in SessionType, NEW d, Flow(c), c.q # <<>>, c.open,
         d.posted = c.posted, d.q = Tail(c.q), d.bytes = c.bytes - SizeOf(Head(c.q)),
         d.accepted = c.accepted, d.written = Append(c.written, Head(c.q)), d.open = c.open
  PROVE  Flow(d)
<1> DEFINE h == Head(c.q)
<1>1. c.q \in Seq(Frame) /\ c.written \in Seq(Frame) /\ c.posted \in Seq(Frame \cup {Close})
  BY DEF SessionType
<1>2. h \in Frame /\ d.q \in Seq(Frame)
  BY <1>1, Popped
<1>3. h # Close /\ h \in Int
  BY <1>2, FrameInt
<1>4. Frames(d.q) = Range(d.q) /\ Frames(c.written) = Range(c.written)
  BY <1>1, <1>2, RangeOfFrames
<1>5. /\ Range(c.q) = {h} \cup Range(d.q)
      /\ Increasing(c.q) => Increasing(d.q) /\ Before({h}, Range(d.q))
  BY <1>1, <1>3, <1>4, FrameSeqs, TailFrames
<1>6. Ordered(c) /\ Known(c) /\ Counted(c) /\ Kept(c)
  BY DEF Flow
<1>7. Before(Range(c.written), {h}) /\ Before({h}, Frames(c.posted))
  BY <1>5, <1>6 DEF Ordered, Before
<1>8. Range(d.written) = Range(c.written) \cup {h} /\ Increasing(d.written)
  BY <1>1, <1>2, <1>4, <1>6, <1>7, FrameSeqs, AppendFrames DEF Ordered
<1>9. Ordered(d)
  <2>1. Before(Range(d.written), Range(d.q)) /\ Before(Range(d.written), Frames(d.posted))
    BY <1>5, <1>6, <1>7, <1>8 DEF Ordered, Before
  <2>2. Before(Range(d.q), Frames(d.posted))
    BY <1>5, <1>6 DEF Ordered, Before
  <2> QED
    BY <1>5, <1>6, <1>8, <2>1, <2>2 DEF Ordered
<1>10. Known(d)
  BY <1>5, <1>6, <1>8 DEF Known
<1>11. Kept(d)
  <2> SUFFICES ASSUME NEW f \in Owed(c), f \notin Range(d.written)
               PROVE  Before(Range(d.written), {f}) /\ f \in Range(d.q) \cup Range(d.posted)
    BY DEF Kept, Owed
  <2>1. f \notin Range(c.written) /\ f # h
    BY <1>8
  <2>2. Before(Range(c.written), {f}) /\ f \in Range(d.q) \cup Range(c.posted)
    BY <1>5, <1>6, <2>1 DEF Kept
  <2>3. f # Close
    <3> f \in Frame
      BY DEF SessionType, Owed
    <3> QED
      BY FrameInt
  <2>4. Before({h}, {f})
    BY <1>5, <1>6, <1>7, <2>2, <2>3 DEF Ordered, Before, Frames
  <2> QED
    BY <1>8, <2>2, <2>4 DEF Before
<1>12. Counted(d)
  <2>1. SizeOf(h) \in Nat /\ c.bytes \in Int /\ MaxBytes \in Nat
    BY <1>2, SizeIsNat, ConstantsAssumption DEF SessionType
  <2> QED
    BY <1>1, <1>6, <2>1, TailBytes DEF Counted
<1> QED
  BY <1>9, <1>10, <1>11, <1>12 DEF Flow

-----------------------------------------------------------------------------
(* ---- every session, in every step ---- *)

\* Every session keeps its frames, none ahead of the last send, and the backoff
\* stays between its bounds.
Flowing ==
  /\ \A k \in Serial : Flow(conn[k])
  /\ \A k \in Serial : \A f \in conn[k].accepted : f <= sent
  /\ sent \in 0 .. Len(BodyOf)
  /\ client.backoff \in Delay .. MaxDelay

\* A step that replaces one session, which accepts nothing, and sends nothing.
LEMMA FlowSet ==
  ASSUME Typed, Flowing, NEW k \in Serial, NEW e, Flow(e), e.accepted = conn[k].accepted,
         conn' = [conn EXCEPT ![k] = e], sent' = sent, client'.backoff \in Delay .. MaxDelay
  PROVE  Flowing'
<1>1. conn'[k] = e /\ \A l \in Serial : l # k => conn'[l] = conn[l]
  BY DEF Typed
<1>2. \A l \in Serial : Flow(conn'[l])
  BY <1>1 DEF Flowing
<1>3. \A l \in Serial : conn'[l].accepted = conn[l].accepted
  BY <1>1
<1>4. \A l \in Serial : \A f \in conn'[l].accepted : f <= sent'
  BY <1>3 DEF Flowing
<1> QED
  BY <1>2, <1>4 DEF Flowing

LEMMA StrandFlows ==
  ASSUME NEW c \in SessionType, Flow(c), c.posted # <<>>,
         NEW f, f = Head(c.posted), NEW d, d = [c EXCEPT !.posted = Tail(@)]
  PROVE  LET e == CASE f = Close -> [d EXCEPT !.open = FALSE]
                    [] f # Close /\ Overflows(d, f) -> Overflowed(d, f)
                    [] OTHER -> Enqueued(d, f)
         IN  Flow(e) /\ e.accepted = c.accepted
<1>1. f \in Frame \cup {Close} /\ Tail(c.posted) \in Seq(Frame \cup {Close})
  BY Popped DEF SessionType
<1>2. /\ d \in SessionType /\ d.posted = Tail(c.posted) /\ d.q = c.q /\ d.bytes = c.bytes
      /\ d.accepted = c.accepted /\ d.written = c.written /\ d.open = c.open
  BY <1>1 DEF SessionType
<1> HIDE DEF Flow
<1>3. Flow([d EXCEPT !.open = FALSE]) /\ [d EXCEPT !.open = FALSE].accepted = c.accepted
  <2> DEFINE e == [d EXCEPT !.open = FALSE]
  <2>1. /\ e.posted = Tail(c.posted) /\ e.q = c.q /\ e.bytes = c.bytes
        /\ e.accepted = c.accepted /\ e.written = c.written /\ e.open = FALSE
    BY <1>2 DEF SessionType
  <2> HIDE DEF e
  <2>2. Flow(e)
    BY <2>1, FlowDropped
  <2> QED
    BY <2>1, <2>2 DEF e
<1>4. Flow(Overflowed(d, f)) /\ Overflowed(d, f).accepted = c.accepted
  <2>1. CASE f \in Lossy
    <3>1. Flow(d)
      BY <1>2, <2>1, FlowDropped
    <3> QED
      BY <1>2, <2>1, <3>1 DEF Overflowed
  <2>2. CASE f \notin Lossy
    BY <1>3, <2>2 DEF Overflowed
  <2> QED
    BY <2>1, <2>2
<1>5. ASSUME f # Close, ~Overflows(d, f)
      PROVE  Flow(Enqueued(d, f)) /\ Enqueued(d, f).accepted = c.accepted
  <2> DEFINE e == Enqueued(d, f)
  <2>1. f \in Frame /\ SizeOf(f) \in Nat
    BY <1>1, <1>5, SizeIsNat
  <2>2. c.bytes + SizeOf(f) <= MaxBytes
    <3> c.bytes \in Int /\ MaxBytes \in Nat
      BY ConstantsAssumption DEF SessionType
    <3> QED
      BY <1>2, <1>5, <2>1 DEF Overflows
  <2>3. /\ e.posted = Tail(c.posted) /\ e.q = Append(c.q, f) /\ e.bytes = c.bytes + SizeOf(f)
        /\ e.accepted = c.accepted /\ e.written = c.written /\ e.open = c.open
    BY <1>2 DEF Enqueued, SessionType
  <2> HIDE DEF e
  <2>4. Flow(e)
    BY <2>1, <2>2, <2>3, FlowQueued
  <2> QED
    BY <2>3, <2>4 DEF e
<1> QED
  BY <1>3, <1>4, <1>5

LEMMA SessionFlows ==
  ASSUME Typed, AllWritten, Flowing, NEW k \in Serial, Session(k)
  PROVE  \E e : Flow(e) /\ e.accepted = conn[k].accepted /\ conn' = [conn EXCEPT ![k] = e]
<1> DEFINE c == conn[k]
<1>1. c \in SessionType /\ Written(c) /\ Flow(c)
  BY DEF Typed, AllWritten, Flowing
<1>2. CASE SessionStart(k) \/ SessionEnds(k)
  <2>1. PICK life : conn' = [conn EXCEPT ![k] = [c EXCEPT !.life = life]]
    BY <1>2 DEF SessionStart, SessionEnds
  <2> DEFINE e == [c EXCEPT !.life = life]
  <2>2. /\ e.posted = c.posted /\ e.q = c.q /\ e.bytes = c.bytes
        /\ e.accepted = c.accepted /\ e.written = c.written /\ e.open = c.open
    BY <1>1 DEF SessionType
  <2>3. conn' = [conn EXCEPT ![k] = e]
    BY <2>1
  <2> HIDE DEF e
  <2> QED
    BY <1>1, <2>2, <2>3, FlowSame
<1>3. CASE ReadFails(k)
  <2> DEFINE e == [c EXCEPT !.life = "ending", !.posted = Append(c.posted, Close)]
  <2>1. conn' = [conn EXCEPT ![k] = e]
    BY <1>1, <1>3 DEF ReadFails, Typed, SessionType
  <2>2. /\ e.posted = Append(c.posted, Close) /\ e.q = c.q /\ e.bytes = c.bytes
        /\ e.accepted = c.accepted /\ e.written = c.written /\ e.open = c.open
    BY <1>1 DEF SessionType
  <2> HIDE DEF e
  <2> QED
    BY <1>1, <2>1, <2>2, FlowClose
<1>5. CASE Strand(k)
  BY <1>1, <1>5, StrandFlows DEF Strand
<1>6. CASE Write(k)
  <2>1. c.writers = 1 /\ c.q # <<>> /\ c.open
    BY <1>1, <1>6 DEF Write, SessionType, Written
  <2> DEFINE w == IF Len(c.q) = 1 THEN c.writers - 1 ELSE c.writers
             e == [c EXCEPT !.written = Append(c.written, Head(c.q)),
                            !.bytes = c.bytes - SizeOf(Head(c.q)),
                            !.q = Tail(c.q), !.writers = w]
  <2>4. conn' = [conn EXCEPT ![k] = e]
    BY <1>1, <1>6 DEF Write, Typed, SessionType
  <2>5. /\ e.posted = c.posted /\ e.q = Tail(c.q) /\ e.bytes = c.bytes - SizeOf(Head(c.q))
        /\ e.accepted = c.accepted /\ e.written = Append(c.written, Head(c.q)) /\ e.open = c.open
    BY <1>1 DEF SessionType
  <2> HIDE DEF e, w
  <2> QED
    BY <1>1, <2>1, <2>4, <2>5, FlowWritten
<1>7. CASE WriteFails(k)
  <2> DEFINE e == [c EXCEPT !.open = FALSE, !.writers = @ - 1]
  <2>2. conn' = [conn EXCEPT ![k] = e]
    BY <1>7 DEF WriteFails
  <2>3. /\ e.posted = c.posted /\ e.q = c.q /\ e.bytes = c.bytes
        /\ e.accepted = c.accepted /\ e.written = c.written /\ e.open = FALSE
    BY <1>1 DEF SessionType
  <2> HIDE DEF e
  <2> QED
    BY <1>1, <2>2, <2>3, FlowSame
<1> QED
  BY <1>2, <1>3, <1>5, <1>6, <1>7 DEF Session

LEMMA BackoffBounded ==
  ASSUME Typed, Flowing
  PROVE  BackedOff.backoff \in Delay .. MaxDelay
<1>1. client \in ClientType /\ client.backoff \in Delay .. MaxDelay
  BY DEF Typed, Flowing
<1>2. Delay \in Nat /\ MaxDelay \in Nat /\ Delay <= MaxDelay
  BY ConstantsAssumption
<1>3. Grown(client.backoff) \in Delay .. MaxDelay
  BY <1>1, <1>2 DEF Grown
<1> QED
  BY <1>1, <1>3 DEF BackedOff, ClientType

LEMMA FlowingInit == Init => Flowing
<1> SUFFICES ASSUME Init PROVE Flowing
  OBVIOUS
<1>1. Flow(NoSession) /\ NoSession.accepted = {}
  BY FlowNew DEF NoSession
<1>2. \A k \in Serial : conn[k] = NoSession
  BY DEF Init
<1>3. sent \in 0 .. Len(BodyOf) /\ client.backoff \in Delay .. MaxDelay
  BY ConstantsAssumption, FrameIsPositive DEF Init
<1> QED
  BY <1>1, <1>2, <1>3 DEF Flowing

LEMMA FlowingNext == Typed /\ AllWritten /\ Flowing /\ [Next]_vars => Flowing'
<1> SUFFICES ASSUME Typed, AllWritten, Flowing, [Next]_vars PROVE Flowing'
  OBVIOUS
<1> USE DEF Close
<1>1. client \in ClientType /\ client.backoff \in Delay .. MaxDelay
  BY DEF Typed, Flowing
<1>2. Delay \in Nat /\ MaxDelay \in Nat /\ Delay <= MaxDelay
  BY ConstantsAssumption
<1>3. CASE \/ Start \/ WaitBegins \/ WaitEnds
           \/ ConnectBegins \/ ResolveBegins \/ Resolved \/ ConnectFails
  <2>1. UNCHANGED <<conn, sent>>
    BY <1>3 DEF Start, WaitBegins, WaitEnds, ConnectBegins, ResolveBegins, Resolved, ConnectFails
  <2>2. client'.backoff \in Delay .. MaxDelay
    <3>1. CASE Start
      BY <1>1, <1>2, <3>1 DEF Start, ClientType
    <3>2. CASE WaitEnds
      BY <1>1, <3>2 DEF WaitEnds, ClientType
    <3>3. CASE ConnectFails
      BY <3>3, BackoffBounded DEF ConnectFails
    <3>4. CASE WaitBegins
      BY <1>1, <3>4 DEF WaitBegins, ClientType
    <3> QED
      BY <1>1, <1>3, <3>1, <3>2, <3>3, <3>4 DEF ConnectBegins, ResolveBegins, Resolved
  <2> QED
    BY <2>1, <2>2 DEF Flowing
<1>4. CASE Stop \/ CloseLine
  <2>1. client'.backoff = client.backoff /\ sent' = sent
    BY <1>1, <1>4 DEF Stop, CloseLine, ClientType
  <2>2. CASE conn' = conn
    BY <1>1, <2>1, <2>2 DEF Flowing
  <2>3. CASE conn' # conn
    <3> DEFINE e == [conn[current] EXCEPT !.posted = Append(@, Close)]
               c == conn[current]
    <3>1. current \in Serial /\ conn' = [conn EXCEPT ![current] = e]
      BY <1>4, <2>3 DEF Stop, CloseLine, Typed
    <3>2. c \in SessionType /\ Flow(c)
      BY <3>1 DEF Typed, Flowing
    <3>3. /\ e.posted = Append(c.posted, Close) /\ e.q = c.q /\ e.bytes = c.bytes
          /\ e.accepted = c.accepted /\ e.written = c.written /\ e.open = c.open
      BY <3>2 DEF SessionType
    <3> HIDE DEF e
    <3>4. Flow(e)
      BY <3>2, <3>3, FlowClose
    <3> QED
      BY <1>1, <2>1, <3>1, <3>3, <3>4, FlowSet
  <2> QED
    BY <2>2, <2>3
<1>5. CASE Connected
  <2> DEFINE e == [NoSession EXCEPT !.life = "new", !.open = TRUE]
  <2>1. /\ serial + 1 \in Serial /\ conn' = [conn EXCEPT ![serial + 1] = e]
        /\ sent' = sent
    BY <1>5, BoundIsNat DEF Connected, Typed, Serial
  <2>2. e.posted = <<>> /\ e.q = <<>> /\ e.written = <<>> /\ e.accepted = {} /\ e.bytes = 0
    BY DEF NoSession
  <2> HIDE DEF e
  <2>3. Flow(e)
    BY <2>2, FlowNew
  <2>4. conn'[serial + 1] = e /\ \A l \in Serial : l # serial + 1 => conn'[l] = conn[l]
    BY <2>1 DEF Typed
  <2>5. \A l \in Serial : Flow(conn'[l])
    BY <2>3, <2>4 DEF Flowing
  <2>6. \A l \in Serial : \A f \in conn'[l].accepted : f <= sent'
    BY <2>1, <2>2, <2>4 DEF Flowing
  <2>7. client'.backoff \in Delay .. MaxDelay
    BY <1>1, <1>2, <1>5 DEF Connected, ClientType
  <2> QED
    BY <2>1, <2>5, <2>6, <2>7 DEF Flowing
<1>6. ASSUME NEW k \in Serial, Session(k) PROVE Flowing'
  <2>1. PICK e : Flow(e) /\ e.accepted = conn[k].accepted /\ conn' = [conn EXCEPT ![k] = e]
    BY <1>6, SessionFlows
  <2>2. sent' = sent
    BY <1>6 DEF Session, SessionStart, ReadFails, SessionEnds, Strand, Write, WriteFails
  <2>3. client'.backoff \in Delay .. MaxDelay
    <3>1. CASE SessionEnds(k)
      BY <3>1, BackoffBounded DEF SessionEnds
    <3>2. CASE ~SessionEnds(k)
      BY <1>1, <1>6, <3>2 DEF Session, SessionStart, ReadFails, Strand, Write, WriteFails
    <3> QED
      BY <3>1, <3>2
  <2> QED
    BY <2>1, <2>2, <2>3, FlowSet
<1>7. CASE Send
  <2>1. PICK f \in Frame :
          /\ f > sent /\ sent' = f
          /\ conn' = [conn EXCEPT ![current].posted = IF f \in Ignored THEN @ ELSE Append(@, f),
                                  ![current].accepted = @ \cup {f}]
    BY <1>7 DEF Send
  <2>2. current \in Serial /\ client' = client
    BY <1>7 DEF Send, Typed
  <2> DEFINE c == conn[current]
             x == IF f \in Ignored THEN c.posted ELSE Append(c.posted, f)
             e == [c EXCEPT !.posted = x, !.accepted = c.accepted \cup {f}]
  <2>3. c \in SessionType /\ Flow(c)
    BY <2>2 DEF Typed, Flowing
  <2>4. conn' = [conn EXCEPT ![current] = e]
    BY <2>1, <2>2, <2>3 DEF Typed, SessionType
  <2>5. /\ e.posted = x /\ e.q = c.q /\ e.bytes = c.bytes
        /\ e.accepted = c.accepted \cup {f} /\ e.written = c.written /\ e.open = c.open
    BY <2>3 DEF SessionType
  <2>6. \A l \in Serial : conn[l].accepted \subseteq Frame
    BY DEF Typed, SessionType
  <2>7. f \in 1 .. Len(BodyOf) /\ Len(BodyOf) \in Nat /\ sent \in Int /\ Frame \subseteq Int
    BY FrameIsPositive DEF Flowing
  <2>8. \A l \in Serial : \A g \in conn[l].accepted : g < f
    BY <2>1, <2>6, <2>7 DEF Flowing
  <2>9. Before(c.accepted, {f})
    BY <2>2, <2>8 DEF Before
  <2> HIDE DEF e
  <2>10. Flow(e)
    <3>1. CASE f \in Ignored
      BY <2>3, <2>5, <3>1, FlowIgnored
    <3>2. CASE f \notin Ignored
      BY <2>3, <2>5, <2>9, <3>2, FlowAccept
    <3> QED
      BY <3>1, <3>2
  <2>11. conn'[current] = e /\ \A l \in Serial : l # current => conn'[l] = conn[l]
    BY <2>2, <2>4 DEF Typed
  <2>12. \A l \in Serial : Flow(conn'[l])
    BY <2>10, <2>11 DEF Flowing
  <2>13. \A l \in Serial : conn'[l].accepted \subseteq conn[l].accepted \cup {f}
    BY <2>5, <2>11
  <2>14. \A l \in Serial : \A g \in conn'[l].accepted : g <= sent'
    BY <2>1, <2>6, <2>7, <2>8, <2>13
  <2>15. sent' \in 0 .. Len(BodyOf)
    BY <2>1, <2>7
  <2>16. client'.backoff \in Delay .. MaxDelay
    BY <1>1, <2>2
  <2> QED
    BY <2>12, <2>14, <2>15, <2>16 DEF Flowing
<1>8. CASE UNCHANGED vars
  BY <1>8 DEF vars, Flowing
<1> QED
  BY <1>3, <1>4, <1>5, <1>6, <1>7, <1>8 DEF Next

LEMMA FlowingAlways == Spec => []Flowing
  BY FlowingInit, FlowingNext, TypedAlways, PTL DEF Spec

\* The line keeps its types: send_queue_bytes_ is the size of what is queued and
\* within its limit through every enqueue, overflow and write, and the reconnect
\* delay stays between reconnect_delay_ms_ and reconnect_delay_max_ms_.
THEOREM TypeCorrect == Spec => []TypeOK
<1>1. Typed /\ AllWritten /\ Flowing => TypeOK
  <2> SUFFICES ASSUME Typed, Flowing PROVE TypeOK
    OBVIOUS
  <2>1. \A k \in Serial : conn[k] \in SessionType /\ Counted(conn[k])
    BY DEF Typed, Flowing, Flow
  <2>2. \A k \in Serial : conn[k].bytes \in 0 .. MaxBytes
    <3> SUFFICES ASSUME NEW k \in Serial PROVE conn[k].bytes \in 0 .. MaxBytes
      OBVIOUS
    <3>1. conn[k].bytes \in Nat /\ conn[k].bytes <= MaxBytes /\ MaxBytes \in Nat
      BY <2>1, FS_CardinalityType, ConstantsAssumption DEF Counted
    <3> QED
      BY <3>1
  <2>3. conn \in [Serial -> [life : {"none", "new", "up", "ending", "ended"}, open : BOOLEAN,
                             posted : Seq(Frame \cup {Close}), q : Seq(Frame), bytes : 0 .. MaxBytes,
                             writers : Nat, accepted : SUBSET Frame, written : Seq(Frame)]]
    BY <2>1, <2>2 DEF Typed, SessionType, Lives
  <2>4. \A k \in Serial : BytesCounted(conn[k])
    BY <2>1 DEF BytesCounted, Counted
  <2>5. client \in [started : BOOLEAN, manualStop : BOOLEAN, pending : BOOLEAN, backoff : Delay .. MaxDelay]
    BY DEF Typed, Flowing, ClientType
  <2>6. current \in 0 .. MaxSerial
    BY BoundIsNat DEF Typed, Serial
  <2> QED
    BY <2>3, <2>4, <2>5, <2>6, Zenon DEF Typed, Flowing, TypeOK, LoopsType
<1> QED
  BY <1>1, TypedAlways, FlowingAlways, PTL

\* What a session writes is in the order of the sends, and of the reliable frames
\* Send answered true for none is left out before one that is written, except
\* those whose 16-bit size async_send ignores: an overflow closes the socket
\* before any later frame can be queued, and a failed write ends the writes.
THEOREM NoGapAlways == Spec => []NoGap
<1>1. Typed /\ AllWritten /\ Flowing => NoGap
  <2> SUFFICES ASSUME Typed, Flowing, NEW k \in Serial
               PROVE  LET w == conn[k].written
                      IN  /\ \A i, j \in DOMAIN w : i < j => w[i] < w[j]
                          /\ \A i \in DOMAIN w : \A f \in Owed(conn[k]) :
                               f < w[i] => f \in Range(w)
    BY DEF NoGap
  <2> DEFINE c == conn[k]
             w == c.written
  <2>1. c \in SessionType /\ Ordered(c) /\ Kept(c)
    BY DEF Typed, Flowing, Flow
  <2>2. w \in Seq(Frame) /\ c.accepted \subseteq Frame
    BY <2>1 DEF SessionType
  <2>3. \A i \in DOMAIN w : w[i] \in Range(w) /\ w[i] \in Frame
    BY <2>2 DEF Range
  <2>4. \A i \in DOMAIN w : w[i] # Close /\ w[i] \in Int
    BY <2>3, FrameInt
  <2>5. \A i, j \in DOMAIN w : i < j => w[i] < w[j]
    BY <2>1, <2>4 DEF Ordered, Increasing
  <2>6. ASSUME NEW i \in DOMAIN w, NEW f \in Owed(c), f < w[i], f \notin Range(w)
        PROVE  FALSE
    <3>1. w[i] < f
      BY <2>1, <2>3, <2>6 DEF Kept, Before
    <3>2. f \in Int
      BY <2>2, FrameInt DEF Owed
    <3> QED
      BY <2>4, <2>6, <3>1, <3>2
  <2> QED
    BY <2>5, <2>6
<1> QED
  BY <1>1, TypedAlways, FlowingAlways, PTL

-----------------------------------------------------------------------------
(* ---- a line that is not stopped is never left alone ---- *)

\* A client that is not stopped has its piece of work; the flag that keeps
\* schedule_reconnect_ from waiting twice is only up while something waits;
\* session_ names a session that lives, and while the client is not stopped the
\* only one.
Driven ==
  /\ ~Halted => Work = 1
  /\ ~Halted /\ client.pending => loops.waiting > 0
  /\ current # 0 => current \in Live
  /\ ~Halted => \A k \in Live : k = current

\* Where one coroutine connects or none is there, none waits.
LEMMA NoneWaits ==
  ASSUME NEW l \in LoopsType
  PROVE  /\ CountOf(l) = 0 => l.waiting = 0
         /\ CountOf(l) = 1 /\ (l.resolving > 0 \/ l.connecting > 0) => l.waiting = 0
<1>1. /\ l.spawned \in Nat /\ l.tested \in Nat /\ l.resolving \in Nat
      /\ l.connecting \in Nat /\ l.failed \in Nat /\ l.waiting \in Nat
  BY DEF LoopsType
<1>2. \A a, b, c, d, e, w \in Nat :
        /\ a + b + c + d + e + w = 0 => w = 0
        /\ a + b + c + d + e + w = 1 /\ (c > 0 \/ d > 0) => w = 0
  OBVIOUS
<1> DEFINE a == l.spawned
           b == l.tested
           c == l.resolving
           d == l.connecting
           e == l.failed
           w == l.waiting
<1>3. CountOf(l) = a + b + c + d + e + w
  BY DEF CountOf
<1> HIDE DEF a, b, c, d, e, w
<1>4. a \in Nat /\ b \in Nat /\ c \in Nat /\ d \in Nat /\ e \in Nat /\ w \in Nat
  BY <1>1 DEF a, b, c, d, e, w
<1>5. /\ CountOf(l) = 0 => w = 0
      /\ CountOf(l) = 1 /\ (c > 0 \/ d > 0) => w = 0
  BY <1>2, <1>3, <1>4
<1> QED
  BY <1>5 DEF c, d, w

\* Where a coroutine is at work there is no session.
LEMMA AloneAtWork ==
  ASSUME Typed, Single, Coroutines > 0
  PROVE  Live = {} /\ Coroutines = 1
<1>1. Cardinality(Live) \in Nat /\ IsFiniteSet(Live) /\ Coroutines \in Nat
  BY LiveFinite DEF Typed, Coroutines, CountOf, LoopsType
<1>2. Cardinality(Live) = 0 /\ Coroutines = 1
  BY <1>1 DEF Single, Work
<1> QED
  BY <1>1, <1>2, FS_EmptySet

\* Where a session lives no coroutine is at work.
LEMMA AloneWithSession ==
  ASSUME Typed, Single, NEW k \in Live
  PROVE  Live = {k} /\ Coroutines = 0
<1>1. Cardinality(Live) \in Nat /\ IsFiniteSet(Live) /\ Coroutines \in Nat
  BY LiveFinite DEF Typed, Coroutines, CountOf, LoopsType
<1>2. Live # {}
  OBVIOUS
<1>3. Cardinality(Live) # 0
  BY <1>1, <1>2, FS_EmptySet
<1>4. Cardinality(Live) = 1 /\ Coroutines = 0
  BY <1>1, <1>3 DEF Single, Work
<1> QED
  BY <1>1, <1>4, FS_Singleton

\* Nothing lives and one coroutine is at work, or the other way round.
LEMMA OneOrTheOther ==
  ASSUME NEW L, NEW n, (L = {} /\ n = 1) \/ (n = 0 /\ \E k : L = {k})
  PROVE  Cardinality(L) + n = 1
<1>1. Cardinality({}) = 0 /\ \A k : Cardinality({k}) = 1
  BY FS_EmptySet, FS_Singleton
<1>2. CASE L = {} /\ n = 1
  BY <1>1, <1>2
<1>3. CASE n = 0 /\ \E k : L = {k}
  BY <1>1, <1>3
<1> QED
  BY <1>2, <1>3

\* A retry is scheduled exactly when the client is not stopped and none waits yet.
LEMMA RetryScheduled ==
  ASSUME client \in ClientType, NEW l \in LoopsType, ~Halted, ~client.pending
  PROVE  CountOf(Fails(l)) = CountOf(l) + 1
  BY DEF Fails, Schedules, LoopsType, CountOf

LEMMA StoppedKept ==
  ASSUME client'.started = client.started, client'.manualStop = client.manualStop
  PROVE  Halted' = Halted
  BY DEF Halted

\* A step that leaves the client, its coroutines and the lives of the sessions.
LEMMA DrivenKept ==
  ASSUME Driven, Live' = Live, loops' = loops, client' = client, current' = current
  PROVE  Driven'
<1>1. Work' = Work
  BY DEF Work, Coroutines, CountOf
<1> QED
  BY <1>1 DEF Driven, Halted

LEMMA DrivenClient ==
  ASSUME Typed, Single, Driven,
         \/ Start \/ Stop \/ WaitBegins \/ WaitEnds
         \/ ConnectBegins \/ ResolveBegins \/ Resolved \/ ConnectFails \/ Connected
  PROVE  Driven'
<1>1. loops \in LoopsType /\ client \in ClientType /\ Coroutines \in Nat
  BY DEF Typed, LoopsType, Coroutines, CountOf
<1>2. CASE Start
  <2>1. /\ ~client'.pending /\ UNCHANGED <<current, conn>> /\ Work = 0
        /\ loops' = [loops EXCEPT !.spawned = @ + 1]
    BY <1>1, <1>2 DEF Start, Single, ClientType
  <2>2. Cardinality(Live) \in Nat /\ IsFiniteSet(Live)
    BY LiveFinite
  <2>3. Cardinality(Live) = 0 /\ Coroutines = 0
    BY <1>1, <2>1, <2>2 DEF Work
  <2>4. Live = {} /\ Live' = Live
    BY <2>1, <2>2, <2>3, FS_EmptySet DEF Live
  <2>5. Coroutines' = 1
    BY <1>1, <2>1, <2>3 DEF Coroutines, CountOf, LoopsType
  <2>6. Work' = 1
    BY <2>4, <2>5, OneOrTheOther DEF Work
  <2> QED
    BY <2>1, <2>4, <2>6 DEF Driven
<1>3. CASE Stop
  <2>1. Halted' /\ current' = 0
    BY <1>1, <1>3 DEF Stop, Halted, ClientType
  <2> QED
    BY <2>1 DEF Driven
<1>4. CASE WaitBegins \/ WaitEnds \/ ConnectBegins \/ ResolveBegins \/ Resolved
  <2>1. UNCHANGED <<conn, current>> /\ Live' = Live
    BY <1>4 DEF WaitBegins, WaitEnds, ConnectBegins, ResolveBegins, Resolved, Live
  <2>2. Halted' = Halted
    <3>1. client'.started = client.started /\ client'.manualStop = client.manualStop
      BY <1>1, <1>4 DEF WaitBegins, WaitEnds, ConnectBegins, ResolveBegins, Resolved, ClientType
    <3> QED
      BY <3>1, StoppedKept
  <2>3. ~Halted => Coroutines' = Coroutines
    <3>1. CASE WaitEnds
      BY <1>1, <3>1 DEF WaitEnds, Coroutines, CountOf, LoopsType
    <3>2. CASE ConnectBegins
      BY <1>1, <3>2 DEF ConnectBegins, Coroutines, CountOf, LoopsType
    <3>3. CASE Resolved
      BY <1>1, <3>3 DEF Resolved, Coroutines, CountOf, LoopsType
    <3>4. CASE WaitBegins
      BY <1>1, <3>4 DEF WaitBegins, Coroutines, CountOf, LoopsType
    <3>5. CASE ResolveBegins
      BY <1>1, <3>5 DEF ResolveBegins, Coroutines, CountOf, LoopsType
    <3> QED
      BY <1>4, <3>1, <3>2, <3>3, <3>4, <3>5
  <2>4. ~Halted => Work' = Work
    BY <2>1, <2>3 DEF Work
  <2>5. ~Halted' /\ client'.pending => loops'.waiting > 0
    <3>1. CASE WaitEnds
      BY <1>1, <3>1 DEF WaitEnds, ClientType
    <3>2. CASE WaitBegins
      BY <1>1, <3>2 DEF WaitBegins, LoopsType
    <3>3. CASE ConnectBegins \/ ResolveBegins \/ Resolved
      BY <1>1, <2>2, <3>3 DEF ConnectBegins, ResolveBegins, Resolved, Driven, LoopsType
    <3> QED
      BY <1>4, <3>1, <3>2, <3>3
  <2> QED
    BY <2>1, <2>2, <2>4, <2>5 DEF Driven
<1>5. CASE ConnectFails
  <2>1. PICK step \in {"resolving", "connecting"} :
          loops[step] > 0 /\ loops' = Fails([loops EXCEPT ![step] = @ - 1])
    BY <1>5 DEF ConnectFails
  <2> DEFINE l == [loops EXCEPT ![step] = @ - 1]
  <2>2. Coroutines > 0
    BY <1>1, <2>1 DEF Coroutines, CountOf, LoopsType
  <2>3. Live = {} /\ Coroutines = 1
    BY <2>2, AloneAtWork
  <2>4. l \in LoopsType /\ loops.waiting = 0 /\ CountOf(l) = 0
    <3>1. /\ l \in LoopsType
          /\ CountOf(l) = Coroutines - 1
      BY <1>1, <2>1 DEF LoopsType, Coroutines, CountOf
    <3>2. loops.waiting = 0
      BY <1>1, <2>1, <2>3, NoneWaits DEF Coroutines
    <3> HIDE DEF l
    <3> QED
      BY <2>3, <3>1, <3>2
  <2>5. Live' = Live /\ current' = 0
    BY <1>5 DEF ConnectFails, Live
  <2>8. /\ client'.started = client.started /\ client'.manualStop = client.manualStop
        /\ client'.pending = client.pending
    BY <1>1, <1>5 DEF ConnectFails, BackedOff, ClientType
  <2>6. Halted' = Halted
    BY <2>8, StoppedKept
  <2>7. ASSUME ~Halted PROVE Work' = 1 /\ ~client'.pending
    <3>1. ~client.pending
      BY <2>4, <2>7 DEF Driven
    <3>2. loops' = Fails(l)
      BY <2>1
    <3> HIDE DEF l
    <3>3. CountOf(Fails(l)) = 1
      BY <1>1, <2>4, <2>7, <3>1, RetryScheduled
    <3>4. Coroutines' = 1
      BY <3>2, <3>3 DEF Coroutines, CountOf
    <3> QED
      BY <2>3, <2>5, <2>8, <3>1, <3>4, OneOrTheOther DEF Work
  <2> QED
    BY <2>3, <2>5, <2>6, <2>7 DEF Driven
<1>6. CASE Connected
  <2>1. /\ serial + 1 \in Serial /\ current' = serial + 1 /\ serial \in Nat
        /\ conn' = [conn EXCEPT ![serial + 1] = [NoSession EXCEPT !.life = "new", !.open = TRUE]]
        /\ loops.connecting > 0 /\ loops' = [loops EXCEPT !.connecting = @ - 1]
    BY <1>6, BoundIsNat DEF Connected, Typed, Serial
  <2>2. Coroutines > 0
    BY <1>1, <2>1 DEF Coroutines, CountOf, LoopsType
  <2>3. Live = {} /\ Coroutines = 1
    BY <2>2, AloneAtWork
  <2>4. [NoSession EXCEPT !.life = "new", !.open = TRUE].life = "new"
    BY DEF NoSession
  <2>5. /\ conn'[serial + 1].life = "new"
        /\ \A k \in Serial : k # serial + 1 => conn'[k] = conn[k]
    BY <2>1, <2>4 DEF Typed
  <2>6. Live' = {serial + 1}
    BY <2>1, <2>3, <2>5 DEF Live
  <2>7. Coroutines' = 0 /\ loops.waiting = 0
    <3>1. loops.waiting = 0
      BY <1>1, <2>1, <2>3, NoneWaits DEF Coroutines
    <3>2. Coroutines' = Coroutines - 1
      BY <1>1, <2>1 DEF Coroutines, CountOf, LoopsType
    <3> QED
      BY <2>3, <3>1, <3>2
  <2>8. Work' = 1
    BY <2>6, <2>7, OneOrTheOther DEF Work
  <2>9. /\ client'.started = client.started /\ client'.manualStop = client.manualStop
        /\ client'.pending = client.pending
    BY <1>1, <1>6 DEF Connected, ClientType
  <2>10. ~Halted' => ~client'.pending
    BY <2>7, <2>9, StoppedKept DEF Driven
  <2> QED
    BY <2>1, <2>6, <2>8, <2>10 DEF Driven
<1> QED
  BY <1>2, <1>3, <1>4, <1>5, <1>6

LEMMA DrivenSession ==
  ASSUME Typed, AllWritten, Single, Driven, NEW k \in Serial, Session(k)
  PROVE  Driven'
<1>1. loops \in LoopsType /\ client \in ClientType /\ conn[k] \in SessionType /\ Written(conn[k])
  BY DEF Typed, AllWritten
<1>2. \A l \in Serial : l # k => conn'[l] = conn[l]
  <2> PICK e \in SessionType : conn' = [conn EXCEPT ![k] = e]
    BY SessionSteps
  <2> QED
    BY DEF Typed
<1>3. CASE SessionEnds(k)
  <2>1. conn[k].life = "ending" /\ conn'[k].life = "ended" /\ loops' = Fails(loops)
        /\ current' = IF current = k THEN 0 ELSE current
    BY <1>1, <1>3 DEF SessionEnds, Typed, SessionType
  <2>2. k \in Live
    BY <2>1 DEF Live
  <2>3. Live = {k} /\ Coroutines = 0
    BY <2>2, AloneWithSession
  <2>4. Live' = {}
    BY <1>2, <2>1, <2>3 DEF Live
  <2>5. current' = 0
    BY <2>1, <2>3 DEF Driven
  <2>8. /\ client'.started = client.started /\ client'.manualStop = client.manualStop
        /\ client'.pending = client.pending
    BY <1>1, <1>3 DEF SessionEnds, BackedOff, ClientType
  <2>6. Halted' = Halted
    BY <2>8, StoppedKept
  <2>7. ASSUME ~Halted PROVE Work' = 1 /\ ~client'.pending
    <3>1. loops.waiting = 0
      BY <1>1, <2>3, NoneWaits DEF Coroutines
    <3>2. ~client.pending
      BY <2>7, <3>1 DEF Driven
    <3>3. CountOf(Fails(loops)) = 1
      BY <1>1, <2>3, <2>7, <3>2, RetryScheduled DEF Coroutines
    <3>4. Coroutines' = 1
      BY <2>1, <3>3 DEF Coroutines, CountOf
    <3> QED
      BY <2>4, <2>8, <3>2, <3>4, OneOrTheOther DEF Work
  <2> QED
    BY <2>4, <2>5, <2>6, <2>7 DEF Driven
<1>4. CASE ~SessionEnds(k)
  <2>1. UNCHANGED <<client, loops, current>>
    BY <1>4 DEF Session, SessionStart, ReadFails, Strand, Write, WriteFails
  <2>2. \/ conn'[k].life = conn[k].life
        \/ conn[k].life \in LiveStates /\ conn'[k].life \in LiveStates
    <3>1. CASE SessionStart(k) \/ ReadFails(k)
      BY <1>1, <3>1 DEF SessionStart, ReadFails, Typed, SessionType, LiveStates
    <3>2. CASE Strand(k)
      <4> DEFINE f == Head(conn[k].posted)
                 d == [conn[k] EXCEPT !.posted = Tail(@)]
                 e == CASE f = Close -> [d EXCEPT !.open = FALSE]
                        [] f # Close /\ Overflows(d, f) -> Overflowed(d, f)
                        [] OTHER -> Enqueued(d, f)
      <4>1. conn' = [conn EXCEPT ![k] = e] /\ conn[k].posted # <<>>
        BY <3>2 DEF Strand
      <4>2. e.life = conn[k].life
        BY <1>1, <4>1, StrandRuns
      <4> HIDE DEF e
      <4> QED
        BY <4>1, <4>2 DEF Typed
    <3>3. CASE Write(k) \/ WriteFails(k)
      BY <1>1, <3>3 DEF Write, WriteFails, Typed, SessionType
    <3> QED
      BY <1>4, <3>1, <3>2, <3>3 DEF Session
  <2>3. Live' = Live
    BY <1>2, <2>2, LiveKept
  <2> QED
    BY <2>1, <2>3, DrivenKept
<1> QED
  BY <1>3, <1>4

LEMMA DrivenNext == Typed /\ AllWritten /\ Single /\ Driven /\ [Next]_vars => Driven'
<1> SUFFICES ASSUME Typed, AllWritten, Single, Driven, [Next]_vars PROVE Driven'
  OBVIOUS
<1>1. CASE Send \/ CloseLine
  <2>1. UNCHANGED <<client, loops, current>> /\ current \in Serial
    BY <1>1 DEF Send, CloseLine, Typed
  <2>2. conn[current] \in SessionType
    BY <2>1 DEF Typed
  <2>3. \A l \in Serial : conn'[l].life = conn[l].life
    <3>1. CASE Send
      BY <2>1, <2>2, <3>1 DEF Send, Typed, SessionType
    <3>2. CASE CloseLine
      BY <2>1, <2>2, <3>2 DEF CloseLine, Typed, SessionType
    <3> QED
      BY <1>1, <3>1, <3>2
  <2>4. Live' = Live
    BY <2>3, LiveKept
  <2> QED
    BY <2>1, <2>4, DrivenKept
<1>2. CASE UNCHANGED vars
  <2>1. UNCHANGED <<client, loops, conn, current>> /\ Live' = Live
    BY <1>2 DEF vars, Live
  <2> QED
    BY <2>1, DrivenKept
<1> QED
  BY <1>1, <1>2, DrivenClient, DrivenSession DEF Next

LEMMA DrivenAlways == Spec => [](Typed /\ Single /\ Driven)
<1>1. Init => Driven
  BY DEF Init, Driven, Halted
<1> QED
  BY <1>1, DrivenNext, SingleInit, SingleNext, TypedAlways, PTL DEF Spec

\* The safety half of "a line that is not stopped gets a connection again"
\* (Reconnects): between start() and stop() the client has its session or exactly
\* one coroutine that connects or waits to, and never neither.  reconnect_pending_
\* cannot stay up without a wait behind it, so schedule_reconnect_ never declines
\* the retry that is needed.
THEOREM NeverLeftAlone ==
  Spec => [](~Halted => \/ current \in Live /\ Live = {current} /\ Coroutines = 0
                        \/ current = 0 /\ Live = {} /\ Coroutines = 1)
<1>1. Typed /\ Single /\ Driven =>
        (~Halted => \/ current \in Live /\ Live = {current} /\ Coroutines = 0
                    \/ current = 0 /\ Live = {} /\ Coroutines = 1)
  <2> SUFFICES ASSUME Typed, Single, Driven, ~Halted
               PROVE  \/ current \in Live /\ Live = {current} /\ Coroutines = 0
                      \/ current = 0 /\ Live = {} /\ Coroutines = 1
    OBVIOUS
  <2>1. CASE Live = {}
    <3>1. Cardinality(Live) = 0
      BY <2>1, FS_EmptySet
    <3>2. Coroutines = 1
      BY <3>1 DEF Driven, Work, Coroutines, CountOf, Typed, LoopsType
    <3> QED
      BY <2>1, <3>2 DEF Driven
  <2>2. ASSUME NEW k \in Live PROVE current \in Live /\ Live = {current} /\ Coroutines = 0
    <3>1. Live = {k} /\ Coroutines = 0 /\ k = current
      BY AloneWithSession DEF Driven
    <3> QED
      BY <3>1
  <2> QED
    BY <2>1, <2>2
<1> QED
  BY <1>1, DrivenAlways, PTL

\* What the threads of the server send goes to a session that has not ended:
\* session_ is cleared by the end of its session, by a failed connect and by
\* stop(), and names no other session meanwhile.
THEOREM SendsToLiveSession ==
  Spec => [](current # 0 => conn[current].life \in {"new", "up", "ending"})
<1>1. Driven => (current # 0 => conn[current].life \in {"new", "up", "ending"})
  BY DEF Driven, Live
<1> QED
  BY <1>1, DrivenAlways, PTL

\* The safety half of "frames are written or their connection closes"
\* (WrittenOrClosed): while a session is open, a reliable frame it accepted and
\* did not ignore is written, or in a queue that has its write loop, or still posted to the strand.
THEOREM FramesAreOnTheirWay ==
  Spec => [](\A k \in Serial : conn[k].open =>
               \A f \in Owed(conn[k]) :
                 \/ f \in Range(conn[k].written)
                 \/ f \in Range(conn[k].q) /\ conn[k].writers = 1
                 \/ f \in Range(conn[k].posted))
<1> DEFINE P == \A k \in Serial : conn[k].open =>
                  \A f \in Owed(conn[k]) :
                    \/ f \in Range(conn[k].written)
                    \/ f \in Range(conn[k].q) /\ conn[k].writers = 1
                    \/ f \in Range(conn[k].posted)
<1>1. ASSUME AllWritten, Flowing PROVE P
  <2> SUFFICES ASSUME NEW k \in Serial, conn[k].open, NEW f \in Owed(conn[k])
               PROVE  \/ f \in Range(conn[k].written)
                      \/ f \in Range(conn[k].q) /\ conn[k].writers = 1
                      \/ f \in Range(conn[k].posted)
    OBVIOUS
  <2>1. f \in Range(conn[k].written) \/ f \in Range(conn[k].q) \/ f \in Range(conn[k].posted)
    BY <1>1 DEF Flowing, Flow, Kept
  <2>2. f \in Range(conn[k].q) => conn[k].q # <<>>
    <3>1. Range(<<>>) = {}
      BY DEF Range
    <3> QED
      BY <3>1
  <2> QED
    BY <1>1, <2>1, <2>2 DEF AllWritten, Written
<1> HIDE DEF P
<1>2. Spec => []P
  BY <1>1, FlowingAlways, TypedAlways, PTL
<1> QED
  BY <1>2 DEF P
=============================================================================
