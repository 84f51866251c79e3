--------------------------- MODULE LineTransport ---------------------------
(* An outbound service line: TcpClient with its reconnects and its stop, the   *)
(* TcpSessions it makes, each with its send queue and its write loop, and the  *)
(* threads that send on the client's current session.                          *)
(*                                                                             *)
(* Handlers of one session are serialised by its strand, which is nested in    *)
(* the strand of the client's resolver; other threads only post to it.  The    *)
(* reconnect wait runs on a strand of its own, stop() on the main thread.      *)
EXTENDS Integers, FiniteSets, Sequences, SequencesExt

CONSTANTS
  BodyOf,         \* BodyOf[frame]: the size of its body, ByteSizeLong()
  Lossy,          \* the frames sent with TrySendLossy
  HeaderSize,     \* MSG_HEADER_SIZE
  Word,           \* 2^16: the range of m_wSize
  MaxPacket,      \* max_packet_bytes_
  MaxMsgs,        \* max_send_queue_msgs_
  MaxBytes,       \* max_send_queue_bytes_
  Delay,          \* reconnect_delay_ms_
  MaxDelay,       \* reconnect_delay_max_ms_
  MaxSerial       \* how many sessions a behaviour makes

Frame == DOMAIN BodyOf
Serial == 1 .. MaxSerial
Close == 0        \* a posted close(), among the posted frames

ASSUME ConstantsAssumption ==
  /\ BodyOf \in Seq(Nat)
  /\ Lossy \subseteq Frame
  /\ {HeaderSize, MaxPacket, MaxMsgs, MaxBytes, MaxSerial} \subseteq Nat
  /\ Word \in Nat \ {0}
  /\ Delay \in Nat /\ MaxDelay \in Nat /\ Delay <= MaxDelay

VARIABLES
  client,    \* started_, manual_stop_, reconnect_pending_, current_backoff_ms_
  loops,     \* the coroutines of the client, by where they are: spawned, past the
             \* test of the stop flags, resolving, connecting, past the tests of
             \* schedule_reconnect_, in the reconnect wait
  current,   \* session_: its serial, or 0
  serial,    \* serial_
  conn,      \* the sessions
  sent       \* the last frame that was accepted

vars == <<client, loops, current, serial, conn, sent>>

NoSession ==
  [life |-> "none", open |-> FALSE, posted |-> <<>>, q |-> <<>>, bytes |-> 0, writers |-> 0,
   accepted |-> {}, written |-> <<>>]

Init ==
  /\ client = [started |-> FALSE, manualStop |-> FALSE, pending |-> FALSE, backoff |-> Delay]
  /\ loops = [spawned |-> 0, tested |-> 0, resolving |-> 0, connecting |-> 0,
              failed |-> 0, waiting |-> 0]
  /\ current = 0
  /\ serial = 0
  /\ conn = [k \in Serial |-> NoSession]
  /\ sent = 0

Halted == client.manualStop \/ ~client.started

-----------------------------------------------------------------------------
(* ---- TcpClient ---- *)

\* LineClientHost::Start makes a client and starts it.
Start ==
  /\ ~client.started /\ ~client.manualStop
  /\ client' = [client EXCEPT !.started = TRUE, !.pending = FALSE, !.backoff = Delay]
  /\ loops' = [loops EXCEPT !.spawned = @ + 1]
  /\ UNCHANGED <<current, serial, conn, sent>>

\* LineClientHost::Stop.  What the cancelled wait and resolve do next, they do in
\* WaitEnds and ConnectFails; a connect that is under way is not cancelled.
Stop ==
  /\ client.started
  /\ client' = [client EXCEPT !.manualStop = TRUE, !.started = FALSE, !.pending = FALSE]
  /\ current' = 0
  /\ conn' = IF current = 0 THEN conn
             ELSE [conn EXCEPT ![current].posted = Append(@, Close)]
  /\ UNCHANGED <<loops, serial, sent>>

\* grow_backoff_
Grown(backoff) == IF backoff * 2 < MaxDelay THEN backoff * 2 ELSE MaxDelay

\* A lost session and a failed connect end alike: the stop flags are tested, the
\* backoff grows, and schedule_reconnect_ tests the flags again and whether a
\* wait is pending.
Schedules == ~Halted /\ ~client.pending
BackedOff == IF Halted THEN client ELSE [client EXCEPT !.backoff = Grown(@)]
Fails(l) == IF Schedules THEN [l EXCEPT !.failed = @ + 1] ELSE l

\* The rest of schedule_reconnect_.  The flags are plain bools that stop() sets on
\* another thread, so the line may be stopped since they were tested.
WaitBegins ==
  /\ loops.failed > 0
  /\ client' = [client EXCEPT !.pending = TRUE]
  /\ loops' = [loops EXCEPT !.failed = @ - 1, !.waiting = @ + 1]
  /\ UNCHANGED <<current, serial, conn, sent>>

\* wait_reconnect_, when the timer expires or is cancelled.
WaitEnds ==
  /\ loops.waiting > 0
  /\ client' = [client EXCEPT !.pending = FALSE]
  /\ loops' = [loops EXCEPT !.waiting = @ - 1, !.spawned = IF Halted THEN @ ELSE @ + 1]
  /\ UNCHANGED <<current, serial, conn, sent>>

\* connect_loop_ tests the stop flags; the resolve begins in a step of its own,
\* for the line may be stopped in between.
ConnectBegins ==
  /\ loops.spawned > 0
  /\ loops' = [loops EXCEPT !.spawned = @ - 1, !.tested = IF Halted THEN @ ELSE @ + 1]
  /\ UNCHANGED <<client, current, serial, conn, sent>>

ResolveBegins ==
  /\ loops.tested > 0
  /\ loops' = [loops EXCEPT !.tested = @ - 1, !.resolving = @ + 1]
  /\ UNCHANGED <<client, current, serial, conn, sent>>

Resolved ==
  /\ loops.resolving > 0
  /\ loops' = [loops EXCEPT !.resolving = @ - 1, !.connecting = @ + 1]
  /\ UNCHANGED <<client, current, serial, conn, sent>>

\* Mutant: a failed connect is not retried.
ConnectGivesUp ==
  \E step \in {"resolving", "connecting"} :
    /\ loops[step] > 0
    /\ loops' = [loops EXCEPT ![step] = @ - 1]
    /\ current' = 0
    /\ UNCHANGED <<client, serial, conn, sent>>

\* The resolve or the connect throws.
ConnectFails ==
  \E step \in {"resolving", "connecting"} :
    /\ loops[step] > 0
    /\ loops' = Fails([loops EXCEPT ![step] = @ - 1])
    /\ client' = BackedOff
    /\ current' = 0
    /\ UNCHANGED <<serial, conn, sent>>

\* The connect succeeds: a session is made and its start() spawned.
Connected ==
  /\ loops.connecting > 0
  /\ serial < MaxSerial
  /\ loops' = [loops EXCEPT !.connecting = @ - 1]
  /\ serial' = serial + 1
  /\ conn' = [conn EXCEPT ![serial + 1] = [NoSession EXCEPT !.life = "new", !.open = TRUE]]
  /\ current' = serial + 1
  /\ client' = [client EXCEPT !.backoff = Delay]
  /\ UNCHANGED <<sent>>

-----------------------------------------------------------------------------
(* ---- TcpSession: life and reading ---- *)

\* start(): the handler is told, then the read loop runs.
SessionStart(k) ==
  /\ conn[k].life = "new"
  /\ conn' = [conn EXCEPT ![k].life = "up"]
  /\ UNCHANGED <<client, loops, current, serial, sent>>

\* Mutant: the reconnect is scheduled when the handler is told, too.
ReadFailsSchedules(k) ==
  /\ conn[k].life = "up"
  /\ conn' = [conn EXCEPT ![k].life = "ending", ![k].posted = Append(@, Close)]
  /\ client' = BackedOff
  /\ loops' = Fails(loops)
  /\ UNCHANGED <<current, serial, sent>>

\* The read throws: the peer or this side closed, or the packet was refused.
ReadFails(k) ==
  /\ conn[k].life = "up"
  /\ conn' = [conn EXCEPT ![k].life = "ending", ![k].posted = Append(@, Close)]
  /\ UNCHANGED <<client, loops, current, serial, sent>>

\* After start(): the client forgets the session and schedules the next.
SessionEnds(k) ==
  /\ conn[k].life = "ending"
  /\ conn' = [conn EXCEPT ![k].life = "ended"]
  /\ current' = IF current = k THEN 0 ELSE current
  /\ client' = BackedOff
  /\ loops' = Fails(loops)
  /\ UNCHANGED <<serial, sent>>

-----------------------------------------------------------------------------
(* ---- TcpSession: sending ---- *)

\* BuildFramedMessage and make_header: both sizes are 16 bits wide.
SizeOf(f) == (HeaderSize + (BodyOf[f] % Word)) % Word
Overflows(c, f) == Len(c.q) + 1 > MaxMsgs \/ c.bytes + SizeOf(f) > MaxBytes

\* Mutant: the queue is filled and no write loop is spawned.
EnqueuedIdle(c, f) == [c EXCEPT !.q = Append(@, f), !.bytes = @ + SizeOf(f)]

\* A frame that fits is queued; the write loop is spawned for the first one.
Enqueued(c, f) ==
  [c EXCEPT !.q = Append(@, f), !.bytes = @ + SizeOf(f),
            !.writers = IF c.q = <<>> THEN @ + 1 ELSE @]

\* Mutant: the overflow of the reliable queue drops the frame, as the lossy one does.
OverflowedDrops(c, f) == c

\* enqueue_send_close_ closes the socket, enqueue_send_drop_ drops the frame.
Overflowed(c, f) == IF f \in Lossy THEN c ELSE [c EXCEPT !.open = FALSE]

\* The strand runs what was posted: a frame or a close.
Strand(k) ==
  LET f == Head(conn[k].posted)
      c == [conn[k] EXCEPT !.posted = Tail(@)]
  IN  /\ conn[k].posted # <<>>
      /\ conn' = [conn EXCEPT ![k] = CASE f = Close -> [c EXCEPT !.open = FALSE]
                                       [] f # Close /\ Overflows(c, f) -> Overflowed(c, f)
                                       [] OTHER -> Enqueued(c, f)]
      /\ UNCHANGED <<client, loops, current, serial, sent>>

\* Mutant: the bytes of a written frame stay counted.
WriteKeepsBytes(k) ==
  /\ conn[k].writers > 0 /\ conn[k].open
  /\ conn' = [conn EXCEPT ![k].written = Append(@, Head(conn[k].q)),
                          ![k].q = Tail(@),
                          ![k].writers = IF Len(conn[k].q) = 1 THEN @ - 1 ELSE @]
  /\ UNCHANGED <<client, loops, current, serial, sent>>

\* write_loop: one async_write succeeds; the loop ends with the queue.
Write(k) ==
  /\ conn[k].writers > 0 /\ conn[k].open
  /\ conn' = [conn EXCEPT ![k].written = Append(@, Head(conn[k].q)),
                          ![k].bytes = @ - SizeOf(Head(conn[k].q)),
                          ![k].q = Tail(@),
                          ![k].writers = IF Len(conn[k].q) = 1 THEN @ - 1 ELSE @]
  /\ UNCHANGED <<client, loops, current, serial, sent>>

\* The write throws: the loop closes the socket and ends, the queue stays.
WriteFails(k) ==
  /\ conn[k].writers > 0
  /\ conn' = [conn EXCEPT ![k].open = FALSE, ![k].writers = @ - 1]
  /\ UNCHANGED <<client, loops, current, serial, sent>>

-----------------------------------------------------------------------------
(* ---- the threads of the server ---- *)

\* async_send and async_send_lossy ignore a size the header cannot have.
Ignored == {f \in Frame : SizeOf(f) < HeaderSize \/ SizeOf(f) > MaxPacket}

\* Send and TrySendLossy, on any thread, to the client's current session: the
\* frames they answer true for, the ignored ones among them.  A frame that is
\* refused (by the serial the handler last saw, for one) changes nothing.
Send ==
  \E f \in Frame :
    /\ f > sent
    /\ current # 0
    /\ f \in Lossy => ~Overflows(conn[current], f)
    /\ conn' = [conn EXCEPT ![current].posted = IF f \in Ignored THEN @ ELSE Append(@, f),
                            ![current].accepted = @ \cup {f}]
    /\ sent' = f
    /\ UNCHANGED <<client, loops, current, serial>>

\* NetworkEXBase::Close, when the handler refuses a packet (posted once at a time).
CloseLine ==
  /\ current # 0
  /\ Close \notin Range(conn[current].posted)
  /\ conn' = [conn EXCEPT ![current].posted = Append(@, Close)]
  /\ UNCHANGED <<client, loops, current, serial, sent>>

-----------------------------------------------------------------------------
Session(k) ==
  \/ SessionStart(k) \/ ReadFails(k) \/ SessionEnds(k)
  \/ Strand(k) \/ Write(k) \/ WriteFails(k)

Next ==
  \/ Start \/ Stop
  \/ WaitBegins \/ WaitEnds
  \/ ConnectBegins \/ ResolveBegins \/ Resolved \/ ConnectFails \/ Connected
  \/ \E k \in Serial : Session(k)
  \/ Send \/ CloseLine

Spec == Init /\ [][Next]_vars

\* Coroutines and posted work run on, the remote is reachable again and again, a
\* socket that is open can be written to, and a read of a closed one fails.
FairSpec ==
  /\ Spec
  /\ WF_vars(WaitBegins) /\ WF_vars(WaitEnds)
  /\ WF_vars(ConnectBegins) /\ WF_vars(ResolveBegins) /\ SF_vars(Resolved) /\ SF_vars(Connected)
  /\ \A k \in Serial :
       /\ WF_vars(SessionStart(k)) /\ WF_vars(SessionEnds(k)) /\ WF_vars(Strand(k))
       /\ WF_vars(Write(k) \/ WriteFails(k))
       /\ WF_vars(ReadFails(k) /\ ~conn[k].open)

-----------------------------------------------------------------------------
Live == {k \in Serial : conn[k].life \in {"new", "up", "ending"}}

\* The bytes counted are those of the queue, whatever was dropped or failed, so
\* the limit is neither passed nor met too early.
QueuedBytes(q) == UNION {{i} \X (1 .. SizeOf(q[i])) : i \in DOMAIN q}
BytesCounted(c) == c.bytes = Cardinality(QueuedBytes(c.q))

TypeOK ==
  /\ client \in [started : BOOLEAN, manualStop : BOOLEAN, pending : BOOLEAN, backoff : Delay .. MaxDelay]
  /\ loops \in [spawned : Nat, tested : Nat, resolving : Nat, connecting : Nat,
               failed : Nat, waiting : Nat]
  /\ current \in 0 .. MaxSerial
  /\ serial \in 0 .. MaxSerial
  /\ conn \in [Serial -> [life : {"none", "new", "up", "ending", "ended"}, open : BOOLEAN,
                          posted : Seq(Frame \cup {Close}), q : Seq(Frame), bytes : 0 .. MaxBytes,
                          writers : Nat, accepted : SUBSET Frame, written : Seq(Frame)]]
  /\ \A k \in Serial : BytesCounted(conn[k])
  /\ sent \in 0 .. Len(BodyOf)

\* A session that is open and has something queued has exactly one write loop,
\* and a write loop always has something to write: no frame waits for a writer
\* that has ended, and no two loops write the same frame.
OneWriter ==
  \A k \in Serial :
    LET c == conn[k]
    IN  /\ c.writers \in {0, 1}
        /\ c.writers = 1 => c.q # <<>>
        /\ c.open /\ c.q # <<>> => c.writers = 1

\* What has to be written of what was accepted: the reliable frames async_send
\* did not ignore.
Owed(c) == c.accepted \ (Lossy \cup Ignored)

\* What a session writes, it writes in the order it was sent, and of the frames it
\* owes none is left out: one that overflows the queue ends the connection instead.
NoGap ==
  \A k \in Serial :
    LET w == conn[k].written
    IN  /\ \A i, j \in DOMAIN w : i < j => w[i] < w[j]
        /\ \A i \in DOMAIN w : \A f \in Owed(conn[k]) : f < w[i] => f \in Range(w)

\* A client never works on two connections: it connects, or waits to, or has one.
OneConnection ==
  Cardinality(Live) + loops.spawned + loops.tested + loops.resolving + loops.connecting
    + loops.failed + loops.waiting <= 1

\* A line that is not stopped gets a connection, again and again.
Reconnects ==
  []<>(Halted \/ current # 0 \/ serial = MaxSerial)

\* Frames that are owed do not wait for ever: they are written or their connection closes.
Unwritten ==
  UNION {{<<k, f>> : f \in Owed(conn[k]) \ Range(conn[k].written)} :
           k \in {l \in Serial : conn[l].open}}
WrittenOrClosed == Unwritten # {} ~> Unwritten = {}
=============================================================================
