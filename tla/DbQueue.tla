------------------------------ MODULE DbQueue ------------------------------
(* The database queue (DQS): a pool of slots, one worker thread per database   *)
(* shard, the results the workers post, and the stop of the workers.           *)
(*                                                                             *)
(* A request takes a slot from the pool, writes its payload there and pushes   *)
(* the slot's index to a worker; the worker copies the payload, queries the    *)
(* database, posts the result and gives the slot back.  The account, the world *)
(* and the channel server share DbWorker and differ in who gives it back.      *)
EXTENDS Integers, Sequences

CONSTANTS
  Slots,        \* kMaxDqsSlotCount, MAX_DB_SYC_DATA_NUM
  Shards,       \* db_shard_count_
  Caller,       \* the threads that push
  MaxJob,       \* how many requests a behaviour makes
  ShardOf,      \* ShardOf[job]: RouteAccountShard_, RouteShard_
  FreedByJob,   \* OnDQSRunOne returns the slot itself (world, channel)
  Drains,       \* the stop waits for the pool first, and callers go on (world)
  None

Slot == 1 .. Slots
Shard == 1 .. Shards
Job == 1 .. MaxJob

ASSUME ConstantsAssumption ==
  /\ Slots \in Nat \ {0}
  /\ Shards \in Nat \ {0}
  /\ MaxJob \in Nat
  /\ ShardOf \in [Job -> Shard]
  /\ FreedByJob \in BOOLEAN
  /\ Drains \in BOOLEAN
  /\ None \notin Nat

VARIABLES
  slots,      \* the payload of each slot in use
  empty,      \* dqs_empty_
  queue,      \* DbWorker::q_
  caller,     \* a thread between taking a slot and pushing it
  worker,     \* DbWorker::loop_: where it is, its slot and the payload it copied
  stopping,   \* the stop tokens that are set
  stopper,    \* the thread in DbShardManager::stop: the worker it is at, its step
  results,    \* dqs_results_, or what was posted to the actors
  answered,   \* the requests answered, in order
  asked       \* how many requests were made

vars == <<slots, empty, queue, caller, worker, stopping, stopper, results, answered, asked>>

NoCall == [slot |-> None, job |-> None]
At(place) == [at |-> place, slot |-> None, job |-> None]

Init ==
  /\ slots = [s \in Slot |-> None]
  /\ empty = [s \in Slot |-> s]
  /\ queue = [k \in Shard |-> <<>>]
  /\ caller = [c \in Caller |-> NoCall]
  /\ worker = [k \in Shard |-> At("check")]
  /\ stopping = {}
  /\ stopper = [at |-> 0, step |-> "running"]
  /\ results = <<>>
  /\ answered = <<>>
  /\ asked = 0

Running == stopper.step = "running"

\* CountInFlightDqs_, which only the world server has: the slots in use
InFlight == {s \in Slot : slots[s] # None}

-----------------------------------------------------------------------------
(* ---- pushing a request ---- *)

\* The next request.  The account server's lines are stopped before its workers.
Asks(c) ==
  /\ Running \/ (Drains /\ stopper.step # "stopped")
  /\ caller[c] = NoCall
  /\ asked < MaxJob
  /\ asked' = asked + 1

\* No slot is left: the caller answers db_queue_full itself.
Refuse(c) ==
  /\ Asks(c)
  /\ empty = <<>>
  /\ answered' = Append(answered, asked + 1)
  /\ UNCHANGED <<slots, empty, queue, caller, worker, stopping, stopper, results>>

\* Mutant: front() without pop_front().
TakeSlotKept(c) ==
  /\ Asks(c)
  /\ empty # <<>>
  /\ slots' = [slots EXCEPT ![Head(empty)] = asked + 1]
  /\ caller' = [caller EXCEPT ![c] = [slot |-> Head(empty), job |-> asked + 1]]
  /\ UNCHANGED <<empty, queue, worker, stopping, stopper, results, answered>>

\* Under dqs_mtx_ the slot at the front of the free list gets the payload.
TakeSlot(c) ==
  /\ Asks(c)
  /\ empty # <<>>
  /\ slots' = [slots EXCEPT ![Head(empty)] = asked + 1]
  /\ empty' = Tail(empty)
  /\ caller' = [caller EXCEPT ![c] = [slot |-> Head(empty), job |-> asked + 1]]
  /\ UNCHANGED <<queue, worker, stopping, stopper, results, answered>>

\* Mutant: the wake-up is forgotten.
NotifiedNever(k) == worker

\* cv_.notify_one, cv_.notify_all: only a worker that waits is woken.
Notified(k) ==
  IF worker[k].at = "asleep" THEN [worker EXCEPT ![k].at = "check"] ELSE worker

\* DbWorker::push, under the worker's mutex, to the shard the payload names.
Push(c) ==
  LET k == ShardOf[caller[c].job]
  IN  /\ caller[c] # NoCall
      /\ worker[k].at # "parking"
      /\ queue' = [queue EXCEPT ![k] = Append(@, caller[c].slot)]
      /\ worker' = Notified(k)
      /\ caller' = [caller EXCEPT ![c] = NoCall]
      /\ UNCHANGED <<slots, empty, stopping, stopper, results, answered, asked>>

-----------------------------------------------------------------------------
(* ---- a worker ---- *)

\* The loop and the predicate of cv_.wait find the stop token set.
End(k) ==
  /\ worker[k].at = "check"
  /\ k \in stopping
  /\ worker' = [worker EXCEPT ![k] = At("ended")]
  /\ UNCHANGED <<slots, empty, queue, caller, stopping, stopper, results, answered, asked>>

\* The predicate finds a job: the front of the queue is popped.
Pop(k) ==
  /\ worker[k].at = "check"
  /\ k \notin stopping
  /\ queue[k] # <<>>
  /\ worker' = [worker EXCEPT ![k] = [at |-> "popped", slot |-> Head(queue[k]), job |-> None]]
  /\ queue' = [queue EXCEPT ![k] = Tail(@)]
  /\ UNCHANGED <<slots, empty, caller, stopping, stopper, results, answered, asked>>

\* The predicate is false: the worker will block, and holds the mutex until it does.
Decide(k) ==
  /\ worker[k].at = "check"
  /\ k \notin stopping
  /\ queue[k] = <<>>
  /\ worker' = [worker EXCEPT ![k] = At("parking")]
  /\ UNCHANGED <<slots, empty, queue, caller, stopping, stopper, results, answered, asked>>

Park(k) ==
  /\ worker[k].at = "parking"
  /\ worker' = [worker EXCEPT ![k] = At("asleep")]
  /\ UNCHANGED <<slots, empty, queue, caller, stopping, stopper, results, answered, asked>>

\* OnDqsRunOne_, OnDQSRunOne: the payload is copied out of the slot.
RunOne(k) ==
  /\ worker[k].at = "popped"
  /\ worker' = [worker EXCEPT ![k] = [at |-> "querying", slot |-> @.slot, job |-> slots[@.slot]]]
  /\ UNCHANGED <<slots, empty, queue, caller, stopping, stopper, results, answered, asked>>

\* Whether the query succeeds or throws, its result is posted; a slot that was
\* reset holds no query that OnDQSRunOne knows, and none is posted.
Posted(k) ==
  IF worker[k].job = None THEN results ELSE Append(results, worker[k].job)

\* The end of the run; in the world server the slot is given back here already.
Finish(k) ==
  /\ worker[k].at = "querying"
  /\ results' = Posted(k)
  /\ slots' = IF FreedByJob THEN [slots EXCEPT ![worker[k].slot] = None] ELSE slots
  /\ empty' = IF FreedByJob THEN Append(empty, worker[k].slot) ELSE empty
  /\ worker' = [worker EXCEPT ![k] = [at |-> "ran", slot |-> @.slot, job |-> None]]
  /\ UNCHANGED <<queue, caller, stopping, stopper, answered, asked>>

\* The recycle callback, under dqs_mtx_: RecycleDqsSlot_.
Recycle(k) ==
  /\ worker[k].at = "ran"
  /\ slots' = [slots EXCEPT ![worker[k].slot] = None]
  /\ empty' = Append(empty, worker[k].slot)
  /\ worker' = [worker EXCEPT ![k] = At("check")]
  /\ UNCHANGED <<queue, caller, stopping, stopper, results, answered, asked>>

-----------------------------------------------------------------------------
(* ---- results and stop ---- *)

\* Mutant: the results are copied, not swapped.
DrainCopies ==
  /\ Running
  /\ results # <<>>
  /\ answered' = answered \o results
  /\ UNCHANGED <<slots, empty, queue, caller, worker, stopping, stopper, results, asked>>

\* DrainDqsResults_: the main loop swaps the list and answers all of it.  The
\* account server leaves its main loop before it stops its workers.
DrainDqsResults ==
  /\ Running \/ (Drains /\ stopper.step # "stopped")
  /\ results # <<>>
  /\ answered' = answered \o results
  /\ results' = <<>>
  /\ UNCHANGED <<slots, empty, queue, caller, worker, stopping, stopper, asked>>

\* The server stops its workers: the account server when no line runs any more,
\* the world server once the pool is drained or the wait for it timed out.
BeginStop ==
  /\ Running
  /\ Drains \/ \A c \in Caller : caller[c] = NoCall
  /\ stopper' = [at |-> 1, step |-> "request"]
  /\ UNCHANGED <<slots, empty, queue, caller, worker, stopping, results, answered, asked>>

\* DbWorker::stop, one worker after the other: request_stop, notify_all (without
\* the mutex), join.
RequestStop ==
  /\ stopper.step = "request"
  /\ stopping' = stopping \cup {stopper.at}
  /\ stopper' = [stopper EXCEPT !.step = "notify"]
  /\ UNCHANGED <<slots, empty, queue, caller, worker, results, answered, asked>>

NotifyAll ==
  /\ stopper.step = "notify"
  /\ worker' = Notified(stopper.at)
  /\ stopper' = [stopper EXCEPT !.step = "join"]
  /\ UNCHANGED <<slots, empty, queue, caller, stopping, results, answered, asked>>

Join ==
  /\ stopper.step = "join"
  /\ worker[stopper.at].at = "ended"
  /\ stopper' = IF stopper.at = Shards THEN [at |-> Shards, step |-> "stopped"]
                ELSE [at |-> stopper.at + 1, step |-> "request"]
  /\ UNCHANGED <<slots, empty, queue, caller, worker, stopping, results, answered, asked>>

-----------------------------------------------------------------------------
Work(k) ==
  End(k) \/ Pop(k) \/ Decide(k) \/ Park(k) \/ RunOne(k) \/ Finish(k) \/ Recycle(k)

Stop == RequestStop \/ NotifyAll \/ Join

Next ==
  \/ \E c \in Caller : Refuse(c) \/ TakeSlot(c) \/ Push(c)
  \/ \E k \in Shard : Work(k)
  \/ DrainDqsResults
  \/ BeginStop
  \/ Stop

Spec == Init /\ [][Next]_vars

\* Threads run on, and so does the main loop; requests and the stop need not come.
FairSpec ==
  /\ Spec
  /\ \A c \in Caller : WF_vars(Push(c))
  /\ \A k \in Shard : WF_vars(Work(k))
  /\ WF_vars(DrainDqsResults)
  /\ WF_vars(Stop)

-----------------------------------------------------------------------------
Busy == {"popped", "querying", "ran"}

TypeOK ==
  /\ slots \in [Slot -> Job \cup {None}]
  /\ empty \in Seq(Slot) /\ Len(empty) <= Slots
  /\ queue \in [Shard -> Seq(Slot)]
  /\ caller \in [Caller -> [slot : Slot, job : Job] \cup {NoCall}]
  /\ worker \in [Shard -> [at : {"check", "parking", "asleep", "ended"} \cup Busy,
                           slot : Slot \cup {None}, job : Job \cup {None}]]
  /\ stopping \subseteq Shard
  /\ stopper \in [at : 0 .. Shards, step : {"running", "request", "notify", "join", "stopped"}]
  /\ results \in Seq(Job)
  /\ answered \in Seq(Job)
  /\ asked \in 0 .. MaxJob

\* Where slots are: on the free list, with a caller, in a queue, with a worker.
FreePlaces == {<<"empty", i>> : i \in DOMAIN empty}
CallerPlaces == {<<"caller", c>> : c \in {d \in Caller : caller[d] # NoCall}}
QueuePlaces == UNION {{<<"queue", k, i>> : i \in DOMAIN queue[k]} : k \in Shard}
WorkerPlaces == {<<"worker", k>> : k \in {l \in Shard : worker[l].at \in Busy}}

Places == FreePlaces \cup CallerPlaces \cup QueuePlaces \cup WorkerPlaces

SlotAt(place) ==
  CASE place[1] = "empty" -> empty[place[2]]
    [] place[1] = "caller" -> caller[place[2]].slot
    [] place[1] = "queue" -> queue[place[2]][place[3]]
    [] OTHER -> worker[place[2]].slot

\* Every slot is in exactly one place, so no two requests share one, no payload
\* is overwritten or reset before it was read, and the pool never shrinks.
SlotOwned ==
  \A s \in Slot : \E p \in Places : \A q \in Places : SlotAt(q) = s <=> q = p

\* The worker copied the payload of its slot.
Read(place) == place[1] = "worker" /\ worker[place[2]].at \in {"querying", "ran"}

\* Where requests are: in a slot that is not run yet, with the worker that runs
\* it, among the results, answered.
Holders(j) ==
  {<<"slot", p>> : p \in {q \in Places : slots[SlotAt(q)] = j /\ ~Read(q)}}
  \cup {<<"worker", k>> : k \in {l \in Shard : worker[l].job = j}}
  \cup {<<"result", i>> : i \in {n \in DOMAIN results : results[n] = j}}
  \cup {<<"answered", i>> : i \in {n \in DOMAIN answered : answered[n] = j}}

\* A request is never lost and never answered twice: from the call to its answer
\* it is in exactly one place.
RequestHeldOnce ==
  \A j \in 1 .. asked : \E h \in Holders(j) : Holders(j) = {h}

\* A drained pool is done: when the in-flight count the world server's stop waits
\* for is zero, no request waits for a worker or is with one.
DrainedIsDone ==
  InFlight = {} =>
    /\ \A c \in Caller : caller[c] = NoCall
    /\ \A k \in Shard : queue[k] = <<>> /\ worker[k].at \notin {"popped", "querying"}

\* Every request is answered as long as the server does not stop: no wake-up of
\* a worker is lost and no result is left behind.
RequestAnswered ==
  \A j \in Job : asked >= j ~> \/ \E i \in DOMAIN answered : answered[i] = j
                              \/ ~Running

\* DbShardManager::stop returns.
StopReturns == ~Running ~> stopper.step = "stopped"
=============================================================================
