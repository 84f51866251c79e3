--------------------------- MODULE DbQueue_proofs ---------------------------
(* The slot pool of the database queue, for every number of slots, workers,    *)
(* callers and requests: the proofs are about the servers whose jobs do not    *)
(* give their slot back themselves (the account server).  Slots first: who     *)
(* owns them; then the requests they carry: none is lost or answered twice,    *)
(* none leaves its shard, none waits for a worker that sleeps.                 *)
EXTENDS DbQueue, FiniteSetTheorems, TLAPS

\* The types, without the bound on the free list that follows from ownership.
Typed ==
  /\ slots \in [Slot -> Job \cup {None}]
  /\ empty \in Seq(Slot)
  /\ queue \in [Shard -> Seq(Slot)]
  /\ caller \in [Caller -> [slot : Slot, job : Job] \cup {NoCall}]
  /\ worker \in [Shard -> [at : {"check", "parking", "asleep", "ended"} \cup Busy,
                           slot : Slot \cup {None}, job : Job \cup {None}]]
  /\ stopping \subseteq Shard
  /\ stopper \in [at : 0 .. Shards, step : {"running", "request", "notify", "join", "stopped"}]
  /\ stopper.step \in {"request", "notify", "join"} => stopper.at \in Shard
  /\ results \in Seq(Job)
  /\ answered \in Seq(Job)
  /\ asked \in 0 .. MaxJob
  /\ \A k \in Shard : worker[k].at \in Busy => worker[k].slot \in Slot

\* No slot is twice on the free list, with two callers, twice queued, with two workers.
EmptyOnce == \A i, j \in DOMAIN empty : empty[i] = empty[j] => i = j
CallersApart ==
  \A c, d \in Caller :
    caller[c] # NoCall /\ caller[d] # NoCall /\ caller[c].slot = caller[d].slot => c = d
QueuesApart ==
  \A k, l \in Shard : \A i \in DOMAIN queue[k], j \in DOMAIN queue[l] :
    queue[k][i] = queue[l][j] => k = l /\ i = j
WorkersApart ==
  \A k, l \in Shard :
    worker[k].at \in Busy /\ worker[l].at \in Busy /\ worker[k].slot = worker[l].slot => k = l

\* Nor is it in places of two kinds.
FreeApart ==
  \A i \in DOMAIN empty :
    /\ \A c \in Caller : caller[c] # NoCall => empty[i] # caller[c].slot
    /\ \A k \in Shard : \A j \in DOMAIN queue[k] : empty[i] # queue[k][j]
    /\ \A k \in Shard : worker[k].at \in Busy => empty[i] # worker[k].slot
PushApart ==
  \A c \in Caller : caller[c] # NoCall =>
    /\ \A k \in Shard : \A j \in DOMAIN queue[k] : caller[c].slot # queue[k][j]
    /\ \A k \in Shard : worker[k].at \in Busy => caller[c].slot # worker[k].slot
WorkApart ==
  \A k, l \in Shard : \A j \in DOMAIN queue[k] :
    worker[l].at \in Busy => queue[k][j] # worker[l].slot

\* And it is somewhere.
Covered ==
  \A s \in Slot :
    \/ \E i \in DOMAIN empty : empty[i] = s
    \/ \E c \in Caller : caller[c] # NoCall /\ caller[c].slot = s
    \/ \E k \in Shard : \E j \in DOMAIN queue[k] : queue[k][j] = s
    \/ \E k \in Shard : worker[k].at \in Busy /\ worker[k].slot = s

Owned ==
  /\ EmptyOnce /\ CallersApart /\ QueuesApart /\ WorkersApart
  /\ FreeApart /\ PushApart /\ WorkApart
  /\ Covered

-----------------------------------------------------------------------------
LEMMA AppendAt ==
  ASSUME NEW S, NEW q \in Seq(S), NEW x \in S
  PROVE  /\ Append(q, x) \in Seq(S)
         /\ DOMAIN q = 1 .. Len(q)
         /\ Len(q) \in Nat
         /\ DOMAIN Append(q, x) = 1 .. (Len(q) + 1)
         /\ \A i \in 1 .. Len(q) : Append(q, x)[i] = q[i]
         /\ Append(q, x)[Len(q) + 1] = x
  OBVIOUS

LEMMA TailAt ==
  ASSUME NEW S, NEW q \in Seq(S), q # <<>>
  PROVE  /\ Tail(q) \in Seq(S)
         /\ Head(q) \in S
         /\ Head(q) = q[1]
         /\ Len(q) \in Nat \ {0}
         /\ DOMAIN q = 1 .. Len(q)
         /\ DOMAIN Tail(q) = 1 .. (Len(q) - 1)
         /\ \A i \in 1 .. (Len(q) - 1) : Tail(q)[i] = q[i + 1]
  OBVIOUS

LEMMA NotNone == NoCall \notin [slot : Slot, job : Job] /\ None \notin Slot /\ None \notin Job
  BY ConstantsAssumption DEF NoCall, Slot, Job

-----------------------------------------------------------------------------
(* ---- types ---- *)

LEMMA TypedInit == Init => Typed
  BY ConstantsAssumption, NotNone DEF Init, Typed, At, NoCall, Slot, Shard, Job, Busy

LEMMA NotifiedTyped ==
  ASSUME Typed, NEW k \in Shard
  PROVE  /\ Notified(k) \in [Shard -> [at : {"check", "parking", "asleep", "ended"} \cup Busy,
                                       slot : Slot \cup {None}, job : Job \cup {None}]]
         /\ \A l \in Shard : Notified(k)[l].at \in Busy <=> worker[l].at \in Busy
         /\ \A l \in Shard : Notified(k)[l].slot = worker[l].slot
         /\ \A l \in Shard : Notified(k)[l].job = worker[l].job
         /\ \A l \in Shard : Notified(k)[l].at \in Busy => Notified(k)[l] = worker[l]
  BY ZenonT(60) DEF Typed, Notified, Busy

LEMMA TypedNext == Typed /\ [Next]_vars => Typed'
<1> SUFFICES ASSUME Typed, [Next]_vars PROVE Typed'
  OBVIOUS
<1> USE ConstantsAssumption, NotNone DEF Typed
<1>1. ASSUME NEW c \in Caller, Refuse(c) PROVE Typed'
  BY <1>1 DEF Refuse, Asks, Job
<1>2. ASSUME NEW c \in Caller, TakeSlot(c) PROVE Typed'
  <2> asked + 1 \in Job /\ Head(empty) \in Slot /\ Tail(empty) \in Seq(Slot)
    BY <1>2, TailAt DEF TakeSlot, Asks, Job
  <2> QED
    BY <1>2 DEF TakeSlot, Asks, Job
<1>3. ASSUME NEW c \in Caller, Push(c) PROVE Typed'
  <2> DEFINE k == ShardOf[caller[c].job]
  <2>1. caller[c] \in [slot : Slot, job : Job] /\ k \in Shard
    BY <1>3 DEF Push
  <2>2. Append(queue[k], caller[c].slot) \in Seq(Slot)
    BY <2>1
  <2> QED
    BY <1>3, <2>1, <2>2, NotifiedTyped DEF Push
<1>4. ASSUME NEW k \in Shard, Work(k) PROVE Typed'
  <2>1. CASE End(k) \/ Decide(k) \/ Park(k)
    <3>1. PICK p \in {"ended", "parking", "asleep"} : worker' = [worker EXCEPT ![k] = At(p)]
      BY <2>1 DEF End, Decide, Park
    <3>2. At(p) \in [at : {"check", "parking", "asleep", "ended"} \cup Busy,
                     slot : Slot \cup {None}, job : Job \cup {None}]
          /\ At(p).at \notin Busy
      BY DEF At, Busy
    <3>3. UNCHANGED <<slots, empty, queue, caller, stopping, stopper, results, answered, asked>>
      BY <2>1 DEF End, Decide, Park
    <3> QED
      BY <3>1, <3>2, <3>3
  <2>2. CASE Pop(k)
    BY <2>2, TailAt DEF Pop, Busy
  <2>3. CASE RunOne(k)
    <3>1. worker[k].slot \in Slot /\ slots[worker[k].slot] \in Job \cup {None}
      BY <2>3 DEF RunOne, Busy
    <3>2. worker' = [worker EXCEPT ![k] = [at |-> "querying", slot |-> worker[k].slot,
                                          job |-> slots[worker[k].slot]]]
      BY <2>3 DEF RunOne
    <3> QED
      BY <2>3, <3>1, <3>2 DEF RunOne, Busy
  <2>4. CASE Finish(k)
    <3>1. worker[k].slot \in Slot /\ Append(empty, worker[k].slot) \in Seq(Slot)
      BY <2>4 DEF Finish, Busy
    <3>2. Posted(k) \in Seq(Job)
      BY DEF Posted
    <3>3. worker' = [worker EXCEPT ![k] = [at |-> "ran", slot |-> worker[k].slot, job |-> None]]
      BY <2>4 DEF Finish
    <3>4. slots' \in [Slot -> Job \cup {None}] /\ empty' \in Seq(Slot)
      BY <2>4, <3>1 DEF Finish
    <3> QED
      BY <2>4, <3>1, <3>2, <3>3, <3>4 DEF Finish, Busy
  <2>5. CASE Recycle(k)
    BY <2>5 DEF Recycle, At, Busy
  <2> QED
    BY <1>4, <2>1, <2>2, <2>3, <2>4, <2>5 DEF Work
<1>5. CASE DrainDqsResults
  BY <1>5 DEF DrainDqsResults
<1>6. CASE BeginStop
  BY <1>6 DEF BeginStop, Shard
<1>7. CASE Stop
  <2>1. CASE RequestStop
    BY <2>1 DEF RequestStop
  <2>2. CASE NotifyAll
    BY <2>2, NotifiedTyped DEF NotifyAll
  <2>3. CASE Join
    <3>1. stopper.at \in 1 .. Shards
      BY <2>3 DEF Join, Shard
    <3>2. \/ stopper' = [at |-> Shards, step |-> "stopped"]
          \/ stopper' = [at |-> stopper.at + 1, step |-> "request"] /\ stopper.at + 1 \in 1 .. Shards
      BY <2>3, <3>1 DEF Join
    <3>3. stopper' \in [at : 0 .. Shards, step : {"running", "request", "notify", "join", "stopped"}]
          /\ (stopper'.step \in {"request", "notify", "join"} => stopper'.at \in Shard)
      BY <3>1, <3>2 DEF Shard
    <3> QED
      BY <2>3, <3>3 DEF Join
  <2> QED
    BY <1>7, <2>1, <2>2, <2>3 DEF Stop
<1>8. CASE UNCHANGED vars
  BY <1>8 DEF vars
<1> QED
  BY <1>1, <1>2, <1>3, <1>4, <1>5, <1>6, <1>7, <1>8 DEF Next

-----------------------------------------------------------------------------
(* ---- ownership ---- *)

LEMMA OwnedInit == Init => Owned
  BY ConstantsAssumption, NotNone
  DEF Init, Owned, EmptyOnce, CallersApart, QueuesApart, WorkersApart, FreeApart, PushApart,
      WorkApart, Covered, At, NoCall, Slot, Shard, Busy

\* What changes nothing but where idle workers stand moves no slot.
LEMMA OwnedKept ==
  ASSUME Owned, UNCHANGED <<empty, queue, caller>>,
         \A k \in Shard : /\ worker'[k].at \in Busy <=> worker[k].at \in Busy
                          /\ worker[k].at \in Busy => worker'[k].slot = worker[k].slot
  PROVE  Owned'
<1>1. CallersApart' /\ EmptyOnce' /\ QueuesApart'
  BY DEF Owned, CallersApart, EmptyOnce, QueuesApart
<1>2. WorkersApart'
  BY DEF Owned, WorkersApart
<1>3. FreeApart' /\ PushApart' /\ WorkApart'
  BY DEF Owned, FreeApart, PushApart, WorkApart
<1>4. Covered'
  BY DEF Owned, Covered
<1> QED
  BY <1>1, <1>2, <1>3, <1>4 DEF Owned

\* The free list to a caller.
LEMMA OwnedTake ==
  ASSUME Typed, Owned, NEW c \in Caller, TakeSlot(c)
  PROVE  Owned'
<1> DEFINE s == Head(empty)
<1>1. /\ Len(empty) \in Nat \ {0}
      /\ DOMAIN empty = 1 .. Len(empty)
      /\ DOMAIN empty' = 1 .. (Len(empty) - 1)
      /\ \A i \in 1 .. (Len(empty) - 1) : empty'[i] = empty[i + 1]
      /\ s = empty[1] /\ s \in Slot
  BY TailAt DEF Typed, TakeSlot
<1>2. /\ caller'[c] # NoCall /\ caller'[c].slot = s
      /\ \A d \in Caller : d # c => caller'[d] = caller[d]
      /\ caller[c] = NoCall
  BY <1>1, NotNone DEF TakeSlot, Typed, Asks, NoCall
<1>3. UNCHANGED <<queue, worker>>
  BY DEF TakeSlot
<1> HIDE DEF s
<1>4. EmptyOnce'
  BY <1>1 DEF Owned, EmptyOnce
<1>5. CallersApart'
  BY <1>1, <1>2 DEF Owned, CallersApart, FreeApart
<1>6. QueuesApart' /\ WorkersApart' /\ WorkApart'
  BY <1>3 DEF Owned, QueuesApart, WorkersApart, WorkApart
<1>7. FreeApart'
  BY <1>1, <1>2, <1>3 DEF Owned, FreeApart, EmptyOnce
<1>8. PushApart'
  BY <1>1, <1>2, <1>3 DEF Owned, PushApart, FreeApart
<1>9. Covered'
  <2> SUFFICES ASSUME NEW t \in Slot
               PROVE  \/ \E i \in DOMAIN empty' : empty'[i] = t
                      \/ \E d \in Caller : caller'[d] # NoCall /\ caller'[d].slot = t
                      \/ \E k \in Shard : \E j \in DOMAIN queue[k] : queue[k][j] = t
                      \/ \E k \in Shard : worker[k].at \in Busy /\ worker[k].slot = t
    BY <1>3 DEF Covered
  <2>1. CASE \E i \in DOMAIN empty : empty[i] = t
    <3> PICK i \in DOMAIN empty : empty[i] = t
      BY <2>1
    <3>1. CASE i = 1
      BY <3>1, <1>1, <1>2
    <3>2. CASE i # 1
      <4> i - 1 \in DOMAIN empty' /\ empty'[i - 1] = t
        BY <3>2, <1>1
      <4> QED
        OBVIOUS
    <3> QED
      BY <3>1, <3>2
  <2>2. CASE ~\E i \in DOMAIN empty : empty[i] = t
    BY <2>2, <1>2 DEF Owned, Covered
  <2> QED
    BY <2>1, <2>2
<1> QED
  BY <1>4, <1>5, <1>6, <1>7, <1>8, <1>9 DEF Owned

\* A caller to a queue.
LEMMA OwnedPush ==
  ASSUME Typed, Owned, NEW c \in Caller, Push(c)
  PROVE  Owned'
<1> DEFINE k == ShardOf[caller[c].job]
           s == caller[c].slot
<1>1. caller[c] # NoCall /\ k \in Shard /\ s \in Slot
  BY ConstantsAssumption DEF Push, Typed
<1>2. /\ Len(queue[k]) \in Nat
      /\ DOMAIN queue[k] = 1 .. Len(queue[k])
      /\ DOMAIN queue'[k] = 1 .. (Len(queue[k]) + 1)
      /\ \A i \in 1 .. Len(queue[k]) : queue'[k][i] = queue[k][i]
      /\ queue'[k][Len(queue[k]) + 1] = s
      /\ \A l \in Shard : l # k => queue'[l] = queue[l]
  BY <1>1, AppendAt DEF Push, Typed
<1>3. caller'[c] = NoCall /\ \A d \in Caller : d # c => caller'[d] = caller[d]
  BY DEF Push, Typed
<1>4. \A l \in Shard : /\ worker'[l].at \in Busy <=> worker[l].at \in Busy
                       /\ worker'[l].slot = worker[l].slot
  BY <1>1, NotifiedTyped DEF Push
<1>5. empty' = empty
  BY DEF Push
<1> HIDE DEF k, s
<1>6. EmptyOnce' /\ WorkersApart'
  BY <1>4, <1>5 DEF Owned, EmptyOnce, WorkersApart
<1>7. CallersApart'
  BY <1>3 DEF Owned, CallersApart
<1>8. QueuesApart'
  <2> SUFFICES ASSUME NEW l \in Shard, NEW n \in Shard,
                      NEW i \in DOMAIN queue'[l], NEW j \in DOMAIN queue'[n],
                      queue'[l][i] = queue'[n][j]
               PROVE  l = n /\ i = j
    BY DEF QueuesApart
  <2>1. CASE i \in DOMAIN queue[l] /\ j \in DOMAIN queue[n]
    BY <2>1, <1>2 DEF Owned, QueuesApart
  <2>2. CASE i \notin DOMAIN queue[l] /\ j \in DOMAIN queue[n]
    <3>1. l = k /\ queue'[l][i] = s
      BY <2>2, <1>2
    <3> QED
      BY <3>1, <2>2, <1>1, <1>2 DEF Owned, PushApart, s
  <2>3. CASE i \in DOMAIN queue[l] /\ j \notin DOMAIN queue[n]
    <3>1. n = k /\ queue'[n][j] = s
      BY <2>3, <1>2
    <3> QED
      BY <3>1, <2>3, <1>1, <1>2 DEF Owned, PushApart, s
  <2>4. CASE i \notin DOMAIN queue[l] /\ j \notin DOMAIN queue[n]
    BY <2>4, <1>2
  <2> QED
    BY <2>1, <2>2, <2>3, <2>4
<1>9. FreeApart'
  <2> SUFFICES ASSUME NEW i \in DOMAIN empty
               PROVE  /\ \A d \in Caller : caller'[d] # NoCall => empty[i] # caller'[d].slot
                      /\ \A l \in Shard : \A j \in DOMAIN queue'[l] : empty[i] # queue'[l][j]
                      /\ \A l \in Shard : worker'[l].at \in Busy => empty[i] # worker'[l].slot
    BY <1>5 DEF FreeApart
  <2>1. \A d \in Caller : caller'[d] # NoCall => empty[i] # caller'[d].slot
    BY <1>3 DEF Owned, FreeApart
  <2>2. \A l \in Shard : \A j \in DOMAIN queue'[l] : empty[i] # queue'[l][j]
    BY <1>1, <1>2, SMTT(30) DEF Owned, FreeApart, s
  <2>3. \A l \in Shard : worker'[l].at \in Busy => empty[i] # worker'[l].slot
    BY <1>4 DEF Owned, FreeApart
  <2> QED
    BY <2>1, <2>2, <2>3
<1>10. PushApart'
  <2> SUFFICES ASSUME NEW d \in Caller, caller'[d] # NoCall
               PROVE  /\ \A l \in Shard : \A j \in DOMAIN queue'[l] : caller'[d].slot # queue'[l][j]
                      /\ \A l \in Shard : worker'[l].at \in Busy => caller'[d].slot # worker'[l].slot
    BY DEF PushApart
  <2>1. d # c /\ caller'[d] = caller[d] /\ caller[d].slot # s
    BY <1>1, <1>3 DEF Owned, CallersApart, s
  <2> QED
    BY <2>1, <1>2, <1>4 DEF Owned, PushApart
<1>11. WorkApart'
  BY <1>1, <1>2, <1>4, SMTT(30) DEF Owned, WorkApart, PushApart, s
<1>12. Covered'
  <2> SUFFICES ASSUME NEW t \in Slot
               PROVE  \/ \E i \in DOMAIN empty' : empty'[i] = t
                      \/ \E d \in Caller : caller'[d] # NoCall /\ caller'[d].slot = t
                      \/ \E l \in Shard : \E j \in DOMAIN queue'[l] : queue'[l][j] = t
                      \/ \E l \in Shard : worker'[l].at \in Busy /\ worker'[l].slot = t
    BY DEF Covered
  <2>1. CASE t = s
    <3> Len(queue[k]) + 1 \in DOMAIN queue'[k] /\ k \in Shard
      BY <1>1, <1>2
    <3> QED
      BY <2>1, <1>2
  <2>2. CASE t # s
    <3>1. CASE \E i \in DOMAIN empty : empty[i] = t
      BY <3>1, <1>5
    <3>2. CASE \E d \in Caller : caller[d] # NoCall /\ caller[d].slot = t
      BY <3>2, <2>2, <1>3 DEF s
    <3>3. CASE \E l \in Shard : \E j \in DOMAIN queue[l] : queue[l][j] = t
      <4> PICK l \in Shard : \E j \in DOMAIN queue[l] : queue[l][j] = t
        BY <3>3
      <4> PICK j \in DOMAIN queue[l] : queue[l][j] = t
        OBVIOUS
      <4> j \in DOMAIN queue'[l] /\ queue'[l][j] = t
        BY <1>2
      <4> QED
        OBVIOUS
    <3>4. CASE \E l \in Shard : worker[l].at \in Busy /\ worker[l].slot = t
      BY <3>4, <1>4
    <3> QED
      BY <3>1, <3>2, <3>3, <3>4 DEF Owned, Covered
  <2> QED
    BY <2>1, <2>2
<1> QED
  BY <1>6, <1>7, <1>8, <1>9, <1>10, <1>11, <1>12 DEF Owned

\* A queue to its worker.
LEMMA OwnedPop ==
  ASSUME Typed, Owned, NEW k \in Shard, Pop(k)
  PROVE  Owned'
<1> DEFINE s == Head(queue[k])
<1>1. /\ Len(queue[k]) \in Nat \ {0}
      /\ DOMAIN queue[k] = 1 .. Len(queue[k])
      /\ DOMAIN queue'[k] = 1 .. (Len(queue[k]) - 1)
      /\ \A i \in 1 .. (Len(queue[k]) - 1) : queue'[k][i] = queue[k][i + 1]
      /\ s = queue[k][1] /\ s \in Slot
      /\ \A l \in Shard : l # k => queue'[l] = queue[l]
  BY TailAt DEF Typed, Pop
<1>2. /\ worker'[k].at \in Busy /\ worker'[k].slot = s
      /\ \A l \in Shard : l # k => worker'[l] = worker[l]
      /\ worker[k].at \notin Busy
  BY DEF Pop, Typed, Busy
<1>3. UNCHANGED <<empty, caller>>
  BY DEF Pop
<1> HIDE DEF s
\* What is still queued was queued one further on, and is not the slot popped.
<1>4. \A l \in Shard : \A j \in DOMAIN queue'[l] :
        \E i \in DOMAIN queue[l] : /\ queue'[l][j] = queue[l][i]
                                   /\ i = IF l = k THEN j + 1 ELSE j
  <2> SUFFICES ASSUME NEW l \in Shard, NEW j \in DOMAIN queue'[l]
               PROVE  \E i \in DOMAIN queue[l] : /\ queue'[l][j] = queue[l][i]
                                                 /\ i = IF l = k THEN j + 1 ELSE j
    OBVIOUS
  <2>1. CASE l = k
    <3> j + 1 \in DOMAIN queue[k] /\ queue'[k][j] = queue[k][j + 1]
      BY <2>1, <1>1
    <3> QED
      BY <2>1
  <2>2. CASE l # k
    BY <2>2, <1>1
  <2> QED
    BY <2>1, <2>2
<1>5. \A l \in Shard : \A j \in DOMAIN queue'[l] : queue'[l][j] # s
  <2> SUFFICES ASSUME NEW l \in Shard, NEW j \in DOMAIN queue'[l], queue'[l][j] = s
               PROVE  FALSE
    OBVIOUS
  <2>1. PICK i \in DOMAIN queue[l] : /\ queue'[l][j] = queue[l][i]
                                     /\ i = IF l = k THEN j + 1 ELSE j
    BY <1>4
  <2>2. 1 \in DOMAIN queue[k] /\ queue[k][1] = queue[l][i]
    BY <1>1, <2>1
  <2>3. k = l /\ 1 = i
    BY <2>1, <2>2 DEF Owned, QueuesApart
  <2>4. j \in 1 .. (Len(queue[k]) - 1) /\ i = j + 1
    BY <2>1, <2>3, <1>1
  <2> QED
    BY <2>3, <2>4
<1>6. EmptyOnce' /\ CallersApart'
  BY <1>3 DEF Owned, EmptyOnce, CallersApart
<1>7. QueuesApart'
  <2> SUFFICES ASSUME NEW l \in Shard, NEW n \in Shard,
                      NEW i \in DOMAIN queue'[l], NEW j \in DOMAIN queue'[n],
                      queue'[l][i] = queue'[n][j]
               PROVE  l = n /\ i = j
    BY DEF QueuesApart
  <2>4. PICK a \in DOMAIN queue[l] : queue'[l][i] = queue[l][a] /\ a = IF l = k THEN i + 1 ELSE i
    BY <1>4
  <2>5. PICK b \in DOMAIN queue[n] : queue'[n][j] = queue[n][b] /\ b = IF n = k THEN j + 1 ELSE j
    BY <1>4
  <2>6. queue[l][a] = queue[n][b]
    BY <2>4, <2>5
  <2>7. \A v, w \in Shard : \A x \in DOMAIN queue[v], y \in DOMAIN queue[w] :
          queue[v][x] = queue[w][y] => v = w /\ x = y
    BY DEF Owned, QueuesApart
  <2>1. l = n /\ a = b
    BY <2>6, <2>7, Zenon
  <2>2. CASE l = k
    <3>1. i \in Int /\ j \in Int
      BY <2>1, <2>2, <1>1
    <3>2. n = k
      BY <2>1, <2>2
    <3>3. a = i + 1
      BY <2>2, <2>4
    <3>4. b = j + 1
      BY <3>2, <2>5
    <3>5. i + 1 = j + 1
      BY <2>1, <3>3, <3>4
    <3>6. i = j
      BY <3>1, <3>5, Z3
    <3> QED
      BY <2>1, <3>6
  <2>3. CASE l # k
    BY <2>1, <2>3, <2>4, <2>5
  <2> QED
    BY <2>2, <2>3
<1>8. WorkersApart'
  BY <1>1, <1>2 DEF Owned, WorkersApart, WorkApart
<1>9. FreeApart'
  <2> SUFFICES ASSUME NEW i \in DOMAIN empty
               PROVE  /\ \A d \in Caller : caller[d] # NoCall => empty[i] # caller[d].slot
                      /\ \A l \in Shard : \A j \in DOMAIN queue'[l] : empty[i] # queue'[l][j]
                      /\ \A l \in Shard : worker'[l].at \in Busy => empty[i] # worker'[l].slot
    BY <1>3 DEF FreeApart
  <2>1. \A l \in Shard : \A j \in DOMAIN queue'[l] : empty[i] # queue'[l][j]
    BY <1>4 DEF Owned, FreeApart
  <2>2. \A l \in Shard : worker'[l].at \in Busy => empty[i] # worker'[l].slot
    BY <1>1, <1>2 DEF Owned, FreeApart
  <2> QED
    BY <2>1, <2>2 DEF Owned, FreeApart
<1>10. PushApart'
  <2> SUFFICES ASSUME NEW d \in Caller, caller[d] # NoCall
               PROVE  /\ \A l \in Shard : \A j \in DOMAIN queue'[l] : caller[d].slot # queue'[l][j]
                      /\ \A l \in Shard : worker'[l].at \in Busy => caller[d].slot # worker'[l].slot
    BY <1>3 DEF PushApart
  <2>1. \A l \in Shard : \A j \in DOMAIN queue'[l] : caller[d].slot # queue'[l][j]
    BY <1>4 DEF Owned, PushApart
  <2>2. \A l \in Shard : worker'[l].at \in Busy => caller[d].slot # worker'[l].slot
    BY <1>1, <1>2 DEF Owned, PushApart
  <2> QED
    BY <2>1, <2>2
<1>11. WorkApart'
  <2> SUFFICES ASSUME NEW l \in Shard, NEW n \in Shard, NEW j \in DOMAIN queue'[l],
                      worker'[n].at \in Busy
               PROVE  queue'[l][j] # worker'[n].slot
    BY DEF WorkApart
  <2>1. CASE n = k
    BY <2>1, <1>2, <1>5
  <2>2. CASE n # k
    BY <2>2, <1>2, <1>4 DEF Owned, WorkApart
  <2> QED
    BY <2>1, <2>2
<1>12. Covered'
  <2> SUFFICES ASSUME NEW t \in Slot
               PROVE  \/ \E i \in DOMAIN empty : empty[i] = t
                      \/ \E d \in Caller : caller[d] # NoCall /\ caller[d].slot = t
                      \/ \E l \in Shard : \E j \in DOMAIN queue'[l] : queue'[l][j] = t
                      \/ \E l \in Shard : worker'[l].at \in Busy /\ worker'[l].slot = t
    BY <1>3 DEF Covered
  <2>1. CASE t = s
    BY <2>1, <1>2
  <2>2. CASE \E l \in Shard : \E j \in DOMAIN queue[l] : queue[l][j] = t /\ t # s
    <3> PICK l \in Shard : \E j \in DOMAIN queue[l] : queue[l][j] = t /\ t # s
      BY <2>2
    <3> PICK j \in DOMAIN queue[l] : queue[l][j] = t /\ t # s
      OBVIOUS
    <3>1. CASE l # k
      BY <3>1, <1>1
    <3>2. CASE l = k
      <4> j # 1 /\ j - 1 \in DOMAIN queue'[k] /\ queue'[k][j - 1] = t
        BY <3>2, <1>1
      <4> QED
        OBVIOUS
    <3> QED
      BY <3>1, <3>2
  <2>3. CASE \E l \in Shard : worker[l].at \in Busy /\ worker[l].slot = t
    BY <2>3, <1>2
  <2> QED
    BY <2>1, <2>2, <2>3 DEF Owned, Covered
<1> QED
  BY <1>6, <1>7, <1>8, <1>9, <1>10, <1>11, <1>12 DEF Owned

\* A worker to the free list.
LEMMA OwnedRecycle ==
  ASSUME Typed, Owned, NEW k \in Shard, Recycle(k)
  PROVE  Owned'
<1> DEFINE s == worker[k].slot
<1>1. worker[k].at \in Busy /\ s \in Slot
  BY DEF Recycle, Typed, Busy
<1>2. /\ Len(empty) \in Nat
      /\ DOMAIN empty = 1 .. Len(empty)
      /\ DOMAIN empty' = 1 .. (Len(empty) + 1)
      /\ \A i \in 1 .. Len(empty) : empty'[i] = empty[i]
      /\ empty'[Len(empty) + 1] = s
  BY <1>1, AppendAt DEF Recycle, Typed
<1>3. worker'[k].at \notin Busy /\ \A l \in Shard : l # k => worker'[l] = worker[l]
  BY DEF Recycle, Typed, At, Busy
<1>4. UNCHANGED <<queue, caller>>
  BY DEF Recycle
<1> HIDE DEF s
<1>5. EmptyOnce'
  BY <1>1, <1>2 DEF Owned, EmptyOnce, FreeApart, s
<1>6. CallersApart' /\ QueuesApart'
  BY <1>4 DEF Owned, CallersApart, QueuesApart
<1>7. WorkersApart' /\ PushApart' /\ WorkApart'
  BY <1>3, <1>4 DEF Owned, WorkersApart, PushApart, WorkApart
<1>8. FreeApart'
  <2> SUFFICES ASSUME NEW i \in DOMAIN empty'
               PROVE  /\ \A d \in Caller : caller[d] # NoCall => empty'[i] # caller[d].slot
                      /\ \A l \in Shard : \A j \in DOMAIN queue[l] : empty'[i] # queue[l][j]
                      /\ \A l \in Shard : worker'[l].at \in Busy => empty'[i] # worker'[l].slot
    BY <1>4 DEF FreeApart
  <2>1. CASE i \in DOMAIN empty
    BY <2>1, <1>2, <1>3 DEF Owned, FreeApart
  <2>2. CASE i \notin DOMAIN empty
    <3>1. empty'[i] = worker[k].slot
      BY <2>2, <1>2 DEF s
    <3>2. \A l \in Shard : worker'[l].at \in Busy => l # k /\ worker'[l] = worker[l]
      BY <1>3
    <3> QED
      BY <3>1, <3>2, <1>1 DEF Owned, PushApart, WorkApart, WorkersApart
  <2> QED
    BY <2>1, <2>2
<1>9. Covered'
  <2> SUFFICES ASSUME NEW t \in Slot
               PROVE  \/ \E i \in DOMAIN empty' : empty'[i] = t
                      \/ \E d \in Caller : caller[d] # NoCall /\ caller[d].slot = t
                      \/ \E l \in Shard : \E j \in DOMAIN queue[l] : queue[l][j] = t
                      \/ \E l \in Shard : worker'[l].at \in Busy /\ worker'[l].slot = t
    BY <1>4 DEF Covered
  <2>1. CASE t = s
    <3> Len(empty) + 1 \in DOMAIN empty' /\ empty'[Len(empty) + 1] = t
      BY <2>1, <1>2
    <3> QED
      OBVIOUS
  <2>2. CASE \E i \in DOMAIN empty : empty[i] = t
    <3> PICK i \in DOMAIN empty : empty[i] = t
      BY <2>2
    <3> i \in DOMAIN empty' /\ empty'[i] = t
      BY <1>2
    <3> QED
      OBVIOUS
  <2>3. CASE \E l \in Shard : worker[l].at \in Busy /\ worker[l].slot = t /\ t # s
    BY <2>3, <1>3 DEF s
  <2> QED
    BY <2>1, <2>2, <2>3 DEF Owned, Covered
<1> QED
  BY <1>5, <1>6, <1>7, <1>8, <1>9 DEF Owned

\* Every other step leaves the slots where they are.
LEMMA OwnedNext == ~FreedByJob /\ Typed /\ Owned /\ [Next]_vars => Owned'
<1> SUFFICES ASSUME ~FreedByJob, Typed, Owned, [Next]_vars PROVE Owned'
  OBVIOUS
<1>1. ASSUME NEW c \in Caller, Refuse(c) PROVE Owned'
  BY <1>1, OwnedKept DEF Refuse
<1>2. ASSUME NEW k \in Shard, Work(k) PROVE Owned'
  <2>1. CASE End(k) \/ Decide(k) \/ Park(k)
    <3> /\ UNCHANGED <<empty, queue, caller>>
        /\ \A l \in Shard : /\ worker'[l].at \in Busy <=> worker[l].at \in Busy
                            /\ worker[l].at \in Busy => worker'[l].slot = worker[l].slot
      <4> PICK p \in {"ended", "parking", "asleep"} : worker' = [worker EXCEPT ![k] = At(p)]
        BY <2>1 DEF End, Decide, Park
      <4> worker[k].at \notin Busy /\ At(p).at \notin Busy
        BY <2>1 DEF End, Decide, Park, At, Busy
      <4> /\ worker'[k] = At(p)
          /\ \A l \in Shard : l # k => worker'[l] = worker[l]
        BY DEF Typed
      <4> UNCHANGED <<empty, queue, caller>>
        BY <2>1 DEF End, Decide, Park
      <4> QED
        OBVIOUS
    <3> QED
      BY OwnedKept
  <2>2. CASE RunOne(k) \/ Finish(k)
    <3> /\ UNCHANGED <<empty, queue, caller>>
        /\ \A l \in Shard : /\ worker'[l].at \in Busy <=> worker[l].at \in Busy
                            /\ worker[l].at \in Busy => worker'[l].slot = worker[l].slot
      <4> worker[k].at \in Busy
        BY <2>2 DEF RunOne, Finish, Busy
      <4> /\ worker'[k].at \in Busy /\ worker'[k].slot = worker[k].slot
          /\ \A l \in Shard : l # k => worker'[l] = worker[l]
        BY <2>2 DEF RunOne, Finish, Typed, Busy
      <4> UNCHANGED <<empty, queue, caller>>
        BY <2>2 DEF RunOne, Finish
      <4> QED
        OBVIOUS
    <3> QED
      BY OwnedKept
  <2> QED
    BY <1>2, <2>1, <2>2, OwnedPop, OwnedRecycle DEF Work
<1>3. ASSUME Stop PROVE Owned'
  <2>1. CASE NotifyAll
    <3> /\ UNCHANGED <<empty, queue, caller>>
        /\ \A l \in Shard : /\ worker'[l].at \in Busy <=> worker[l].at \in Busy
                            /\ worker[l].at \in Busy => worker'[l].slot = worker[l].slot
      <4> stopper.at \in Shard
        BY <2>1 DEF NotifyAll, Typed
      <4> QED
        BY <2>1, NotifiedTyped DEF NotifyAll
    <3> QED
      BY OwnedKept
  <2> QED
    BY <1>3, <2>1, OwnedKept DEF Stop, RequestStop, Join
<1>4. CASE DrainDqsResults \/ BeginStop \/ UNCHANGED vars
  BY <1>4, OwnedKept DEF DrainDqsResults, BeginStop, vars
<1> QED
  BY <1>1, <1>2, <1>3, <1>4, OwnedTake, OwnedPush DEF Next

LEMMA OwnedAlways == ~FreedByJob => (Spec => [](Typed /\ Owned))
<1> SUFFICES ASSUME ~FreedByJob PROVE Spec => [](Typed /\ Owned)
  OBVIOUS
<1>1. Init => Typed /\ Owned
  BY TypedInit, OwnedInit
<1>2. Typed /\ Owned /\ [Next]_vars => Typed' /\ Owned'
  BY TypedNext, OwnedNext
<1> QED
  BY <1>1, <1>2, PTL DEF Spec

-----------------------------------------------------------------------------
(* ---- what the ownership of slots gives ---- *)

\* A free list without repetitions is no longer than the pool.
LEMMA FreeListBounded ==
  ASSUME Typed, Owned PROVE Len(empty) <= Slots
<1>1. Len(empty) \in Nat /\ DOMAIN empty = 1 .. Len(empty) /\ Slots \in Nat
  BY ConstantsAssumption DEF Typed
<1>2. IsFiniteSet(Slot) /\ Cardinality(Slot) = Slots
  BY <1>1, FS_Interval, SMTT(30) DEF Slot
<1>3. Cardinality(1 .. Len(empty)) = Len(empty)
  <2> Len(empty) \in Int /\ 1 \in Int
    BY <1>1
  <2> Cardinality(1 .. Len(empty)) = IF 1 > Len(empty) THEN 0 ELSE Len(empty) - 1 + 1
    BY FS_Interval
  <2> QED
    BY <1>1
<1>4. empty \in Injection(1 .. Len(empty), Slot)
  <2>1. empty \in [1 .. Len(empty) -> Slot]
    BY DEF Typed
  <2>2. \A i, j \in 1 .. Len(empty) : empty[i] = empty[j] => i = j
    BY <1>1 DEF Owned, EmptyOnce
  <2> QED
    BY <1>1, <2>1, <2>2 DEF Injection, IsInjective
<1>5. Cardinality(1 .. Len(empty)) <= Cardinality(Slot)
  BY <1>2, <1>4, FS_Injection
<1> QED
  BY <1>1, <1>2, <1>3, <1>5

\* The free list never holds more than the pool, and every variable keeps its
\* type, for the server whose run does not give the slot back itself
\* (account_line_runtime.cpp, RecycleDqsSlot_).
THEOREM TypeCorrect == ~FreedByJob => (Spec => []TypeOK)
<1> SUFFICES ASSUME ~FreedByJob PROVE Spec => []TypeOK
  OBVIOUS
<1>1. Typed /\ Owned => TypeOK
  BY FreeListBounded DEF Typed, TypeOK
<1> QED
  BY <1>1, OwnedAlways, PTL

\* The places, one kind at a time.
LEMMA PlacesAre ==
  \A r : r \in Places <=>
    \/ \E i \in DOMAIN empty : r = <<"empty", i>>
    \/ \E c \in Caller : caller[c] # NoCall /\ r = <<"caller", c>>
    \/ \E k \in Shard : \E i \in DOMAIN queue[k] : r = <<"queue", k, i>>
    \/ \E k \in Shard : worker[k].at \in Busy /\ r = <<"worker", k>>
<1>1. \A r : r \in FreePlaces <=> \E i \in DOMAIN empty : r = <<"empty", i>>
  BY DEF FreePlaces
<1>2. \A r : r \in CallerPlaces <=> \E c \in Caller : caller[c] # NoCall /\ r = <<"caller", c>>
  BY DEF CallerPlaces
<1>3. \A r : r \in QueuePlaces <=>
        \E k \in Shard : \E i \in DOMAIN queue[k] : r = <<"queue", k, i>>
  BY DEF QueuePlaces
<1>4. \A r : r \in WorkerPlaces <=> \E k \in Shard : worker[k].at \in Busy /\ r = <<"worker", k>>
  BY DEF WorkerPlaces
<1>5. \A r : r \in Places <=>
        r \in FreePlaces \/ r \in CallerPlaces \/ r \in QueuePlaces \/ r \in WorkerPlaces
  BY DEF Places
<1> QED
  BY <1>1, <1>2, <1>3, <1>4, <1>5, Zenon

LEMMA SlotAtIs ==
  /\ \A i : SlotAt(<<"empty", i>>) = empty[i]
  /\ \A c : SlotAt(<<"caller", c>>) = caller[c].slot
  /\ \A k, i : SlotAt(<<"queue", k, i>>) = queue[k][i]
  /\ \A k : SlotAt(<<"worker", k>>) = worker[k].slot
<1>1. \A i : SlotAt(<<"empty", i>>) = empty[i]
  BY DEF SlotAt
<1>2. \A c : SlotAt(<<"caller", c>>) = caller[c].slot
  BY DEF SlotAt
<1>3. \A k, i : SlotAt(<<"queue", k, i>>) = queue[k][i]
  BY DEF SlotAt
<1>4. \A k : SlotAt(<<"worker", k>>) = worker[k].slot
  BY DEF SlotAt
<1> QED
  BY <1>1, <1>2, <1>3, <1>4

\* Each place holds one slot: from what is apart pairwise.
LEMMA PlacesApart ==
  ASSUME Typed, Owned,
         NEW p \in Places, NEW q \in Places, SlotAt(p) = SlotAt(q)
  PROVE  p = q
<1>1. \A r \in Places :
        \/ \E i \in DOMAIN empty : r = <<"empty", i>> /\ SlotAt(r) = empty[i]
        \/ \E c \in Caller : caller[c] # NoCall /\ r = <<"caller", c>> /\ SlotAt(r) = caller[c].slot
        \/ \E k \in Shard : \E i \in DOMAIN queue[k] :
             r = <<"queue", k, i>> /\ SlotAt(r) = queue[k][i]
        \/ \E k \in Shard : worker[k].at \in Busy /\ r = <<"worker", k>> /\ SlotAt(r) = worker[k].slot
  <2> TAKE r \in Places
  <2>1. CASE \E i \in DOMAIN empty : r = <<"empty", i>>
    <3> \E i \in DOMAIN empty : r = <<"empty", i>> /\ SlotAt(r) = empty[i]
      BY <2>1, SlotAtIs
    <3> QED
      OBVIOUS
  <2>2. CASE \E c \in Caller : caller[c] # NoCall /\ r = <<"caller", c>>
    <3> \E c \in Caller : caller[c] # NoCall /\ r = <<"caller", c>> /\ SlotAt(r) = caller[c].slot
      BY <2>2, SlotAtIs
    <3> QED
      OBVIOUS
  <2>3. CASE \E k \in Shard : \E i \in DOMAIN queue[k] : r = <<"queue", k, i>>
    <3> \E k \in Shard : \E i \in DOMAIN queue[k] :
           r = <<"queue", k, i>> /\ SlotAt(r) = queue[k][i]
      BY <2>3, SlotAtIs
    <3> QED
      OBVIOUS
  <2>4. CASE \E k \in Shard : worker[k].at \in Busy /\ r = <<"worker", k>>
    <3> \E k \in Shard : worker[k].at \in Busy /\ r = <<"worker", k>> /\ SlotAt(r) = worker[k].slot
      BY <2>4, SlotAtIs
    <3> QED
      OBVIOUS
  <2> QED
    BY <2>1, <2>2, <2>3, <2>4, PlacesAre
<1>2. \/ \E i \in DOMAIN empty : q = <<"empty", i>> /\ SlotAt(q) = empty[i]
      \/ \E c \in Caller : caller[c] # NoCall /\ q = <<"caller", c>> /\ SlotAt(q) = caller[c].slot
      \/ \E k \in Shard : \E i \in DOMAIN queue[k] :
           q = <<"queue", k, i>> /\ SlotAt(q) = queue[k][i]
      \/ \E k \in Shard : worker[k].at \in Busy /\ q = <<"worker", k>> /\ SlotAt(q) = worker[k].slot
  BY <1>1
<1>3. CASE \E i \in DOMAIN empty : p = <<"empty", i>> /\ SlotAt(p) = empty[i]
  BY <1>2, <1>3, SMTT(30) DEF Owned, EmptyOnce, FreeApart
<1>4. CASE \E c \in Caller : caller[c] # NoCall /\ p = <<"caller", c>> /\ SlotAt(p) = caller[c].slot
  BY <1>2, <1>4, SMTT(30) DEF Owned, CallersApart, FreeApart, PushApart
<1>5. CASE \E k \in Shard : \E i \in DOMAIN queue[k] :
             p = <<"queue", k, i>> /\ SlotAt(p) = queue[k][i]
  BY <1>2, <1>5, SMTT(30) DEF Owned, QueuesApart, FreeApart, PushApart, WorkApart
<1>6. CASE \E k \in Shard : worker[k].at \in Busy /\ p = <<"worker", k>> /\ SlotAt(p) = worker[k].slot
  BY <1>2, <1>6, SMTT(30) DEF Owned, WorkersApart, FreeApart, PushApart, WorkApart
<1> QED
  BY <1>1, <1>3, <1>4, <1>5, <1>6

LEMMA PlaceOf ==
  ASSUME Typed, Owned, NEW s \in Slot
  PROVE  \E p \in Places : SlotAt(p) = s
<1>1. CASE \E i \in DOMAIN empty : empty[i] = s
  <2> PICK i \in DOMAIN empty : empty[i] = s
    BY <1>1
  <2> <<"empty", i>> \in Places /\ SlotAt(<<"empty", i>>) = s
    BY PlacesAre, SlotAtIs, Zenon
  <2> QED
    OBVIOUS
<1>2. CASE \E c \in Caller : caller[c] # NoCall /\ caller[c].slot = s
  <2> PICK c \in Caller : caller[c] # NoCall /\ caller[c].slot = s
    BY <1>2
  <2> <<"caller", c>> \in Places /\ SlotAt(<<"caller", c>>) = s
    BY PlacesAre, SlotAtIs, Zenon
  <2> QED
    OBVIOUS
<1>3. CASE \E k \in Shard : \E j \in DOMAIN queue[k] : queue[k][j] = s
  <2> PICK k \in Shard : \E j \in DOMAIN queue[k] : queue[k][j] = s
    BY <1>3
  <2> PICK j \in DOMAIN queue[k] : queue[k][j] = s
    OBVIOUS
  <2> <<"queue", k, j>> \in Places /\ SlotAt(<<"queue", k, j>>) = s
    BY PlacesAre, SlotAtIs, Zenon
  <2> QED
    OBVIOUS
<1>4. CASE \E k \in Shard : worker[k].at \in Busy /\ worker[k].slot = s
  <2> PICK k \in Shard : worker[k].at \in Busy /\ worker[k].slot = s
    BY <1>4
  <2> <<"worker", k>> \in Places /\ SlotAt(<<"worker", k>>) = s
    BY PlacesAre, SlotAtIs, Zenon
  <2> QED
    OBVIOUS
<1> QED
  BY <1>1, <1>2, <1>3, <1>4 DEF Owned, Covered

\* Every slot is in exactly one place - on the free list, with a caller, in one
\* queue or with one worker - for the account server's push, run and recycle.
THEOREM SlotsOwned == ~FreedByJob => (Spec => []SlotOwned)
<1> SUFFICES ASSUME ~FreedByJob PROVE Spec => []SlotOwned
  OBVIOUS
<1>1. ASSUME Typed, Owned PROVE SlotOwned
  <2> SUFFICES ASSUME NEW s \in Slot
               PROVE  \E p \in Places : \A q \in Places : SlotAt(q) = s <=> q = p
    BY DEF SlotOwned
  <2> PICK p \in Places : SlotAt(p) = s
    BY <1>1, PlaceOf
  <2> \A q \in Places : SlotAt(q) = s <=> q = p
    BY <1>1, PlacesApart
  <2> QED
    OBVIOUS
<1> QED
  BY <1>1, OwnedAlways, PTL

-----------------------------------------------------------------------------
(* ---- the count of slots in flight ---- *)

\* A slot that left the free list holds a payload until it is recycled.
Held ==
  /\ \A c \in Caller : caller[c] # NoCall => slots[caller[c].slot] # None
  /\ \A k \in Shard : \A i \in DOMAIN queue[k] : slots[queue[k][i]] # None
  /\ \A k \in Shard : worker[k].at \in Busy => slots[worker[k].slot] # None

LEMMA HeldKept ==
  ASSUME Held, UNCHANGED <<slots, queue, caller>>,
         \A k \in Shard : worker'[k].at \in Busy =>
                            worker[k].at \in Busy /\ worker'[k].slot = worker[k].slot
  PROVE  Held'
  BY DEF Held

LEMMA HeldTake ==
  ASSUME Typed, Held, NEW c \in Caller, TakeSlot(c)
  PROVE  Held'
<1>1. Head(empty) \in Slot /\ asked + 1 # None
  BY ConstantsAssumption, TailAt DEF TakeSlot, Typed
<1>2. /\ slots'[Head(empty)] # None
      /\ \A s \in Slot : slots[s] # None => slots'[s] # None
  BY <1>1 DEF TakeSlot, Typed
<1>3. /\ caller'[c].slot = Head(empty)
      /\ \A d \in Caller : d # c => caller'[d] = caller[d]
  BY DEF TakeSlot, Typed
<1>4. UNCHANGED <<queue, worker>>
  BY DEF TakeSlot
<1>5. \A d \in Caller : caller'[d] # NoCall => slots'[caller'[d].slot] # None
  <2> SUFFICES ASSUME NEW d \in Caller, caller'[d] # NoCall
               PROVE  slots'[caller'[d].slot] # None
    OBVIOUS
  <2>1. CASE d = c
    BY <2>1, <1>2, <1>3
  <2>2. CASE d # c
    <3> caller[d].slot \in Slot /\ slots[caller[d].slot] # None
      BY <2>2, <1>3 DEF Typed, Held
    <3> QED
      BY <2>2, <1>2, <1>3
  <2> QED
    BY <2>1, <2>2
<1>6. \A k \in Shard : \A i \in DOMAIN queue[k] : slots'[queue[k][i]] # None
  <2> SUFFICES ASSUME NEW k \in Shard, NEW i \in DOMAIN queue[k]
               PROVE  slots'[queue[k][i]] # None
    OBVIOUS
  <2> queue[k][i] \in Slot
    BY DEF Typed
  <2> QED
    BY <1>2 DEF Held
<1>7. \A k \in Shard : worker[k].at \in Busy => slots'[worker[k].slot] # None
  BY <1>2 DEF Typed, Held
<1> QED
  BY <1>4, <1>5, <1>6, <1>7 DEF Held

LEMMA HeldPush ==
  ASSUME Typed, Held, NEW c \in Caller, Push(c)
  PROVE  Held'
<1> DEFINE k == ShardOf[caller[c].job]
<1>1. caller[c] # NoCall /\ k \in Shard /\ caller[c].slot \in Slot
  BY ConstantsAssumption DEF Push, Typed
<1>2. /\ DOMAIN queue[k] = 1 .. Len(queue[k])
      /\ Len(queue[k]) \in Nat
      /\ DOMAIN queue'[k] = 1 .. (Len(queue[k]) + 1)
      /\ \A i \in 1 .. Len(queue[k]) : queue'[k][i] = queue[k][i]
      /\ queue'[k][Len(queue[k]) + 1] = caller[c].slot
      /\ \A l \in Shard : l # k => queue'[l] = queue[l]
  BY <1>1, AppendAt DEF Push, Typed
<1>3. slots' = slots /\ \A d \in Caller : caller'[d] # NoCall => caller'[d] = caller[d]
  BY DEF Push, Typed
<1>4. \A l \in Shard : worker'[l].at \in Busy =>
                         worker[l].at \in Busy /\ worker'[l].slot = worker[l].slot
  BY <1>1, NotifiedTyped DEF Push
<1> HIDE DEF k
<1>5. \A l \in Shard : \A i \in DOMAIN queue'[l] : slots[queue'[l][i]] # None
  <2> SUFFICES ASSUME NEW l \in Shard, NEW i \in DOMAIN queue'[l]
               PROVE  slots[queue'[l][i]] # None
    OBVIOUS
  <2>1. CASE l # k
    BY <2>1, <1>2 DEF Held
  <2>2. CASE l = k /\ i = Len(queue[k]) + 1
    BY <2>2, <1>1, <1>2 DEF Held
  <2>3. CASE l = k /\ i # Len(queue[k]) + 1
    <3> i \in DOMAIN queue[k] /\ queue'[k][i] = queue[k][i]
      BY <2>3, <1>2
    <3> QED
      BY <2>3, <1>1 DEF Held
  <2> QED
    BY <2>1, <2>2, <2>3
<1> QED
  BY <1>3, <1>4, <1>5 DEF Held

LEMMA HeldPop ==
  ASSUME Typed, Held, NEW k \in Shard, Pop(k)
  PROVE  Held'
<1>1. /\ DOMAIN queue[k] = 1 .. Len(queue[k])
      /\ Len(queue[k]) \in Nat \ {0}
      /\ DOMAIN queue'[k] = 1 .. (Len(queue[k]) - 1)
      /\ \A i \in 1 .. (Len(queue[k]) - 1) : queue'[k][i] = queue[k][i + 1]
      /\ worker'[k].slot = queue[k][1]
      /\ \A l \in Shard : l # k => queue'[l] = queue[l] /\ worker'[l] = worker[l]
  BY TailAt DEF Pop, Typed
<1>2. UNCHANGED <<slots, caller>>
  BY DEF Pop
<1>3. \A l \in Shard : \A i \in DOMAIN queue'[l] : slots[queue'[l][i]] # None
  <2> SUFFICES ASSUME NEW l \in Shard, NEW i \in DOMAIN queue'[l]
               PROVE  slots[queue'[l][i]] # None
    OBVIOUS
  <2>1. CASE l # k
    BY <2>1, <1>1 DEF Held
  <2>2. CASE l = k
    <3> i + 1 \in DOMAIN queue[k] /\ queue'[k][i] = queue[k][i + 1]
      BY <2>2, <1>1
    <3> QED
      BY <2>2 DEF Held
  <2> QED
    BY <2>1, <2>2
<1>4. \A l \in Shard : worker'[l].at \in Busy => slots[worker'[l].slot] # None
  <2> 1 \in DOMAIN queue[k]
    BY <1>1
  <2> QED
    BY <1>1 DEF Held
<1> QED
  BY <1>2, <1>3, <1>4 DEF Held

\* Only the worker's own slot is reset, and by Owned nobody else has it.
LEMMA HeldRecycle ==
  ASSUME Typed, Owned, Held, NEW k \in Shard, Recycle(k)
  PROVE  Held'
<1>1. worker[k].at \in Busy /\ worker[k].slot \in Slot
  BY DEF Recycle, Typed, Busy
<1>2. \A s \in Slot : s # worker[k].slot => slots'[s] = slots[s]
  BY DEF Recycle, Typed
<1>3. /\ UNCHANGED <<queue, caller>>
      /\ worker'[k].at \notin Busy
      /\ \A l \in Shard : l # k => worker'[l] = worker[l]
  BY DEF Recycle, Typed, At, Busy
<1>4. \A c \in Caller : caller[c] # NoCall => slots'[caller[c].slot] # None
  <2> SUFFICES ASSUME NEW c \in Caller, caller[c] # NoCall
               PROVE  slots'[caller[c].slot] # None
    OBVIOUS
  <2> caller[c].slot \in Slot /\ caller[c].slot # worker[k].slot
    BY <1>1 DEF Typed, Owned, PushApart
  <2> QED
    BY <1>2 DEF Held
<1>5. \A l \in Shard : \A i \in DOMAIN queue[l] : slots'[queue[l][i]] # None
  <2> SUFFICES ASSUME NEW l \in Shard, NEW i \in DOMAIN queue[l]
               PROVE  slots'[queue[l][i]] # None
    OBVIOUS
  <2>1. queue[l][i] \in Slot
    BY DEF Typed
  <2>2. queue[l][i] # worker[k].slot
    BY <1>1 DEF Owned, WorkApart
  <2> QED
    BY <2>1, <2>2, <1>2 DEF Held
<1>6. \A l \in Shard : worker'[l].at \in Busy => slots'[worker'[l].slot] # None
  <2> SUFFICES ASSUME NEW l \in Shard, worker'[l].at \in Busy
               PROVE  slots'[worker'[l].slot] # None
    OBVIOUS
  <2>1. l # k /\ worker'[l] = worker[l]
    BY <1>3
  <2>2. worker[l].slot \in Slot /\ worker[l].slot # worker[k].slot
    BY <2>1, <1>1 DEF Typed, Owned, WorkersApart
  <2> QED
    BY <2>1, <2>2, <1>2 DEF Held
<1> QED
  BY <1>3, <1>4, <1>5, <1>6 DEF Held

LEMMA HeldNext == ~FreedByJob /\ Typed /\ Owned /\ Held /\ [Next]_vars => Held'
<1> SUFFICES ASSUME ~FreedByJob, Typed, Owned, Held, [Next]_vars PROVE Held'
  OBVIOUS
<1>1. ASSUME NEW c \in Caller, Refuse(c) PROVE Held'
  BY <1>1, HeldKept DEF Refuse
<1>2. ASSUME NEW k \in Shard, Work(k) PROVE Held'
  <2>1. CASE End(k) \/ Decide(k) \/ Park(k)
    <3>1. PICK p \in {"ended", "parking", "asleep"} : worker' = [worker EXCEPT ![k] = At(p)]
      BY <2>1 DEF End, Decide, Park
    <3>2. At(p).at \notin Busy
      BY DEF At, Busy
    <3>3. worker'[k].at \notin Busy /\ \A l \in Shard : l # k => worker'[l] = worker[l]
      BY <3>1, <3>2 DEF Typed
    <3>4. UNCHANGED <<slots, queue, caller>>
      BY <2>1 DEF End, Decide, Park
    <3> QED
      BY <3>3, <3>4, HeldKept
  <2>2. CASE RunOne(k) \/ Finish(k)
    <3>1. worker[k].at \in Busy
      BY <2>2 DEF RunOne, Finish, Busy
    <3>2. /\ worker'[k].slot = worker[k].slot
          /\ \A l \in Shard : l # k => worker'[l] = worker[l]
      BY <2>2 DEF RunOne, Finish, Typed
    <3>3. UNCHANGED <<slots, queue, caller>>
      BY <2>2 DEF RunOne, Finish
    <3> QED
      BY <3>1, <3>2, <3>3, HeldKept
  <2> QED
    BY <1>2, <2>1, <2>2, HeldPop, HeldRecycle DEF Work
<1>3. ASSUME Stop PROVE Held'
  <2>1. CASE NotifyAll
    <3>1. stopper.at \in Shard
      BY <2>1 DEF NotifyAll, Typed
    <3> QED
      BY <2>1, <3>1, NotifiedTyped, HeldKept DEF NotifyAll
  <2> QED
    BY <1>3, <2>1, HeldKept DEF Stop, RequestStop, Join
<1>4. CASE DrainDqsResults \/ BeginStop \/ UNCHANGED vars
  BY <1>4, HeldKept DEF DrainDqsResults, BeginStop, vars
<1> QED
  BY <1>1, <1>2, <1>3, <1>4, HeldTake, HeldPush DEF Next

LEMMA HeldAlways == ~FreedByJob => (Spec => [](Typed /\ Owned /\ Held))
<1> SUFFICES ASSUME ~FreedByJob PROVE Spec => [](Typed /\ Owned /\ Held)
  OBVIOUS
<1>1. Init => Held
  BY ConstantsAssumption, NotNone DEF Init, Held, At, NoCall, Shard, Busy
<1>2. Typed /\ Owned /\ Held /\ [Next]_vars => Held'
  BY HeldNext
<1> QED
  BY <1>1, <1>2, OwnedAlways, PTL DEF Spec

-----------------------------------------------------------------------------
(* ---- every request, in one place ---- *)

Values(q) == {q[i] : i \in DOMAIN q}
Once(q) == \A i, j \in DOMAIN q : q[i] = q[j] => i = j

LEMMA AppendOnce ==
  ASSUME NEW q \in Seq(Job), NEW x \in Job
  PROVE  /\ Values(Append(q, x)) = Values(q) \cup {x}
         /\ Once(q) /\ x \notin Values(q) => Once(Append(q, x))
<1>1. /\ DOMAIN q = 1 .. Len(q) /\ Len(q) \in Nat
      /\ DOMAIN Append(q, x) = 1 .. (Len(q) + 1)
      /\ \A i \in 1 .. Len(q) : Append(q, x)[i] = q[i]
      /\ Append(q, x)[Len(q) + 1] = x
  BY AppendAt
<1>2. Values(Append(q, x)) = Values(q) \cup {x}
  BY <1>1 DEF Values
<1>3. ASSUME Once(q), x \notin Values(q) PROVE Once(Append(q, x))
  BY <1>1, <1>3 DEF Once, Values
<1> QED
  BY <1>2, <1>3

LEMMA ConcatOnce ==
  ASSUME NEW q \in Seq(Job), NEW r \in Seq(Job)
  PROVE  /\ Values(q \o r) = Values(q) \cup Values(r)
         /\ Once(q) /\ Once(r) /\ Values(q) \cap Values(r) = {} => Once(q \o r)
<1> DEFINE c == q \o r
<1>1. /\ DOMAIN q = 1 .. Len(q) /\ Len(q) \in Nat /\ DOMAIN r = 1 .. Len(r) /\ Len(r) \in Nat
      /\ DOMAIN c = 1 .. (Len(q) + Len(r))
      /\ \A i \in DOMAIN c : c[i] = IF i <= Len(q) THEN q[i] ELSE r[i - Len(q)]
  OBVIOUS
<1> HIDE DEF c
<1>2. ASSUME NEW i \in DOMAIN c
      PROVE  \/ i \in DOMAIN q /\ c[i] = q[i]
             \/ i - Len(q) \in DOMAIN r /\ c[i] = r[i - Len(q)] /\ i > Len(q)
  BY <1>1
<1>3. \A i \in DOMAIN q : i \in DOMAIN c /\ c[i] = q[i]
  BY <1>1
<1>4. ASSUME NEW i \in DOMAIN r PROVE i + Len(q) \in DOMAIN c /\ c[i + Len(q)] = r[i]
  <2>1. i + Len(q) \in DOMAIN c /\ ~(i + Len(q) <= Len(q)) /\ (i + Len(q)) - Len(q) = i
    BY <1>1
  <2> QED
    BY <1>1, <2>1
<1>5. Values(c) = Values(q) \cup Values(r)
  <2>1. \A x \in Values(c) : x \in Values(q) \cup Values(r)
    BY <1>2 DEF Values
  <2>2. \A x \in Values(q) \cup Values(r) : x \in Values(c)
    BY <1>3, <1>4 DEF Values
  <2> QED
    BY <2>1, <2>2
<1>6. ASSUME Once(q), Once(r), Values(q) \cap Values(r) = {}, NEW i \in DOMAIN c, NEW j \in DOMAIN c,
             c[i] = c[j]
      PROVE  i = j
  <2>1. CASE i \in DOMAIN q /\ c[i] = q[i]
    <3>1. j \in DOMAIN q /\ c[j] = q[j]
      BY <1>2, <1>6, <2>1 DEF Values
    <3> QED
      BY <1>6, <2>1, <3>1 DEF Once
  <2>2. CASE i - Len(q) \in DOMAIN r /\ c[i] = r[i - Len(q)] /\ i > Len(q)
    <3>1. j - Len(q) \in DOMAIN r /\ c[j] = r[j - Len(q)]
      BY <1>2, <1>6, <2>2, ZenonT(60) DEF Values
    <3>2. i - Len(q) = j - Len(q)
      BY <1>6, <2>2, <3>1 DEF Once
    <3> QED
      BY <1>1, <3>2
  <2> QED
    BY <1>2, <2>1, <2>2
<1> QED
  BY <1>5, <1>6 DEF c, Once

\* The requests that were run or refused.
Done == Values(results) \cup Values(answered)
DoneOnce == Once(results) /\ Once(answered) /\ Values(results) \cap Values(answered) = {}

\* No two slots hold one payload, and a free one holds none.
PayloadsApart == \A s, t \in Slot : slots[s] # None /\ slots[s] = slots[t] => s = t
FreeIsReset == \A i \in DOMAIN empty : slots[empty[i]] = None

\* A worker that queries has the payload of its slot, any other has none.
WorkersRead ==
  \A k \in Shard :
    /\ worker[k].at = "querying" => worker[k].job = slots[worker[k].slot]
    /\ worker[k].at # "querying" => worker[k].job = None

\* A payload in a slot is done when, and only when, a worker has run it and has
\* not recycled the slot yet.
Ran(s) == \E k \in Shard : worker[k].at = "ran" /\ worker[k].slot = s
RanIsDone == \A s \in Slot : slots[s] # None => (slots[s] \in Done <=> Ran(s))

\* Requests are the ones that were made, and each is done or in a slot.
NoneAhead ==
  /\ \A j \in Done : j <= asked
  /\ \A s \in Slot : slots[s] # None => slots[s] <= asked
NoneLost == \A j \in 1 .. asked : j \in Done \/ \E s \in Slot : slots[s] = j

Tracked ==
  /\ DoneOnce /\ PayloadsApart /\ FreeIsReset /\ WorkersRead /\ RanIsDone /\ NoneAhead /\ NoneLost

LEMMA JobIsNat == Job \subseteq Nat /\ None \notin Job /\ MaxJob \in Nat
  BY ConstantsAssumption DEF Job

LEMMA DoneType ==
  ASSUME Typed PROVE Done \subseteq Job
  BY DEF Typed, Done, Values

LEMMA DoneKept ==
  ASSUME DoneOnce, results' = results, answered' = answered
  PROVE  Done' = Done /\ DoneOnce'
  BY DEF Done, DoneOnce, Values, Once

LEMMA TrackedInit == Init => Tracked
<1> SUFFICES ASSUME Init PROVE Tracked
  OBVIOUS
<1>1. Values(results) = {} /\ Values(answered) = {} /\ Done = {}
  BY DEF Init, Values, Done
<1>2. DoneOnce
  BY <1>1 DEF Init, DoneOnce, Once
<1>3. \A s \in Slot : slots[s] = None
  BY DEF Init
<1>4. FreeIsReset
  BY <1>3 DEF Init, FreeIsReset
<1>5. WorkersRead
  BY DEF Init, WorkersRead, At
<1>6. asked = 0
  BY DEF Init
<1>7. NoneLost /\ NoneAhead
  BY <1>1, <1>3, <1>6 DEF NoneLost, NoneAhead
<1> QED
  BY <1>2, <1>3, <1>4, <1>5, <1>7 DEF Tracked, PayloadsApart, RanIsDone

\* Workers move without running anything: what they have copied stays.
LEMMA TrackedKept ==
  ASSUME Tracked, UNCHANGED <<slots, empty, results, answered, asked>>,
         \A k \in Shard :
           /\ worker'[k].at = "querying" => worker'[k].job = slots[worker'[k].slot]
           /\ worker'[k].at # "querying" => worker'[k].job = None
           /\ worker'[k].at = "ran" => worker'[k] = worker[k]
           /\ worker[k].at = "ran" => worker'[k] = worker[k]
  PROVE  Tracked'
<1>1. Done' = Done /\ DoneOnce' /\ PayloadsApart' /\ FreeIsReset' /\ NoneAhead' /\ NoneLost'
  BY DEF Tracked, Done, Values, DoneOnce, Once, PayloadsApart, FreeIsReset, NoneAhead, NoneLost
<1>2. WorkersRead'
  BY DEF WorkersRead
<1>3. \A s : Ran(s)' <=> Ran(s)
  BY DEF Ran
<1>4. RanIsDone'
  BY <1>1, <1>3 DEF Tracked, RanIsDone
<1> QED
  BY <1>1, <1>2, <1>4 DEF Tracked

LEMMA TrackedRefuse ==
  ASSUME Typed, Tracked, NEW c \in Caller, Refuse(c)
  PROVE  Tracked'
<1>1. /\ asked' = asked + 1 /\ answered' = Append(answered, asked + 1)
      /\ UNCHANGED <<slots, empty, worker, results>> /\ asked + 1 \in Job /\ asked \in Nat
  BY ConstantsAssumption DEF Refuse, Asks, Typed, Job
<1>2. results \in Seq(Job) /\ answered \in Seq(Job) /\ Done \subseteq Nat
  BY DoneType, JobIsNat DEF Typed
<1>3. asked + 1 \notin Done
  BY <1>1, <1>2 DEF Tracked, NoneAhead
<1>4. /\ Values(answered') = Values(answered) \cup {asked + 1}
      /\ Once(answered')
  BY <1>1, <1>2, <1>3, AppendOnce DEF Tracked, DoneOnce, Done
<1>5. Done' = Done \cup {asked + 1} /\ DoneOnce'
  BY <1>1, <1>3, <1>4 DEF Done, DoneOnce, Tracked
<1>6. \A s \in Slot : slots[s] # None => slots[s] \in Nat /\ slots[s] <= asked
  BY JobIsNat DEF Typed, Tracked, NoneAhead
<1>7. RanIsDone'
  <2>1. \A s : Ran(s)' <=> Ran(s)
    BY <1>1 DEF Ran
  <2>2. \A s \in Slot : slots[s] # None => slots[s] # asked + 1
    BY <1>1, <1>6
  <2> QED
    BY <1>1, <1>5, <2>1, <2>2 DEF Tracked, RanIsDone
<1>8. NoneAhead'
  BY <1>1, <1>2, <1>5, <1>6 DEF Tracked, NoneAhead
<1>9. NoneLost'
  BY <1>1, <1>5 DEF Tracked, NoneLost
<1>10. PayloadsApart' /\ FreeIsReset' /\ WorkersRead'
  BY <1>1 DEF Tracked, PayloadsApart, FreeIsReset, WorkersRead
<1> QED
  BY <1>5, <1>7, <1>8, <1>9, <1>10 DEF Tracked

LEMMA TrackedTake ==
  ASSUME Typed, Owned, Tracked, NEW c \in Caller, TakeSlot(c)
  PROVE  Tracked'
<1> DEFINE h == Head(empty)
           n == asked + 1
<1>1. /\ asked' = n /\ slots' = [slots EXCEPT ![h] = n] /\ empty' = Tail(empty)
      /\ UNCHANGED <<worker, results, answered>> /\ n \in Job /\ asked \in Nat /\ n \in Nat /\ n # None
  BY ConstantsAssumption DEF TakeSlot, Asks, Typed, Job
<1>2. /\ h \in Slot /\ h = empty[1] /\ DOMAIN empty = 1 .. Len(empty) /\ Len(empty) \in Nat \ {0}
      /\ DOMAIN empty' = 1 .. (Len(empty) - 1)
      /\ \A i \in 1 .. (Len(empty) - 1) : empty'[i] = empty[i + 1]
  BY <1>1, TailAt DEF TakeSlot, Typed
<1>3. slots[h] = None /\ 1 \in DOMAIN empty
  BY <1>2 DEF Tracked, FreeIsReset
<1>4. slots'[h] = n /\ \A s \in Slot : s # h => slots'[s] = slots[s]
  BY <1>1, <1>2 DEF Typed
<1>5. Done' = Done /\ DoneOnce' /\ Done \subseteq Nat
  <2>1. results' = results /\ answered' = answered
    BY <1>1
  <2>2. Done' = Done /\ DoneOnce'
    BY <2>1, DoneKept DEF Tracked
  <2> QED
    BY <2>2, DoneType, JobIsNat
<1>6. n \notin Done
  BY <1>1, <1>5 DEF Tracked, NoneAhead
<1>7. \A s \in Slot : slots[s] # None => slots[s] \in Nat /\ slots[s] <= asked /\ slots[s] # n
  <2> SUFFICES ASSUME NEW s \in Slot, slots[s] # None
               PROVE  slots[s] \in Nat /\ slots[s] <= asked /\ slots[s] # n
    OBVIOUS
  <2>1. slots[s] \in Nat
    BY JobIsNat DEF Typed
  <2>2. slots[s] <= asked
    BY DEF Tracked, NoneAhead
  <2> QED
    BY <1>1, <2>1, <2>2
<1>8. \A k \in Shard : worker[k].at \in Busy => worker[k].slot # h /\ worker[k].slot \in Slot
  BY <1>2, <1>3, ZenonT(60) DEF Owned, FreeApart, Typed
<1> HIDE DEF h, n
<1>9. PayloadsApart'
  BY <1>4, <1>7 DEF Tracked, PayloadsApart
<1>10. FreeIsReset'
  <2> SUFFICES ASSUME NEW i \in DOMAIN empty' PROVE slots'[empty'[i]] = None
    BY DEF FreeIsReset
  <2>1. i + 1 \in DOMAIN empty /\ i + 1 # 1 /\ empty'[i] = empty[i + 1]
    BY <1>2
  <2>2. empty[i + 1] # h
    BY <1>2, <1>3, <2>1 DEF Owned, EmptyOnce
  <2>3. empty[i + 1] \in Slot /\ slots[empty[i + 1]] = None
    BY <2>1 DEF Typed, Tracked, FreeIsReset
  <2> QED
    BY <1>4, <2>1, <2>2, <2>3
<1>11. WorkersRead'
  <2> SUFFICES ASSUME NEW k \in Shard
               PROVE  /\ worker[k].at = "querying" => worker[k].job = slots'[worker[k].slot]
                      /\ worker[k].at # "querying" => worker[k].job = None
    BY <1>1 DEF WorkersRead
  <2>1. worker[k].at = "querying" => slots'[worker[k].slot] = slots[worker[k].slot]
    BY <1>4, <1>8 DEF Busy
  <2> QED
    BY <2>1 DEF Tracked, WorkersRead
<1>12. RanIsDone'
  <2> SUFFICES ASSUME NEW s \in Slot, slots'[s] # None
               PROVE  slots'[s] \in Done <=> Ran(s)
    BY <1>1, <1>5 DEF RanIsDone, Ran
  <2>1. CASE s = h
    BY <1>4, <1>6, <1>8, <2>1 DEF Ran, Busy
  <2>2. CASE s # h
    BY <1>4, <2>2 DEF Tracked, RanIsDone
  <2> QED
    BY <2>1, <2>2
<1>13. NoneAhead'
  <2>1. \A j \in Done : j <= n
    BY <1>1, <1>5 DEF Tracked, NoneAhead, n
  <2>2. \A s \in Slot : slots'[s] # None => slots'[s] <= n
    BY <1>1, <1>4, <1>7 DEF n
  <2> QED
    BY <1>1, <1>5, <2>1, <2>2 DEF NoneAhead
<1>14. NoneLost'
  <2> SUFFICES ASSUME NEW j \in 1 .. n PROVE j \in Done \/ \E s \in Slot : slots'[s] = j
    BY <1>1, <1>5 DEF NoneLost
  <2>1. CASE j = n
    BY <1>2, <1>4, <2>1
  <2>2. CASE j # n
    <3>1. j \in 1 .. asked /\ j # None
      BY <1>1, <2>2, ConstantsAssumption DEF n
    <3>2. j \in Done \/ \E s \in Slot : slots[s] = j
      BY <3>1 DEF Tracked, NoneLost
    <3> QED
      BY <1>3, <1>4, <3>1, <3>2
  <2> QED
    BY <2>1, <2>2
<1> QED
  BY <1>5, <1>9, <1>10, <1>11, <1>12, <1>13, <1>14 DEF Tracked

LEMMA TrackedFinish ==
  ASSUME ~FreedByJob, Typed, Owned, Held, Tracked, NEW k \in Shard, Finish(k)
  PROVE  Tracked'
<1> DEFINE s0 == worker[k].slot
           j0 == worker[k].job
<1>1. /\ worker[k].at = "querying" /\ UNCHANGED <<slots, empty, answered, asked>>
      /\ worker' = [worker EXCEPT ![k] = [at |-> "ran", slot |-> s0, job |-> None]]
  BY DEF Finish
<1>2. s0 \in Slot /\ slots[s0] # None /\ worker[k].at \in Busy
  BY <1>1 DEF Typed, Held, Busy
<1>3. j0 = slots[s0] /\ j0 # None /\ j0 \in Job
  BY <1>1, <1>2 DEF Tracked, WorkersRead, Typed
<1>4. results' = Append(results, j0)
  BY <1>3 DEF Finish, Posted
<1>5. /\ worker'[k].at = "ran" /\ worker'[k].slot = s0 /\ worker'[k].job = None
      /\ \A l \in Shard : l # k => worker'[l] = worker[l]
  BY <1>1 DEF Typed
<1>6. ~Ran(s0)
  BY <1>1, <1>2 DEF Ran, Owned, WorkersApart, Busy
<1>7. j0 \notin Done
  BY <1>2, <1>3, <1>6 DEF Tracked, RanIsDone
<1> HIDE DEF s0, j0
<1>8. results \in Seq(Job) /\ answered \in Seq(Job)
  BY DEF Typed
<1>9. Values(results') = Values(results) \cup {j0} /\ Once(results')
  BY <1>3, <1>4, <1>7, <1>8, AppendOnce DEF Tracked, DoneOnce, Done
<1>10. Done' = Done \cup {j0} /\ DoneOnce'
  BY <1>1, <1>7, <1>9 DEF Tracked, Done, DoneOnce
<1>11. \A s : Ran(s)' <=> Ran(s) \/ s = s0
  BY <1>1, <1>5 DEF Ran
<1>12. RanIsDone'
  <2> SUFFICES ASSUME NEW s \in Slot, slots[s] # None
               PROVE  slots[s] \in Done' <=> Ran(s)'
    BY <1>1 DEF RanIsDone
  <2>1. slots[s] = j0 <=> s = s0
    BY <1>2, <1>3 DEF Tracked, PayloadsApart
  <2>2. slots[s] \in Done <=> Ran(s)
    BY DEF Tracked, RanIsDone
  <2> QED
    BY <1>10, <1>11, <2>1, <2>2
<1>13. WorkersRead'
  BY <1>1, <1>5 DEF Tracked, WorkersRead
<1>14. NoneAhead' /\ NoneLost'
  BY <1>1, <1>2, <1>3, <1>10 DEF Tracked, NoneAhead, NoneLost
<1>15. PayloadsApart' /\ FreeIsReset'
  BY <1>1 DEF Tracked, PayloadsApart, FreeIsReset
<1> QED
  BY <1>10, <1>12, <1>13, <1>14, <1>15 DEF Tracked

LEMMA TrackedRecycle ==
  ASSUME Typed, Owned, Held, Tracked, NEW k \in Shard, Recycle(k)
  PROVE  Tracked'
<1> DEFINE s0 == worker[k].slot
<1>1. /\ worker[k].at = "ran" /\ slots' = [slots EXCEPT ![s0] = None] /\ empty' = Append(empty, s0)
      /\ worker' = [worker EXCEPT ![k] = At("check")] /\ UNCHANGED <<results, answered, asked>>
  BY DEF Recycle
<1>2. s0 \in Slot /\ worker[k].at \in Busy /\ slots[s0] # None /\ Ran(s0)
  BY <1>1 DEF Typed, Busy, Ran, Held
<1>3. slots'[s0] = None /\ \A s \in Slot : s # s0 => slots'[s] = slots[s]
  BY <1>1, <1>2 DEF Typed
<1>4. /\ worker'[k].at = "check" /\ worker'[k].job = None
      /\ \A l \in Shard : l # k => worker'[l] = worker[l]
  BY <1>1 DEF Typed, At
<1>5. /\ DOMAIN empty = 1 .. Len(empty) /\ Len(empty) \in Nat
      /\ DOMAIN empty' = 1 .. (Len(empty) + 1)
      /\ \A i \in 1 .. Len(empty) : empty'[i] = empty[i] /\ empty[i] \in Slot
      /\ empty'[Len(empty) + 1] = s0
  BY <1>1, <1>2, AppendAt DEF Typed
<1>6. Done' = Done /\ DoneOnce'
  BY <1>1, DoneKept DEF Tracked
<1>7. slots[s0] \in Done
  BY <1>2 DEF Tracked, RanIsDone
<1>8. \A l \in Shard : l # k /\ worker[l].at \in Busy => worker[l].slot # s0 /\ worker[l].slot \in Slot
  BY <1>2 DEF Owned, WorkersApart, Typed
<1> HIDE DEF s0
<1>9. PayloadsApart'
  BY <1>3 DEF Tracked, PayloadsApart
<1>10. FreeIsReset'
  <2> SUFFICES ASSUME NEW i \in DOMAIN empty' PROVE slots'[empty'[i]] = None
    BY DEF FreeIsReset
  <2>1. CASE i = Len(empty) + 1
    BY <1>3, <1>5, <2>1
  <2>2. CASE i # Len(empty) + 1
    <3>1. i \in DOMAIN empty /\ empty'[i] = empty[i] /\ empty[i] \in Slot
      BY <1>5, <2>2
    <3> QED
      BY <1>3, <3>1 DEF Tracked, FreeIsReset
  <2> QED
    BY <2>1, <2>2
<1>11. WorkersRead'
  <2> SUFFICES ASSUME NEW l \in Shard
               PROVE  /\ worker'[l].at = "querying" => worker'[l].job = slots'[worker'[l].slot]
                      /\ worker'[l].at # "querying" => worker'[l].job = None
    BY DEF WorkersRead
  <2>1. CASE l = k
    BY <1>4, <2>1
  <2>2. CASE l # k
    <3>1. worker[l].at = "querying" => slots'[worker[l].slot] = slots[worker[l].slot]
      BY <1>3, <1>8, <2>2 DEF Busy
    <3> QED
      BY <1>4, <2>2, <3>1 DEF Tracked, WorkersRead
  <2> QED
    BY <2>1, <2>2
<1>12. RanIsDone'
  <2> SUFFICES ASSUME NEW s \in Slot, slots'[s] # None
               PROVE  slots'[s] \in Done <=> Ran(s)'
    BY <1>6 DEF RanIsDone
  <2>1. s # s0 /\ slots'[s] = slots[s]
    BY <1>3
  <2>2. Ran(s)' <=> Ran(s)
    BY <1>1, <1>4, <2>1 DEF Ran, s0
  <2> QED
    BY <2>1, <2>2 DEF Tracked, RanIsDone
<1>13. NoneAhead'
  BY <1>1, <1>3, <1>6 DEF Tracked, NoneAhead
<1>14. NoneLost'
  BY <1>1, <1>3, <1>6, <1>7 DEF Tracked, NoneLost
<1> QED
  BY <1>6, <1>9, <1>10, <1>11, <1>12, <1>13, <1>14 DEF Tracked

LEMMA TrackedDrain ==
  ASSUME Typed, Tracked, DrainDqsResults
  PROVE  Tracked'
<1>1. /\ answered' = answered \o results /\ results' = <<>>
      /\ UNCHANGED <<slots, empty, worker, asked>>
  BY DEF DrainDqsResults
<1>2. results \in Seq(Job) /\ answered \in Seq(Job)
  BY DEF Typed
<1>3. Values(answered') = Values(answered) \cup Values(results) /\ Once(answered')
  BY <1>1, <1>2, ConcatOnce DEF Tracked, DoneOnce
<1>4. Values(results') = {} /\ Once(results')
  BY <1>1 DEF Values, Once
<1>5. Done' = Done /\ DoneOnce'
  BY <1>3, <1>4 DEF Done, DoneOnce
<1>6. \A s : Ran(s)' <=> Ran(s)
  BY <1>1 DEF Ran
<1>7. RanIsDone'
  BY <1>1, <1>5, <1>6 DEF Tracked, RanIsDone
<1>8. NoneAhead' /\ NoneLost'
  BY <1>1, <1>5 DEF Tracked, NoneAhead, NoneLost
<1>9. PayloadsApart' /\ FreeIsReset' /\ WorkersRead'
  BY <1>1 DEF Tracked, PayloadsApart, FreeIsReset, WorkersRead
<1> QED
  BY <1>5, <1>7, <1>8, <1>9 DEF Tracked

LEMMA TrackedNext ==
  ~FreedByJob /\ Typed /\ Owned /\ Held /\ Tracked /\ [Next]_vars => Tracked'
<1> SUFFICES ASSUME ~FreedByJob, Typed, Owned, Held, Tracked, [Next]_vars PROVE Tracked'
  OBVIOUS
<1>1. WorkersRead
  BY DEF Tracked
<1>2. ASSUME NEW l \in Shard, worker' = Notified(l), UNCHANGED <<slots, empty, results, answered, asked>>
      PROVE  Tracked'
  <2>1. \A m \in Shard : \/ worker'[m] = worker[m]
                         \/ /\ worker[m].at = "asleep" /\ worker'[m].at = "check"
                            /\ worker'[m].job = worker[m].job
    BY <1>2 DEF Notified, Typed
  <2> QED
    BY <1>1, <1>2, <2>1, TrackedKept DEF WorkersRead
<1>3. ASSUME NEW c \in Caller, Push(c) PROVE Tracked'
  <2>1. ShardOf[caller[c].job] \in Shard
    BY <1>3, ConstantsAssumption DEF Push, Typed
  <2> QED
    BY <1>2, <1>3, <2>1 DEF Push
<1>4. ASSUME NEW k \in Shard, Work(k) PROVE Tracked'
  <2>1. CASE End(k) \/ Decide(k) \/ Park(k)
    <3>1. PICK p \in {"ended", "parking", "asleep"} : worker' = [worker EXCEPT ![k] = At(p)]
      BY <2>1 DEF End, Decide, Park
    <3>2. worker'[k].at = p /\ worker'[k].job = None /\ \A l \in Shard : l # k => worker'[l] = worker[l]
      BY <3>1 DEF Typed, At
    <3>3. UNCHANGED <<slots, empty, results, answered, asked>> /\ worker[k].at # "ran"
      BY <2>1 DEF End, Decide, Park
    <3> QED
      BY <1>1, <3>2, <3>3, TrackedKept DEF WorkersRead
  <2>2. CASE Pop(k)
    <3>1. /\ worker'[k].at = "popped" /\ worker'[k].job = None
          /\ \A l \in Shard : l # k => worker'[l] = worker[l]
      BY <2>2 DEF Pop, Typed
    <3>2. UNCHANGED <<slots, empty, results, answered, asked>> /\ worker[k].at # "ran"
      BY <2>2 DEF Pop
    <3> QED
      BY <1>1, <3>1, <3>2, TrackedKept DEF WorkersRead
  <2>3. CASE RunOne(k)
    <3>1. /\ worker'[k].at = "querying" /\ worker'[k].job = slots[worker'[k].slot]
          /\ \A l \in Shard : l # k => worker'[l] = worker[l]
      BY <2>3 DEF RunOne, Typed
    <3>2. UNCHANGED <<slots, empty, results, answered, asked>> /\ worker[k].at # "ran"
      BY <2>3 DEF RunOne
    <3> QED
      BY <1>1, <3>1, <3>2, TrackedKept DEF WorkersRead
  <2> QED
    BY <1>4, <2>1, <2>2, <2>3, TrackedFinish, TrackedRecycle DEF Work
<1>5. CASE Stop
  <2>1. CASE NotifyAll
    <3>1. stopper.at \in Shard
      BY <2>1 DEF NotifyAll, Typed
    <3> QED
      BY <1>2, <2>1, <3>1 DEF NotifyAll
  <2>2. CASE RequestStop \/ Join
    BY <1>1, <2>2, TrackedKept DEF RequestStop, Join, WorkersRead
  <2> QED
    BY <1>5, <2>1, <2>2 DEF Stop
<1>6. CASE BeginStop \/ UNCHANGED vars
  BY <1>1, <1>6, TrackedKept DEF BeginStop, vars, WorkersRead
<1> QED
  BY <1>3, <1>4, <1>5, <1>6, TrackedRefuse, TrackedTake, TrackedDrain DEF Next

-----------------------------------------------------------------------------
(* ---- the holders of a request ---- *)

LEMMA HoldersAre ==
  ASSUME NEW j
  PROVE  \A h : h \in Holders(j) <=>
           \/ \E p \in Places : slots[SlotAt(p)] = j /\ ~Read(p) /\ h = <<"slot", p>>
           \/ \E k \in Shard : worker[k].job = j /\ h = <<"worker", k>>
           \/ \E i \in DOMAIN results : results[i] = j /\ h = <<"result", i>>
           \/ \E i \in DOMAIN answered : answered[i] = j /\ h = <<"answered", i>>
<1> DEFINE A == {<<"slot", p>> : p \in {q \in Places : slots[SlotAt(q)] = j /\ ~Read(q)}}
           B == {<<"worker", k>> : k \in {l \in Shard : worker[l].job = j}}
           C == {<<"result", i>> : i \in {n \in DOMAIN results : results[n] = j}}
           D == {<<"answered", i>> : i \in {n \in DOMAIN answered : answered[n] = j}}
<1>1. \A h : h \in A <=> \E p \in Places : slots[SlotAt(p)] = j /\ ~Read(p) /\ h = <<"slot", p>>
  OBVIOUS
<1>2. \A h : h \in B <=> \E k \in Shard : worker[k].job = j /\ h = <<"worker", k>>
  OBVIOUS
<1>3. \A h : h \in C <=> \E i \in DOMAIN results : results[i] = j /\ h = <<"result", i>>
  OBVIOUS
<1>4. \A h : h \in D <=> \E i \in DOMAIN answered : answered[i] = j /\ h = <<"answered", i>>
  OBVIOUS
<1>5. Holders(j) = A \cup B \cup C \cup D
  BY DEF Holders
<1> HIDE DEF A, B, C, D
<1>6. \A h : h \in Holders(j) <=> h \in A \/ h \in B \/ h \in C \/ h \in D
  BY <1>5
<1> QED
  BY <1>1, <1>2, <1>3, <1>4, <1>6, Zenon

LEMMA ReadIs ==
  \A k : Read(<<"worker", k>>) <=> worker[k].at \in {"querying", "ran"}
  BY DEF Read

\* Only the place with a worker is read.
LEMMA ReadPlace ==
  ASSUME NEW p \in Places, Read(p)
  PROVE  \E k \in Shard : p = <<"worker", k>> /\ worker[k].at \in {"querying", "ran"}
<1>1. p[1] = "worker"
  BY DEF Read
<1>2. PICK k \in Shard : worker[k].at \in Busy /\ p = <<"worker", k>>
  <2>1. ~\E i \in DOMAIN empty : p = <<"empty", i>>
    BY <1>1
  <2>2. ~\E c \in Caller : p = <<"caller", c>>
    BY <1>1
  <2>3. ~\E k \in Shard : \E i \in DOMAIN queue[k] : p = <<"queue", k, i>>
    BY <1>1
  <2> QED
    BY <2>1, <2>2, <2>3, PlacesAre
<1> QED
  BY <1>2, ReadIs

LEMMA SlotAtType ==
  ASSUME Typed, NEW p \in Places
  PROVE  SlotAt(p) \in Slot
<1>1. CASE \E i \in DOMAIN empty : p = <<"empty", i>>
  <2>1. PICK i \in DOMAIN empty : p = <<"empty", i>>
    BY <1>1
  <2>2. SlotAt(p) = empty[i]
    BY <2>1, SlotAtIs
  <2> QED
    BY <2>2 DEF Typed
<1>2. CASE \E c \in Caller : caller[c] # NoCall /\ p = <<"caller", c>>
  <2>1. PICK c \in Caller : caller[c] # NoCall /\ p = <<"caller", c>>
    BY <1>2
  <2>2. SlotAt(p) = caller[c].slot
    BY <2>1, SlotAtIs
  <2> QED
    BY <2>1, <2>2 DEF Typed
<1>3. CASE \E k \in Shard : \E i \in DOMAIN queue[k] : p = <<"queue", k, i>>
  <2>1. PICK k \in Shard : \E i \in DOMAIN queue[k] : p = <<"queue", k, i>>
    BY <1>3
  <2>2. PICK i \in DOMAIN queue[k] : p = <<"queue", k, i>>
    BY <2>1
  <2>3. SlotAt(p) = queue[k][i]
    BY <2>2, SlotAtIs
  <2> QED
    BY <2>3 DEF Typed
<1>4. CASE \E k \in Shard : worker[k].at \in Busy /\ p = <<"worker", k>>
  <2>1. PICK k \in Shard : worker[k].at \in Busy /\ p = <<"worker", k>>
    BY <1>4
  <2>2. SlotAt(p) = worker[k].slot
    BY <2>1, SlotAtIs
  <2> QED
    BY <2>1, <2>2 DEF Typed
<1> QED
  BY <1>1, <1>2, <1>3, <1>4, PlacesAre

\* A request that is done is with no slot that is still to be read and no worker.
LEMMA DoneIsNotHeld ==
  ASSUME Typed, Owned, Tracked, NEW j \in Job, j \in Done
  PROVE  /\ \A p \in Places : slots[SlotAt(p)] = j => Read(p)
         /\ \A k \in Shard : worker[k].job # j
<1>0. j # None
  BY JobIsNat
<1>1. ASSUME NEW p \in Places, slots[SlotAt(p)] = j PROVE Read(p)
  <2>1. SlotAt(p) \in Slot
    BY SlotAtType
  <2>2. Ran(SlotAt(p))
    BY <1>0, <1>1, <2>1 DEF Tracked, RanIsDone
  <2>3. PICK k \in Shard : worker[k].at = "ran" /\ worker[k].slot = SlotAt(p)
    BY <2>2 DEF Ran
  <2>4. <<"worker", k>> \in Places
    <3>1. worker[k].at \in Busy
      BY <2>3 DEF Busy
    <3> QED
      BY <3>1, PlacesAre, Zenon
  <2>5. p = <<"worker", k>>
    <3>1. SlotAt(<<"worker", k>>) = SlotAt(p)
      BY <2>3, SlotAtIs
    <3> QED
      BY <2>4, <3>1, PlacesApart
  <2> QED
    BY <2>3, <2>5, ReadIs
<1>2. ASSUME NEW k \in Shard, worker[k].job = j PROVE FALSE
  <2>1. worker[k].at = "querying" /\ slots[worker[k].slot] = j
    BY <1>0, <1>2 DEF Tracked, WorkersRead
  <2>2. worker[k].slot \in Slot
    BY <2>1 DEF Typed, Busy
  <2>3. Ran(worker[k].slot)
    BY <1>0, <2>1, <2>2 DEF Tracked, RanIsDone
  <2> QED
    BY <2>1, <2>3 DEF Ran, Owned, WorkersApart, Busy
<1> QED
  BY <1>1, <1>2

\* A request that is not done is in one slot, read by a worker or not.
LEMMA HeldInOneSlot ==
  ASSUME Typed, Owned, Tracked, NEW j \in Job, j \notin Done, NEW s \in Slot, slots[s] = j
  PROVE  \/ \E k \in Shard :
              /\ worker[k].job = j /\ \A l \in Shard : worker[l].job = j => l = k
              /\ \A p \in Places : slots[SlotAt(p)] = j => Read(p)
         \/ \E p \in Places :
              /\ slots[SlotAt(p)] = j /\ ~Read(p)
              /\ \A q \in Places : slots[SlotAt(q)] = j => q = p
              /\ \A k \in Shard : worker[k].job # j
<1>0. j # None
  BY JobIsNat
<1>1. PICK p \in Places : SlotAt(p) = s
  BY PlaceOf
<1>2. ASSUME NEW q \in Places, slots[SlotAt(q)] = j PROVE q = p
  <2>1. SlotAt(q) = s
    BY <1>0, <1>2, SlotAtType DEF Tracked, PayloadsApart
  <2> QED
    BY <1>1, <2>1, PlacesApart
<1>3. ASSUME NEW k \in Shard, worker[k].job = j
      PROVE  p = <<"worker", k>> /\ worker[k].at = "querying"
  <2>1. worker[k].at = "querying" /\ slots[worker[k].slot] = j
    BY <1>0, <1>3 DEF Tracked, WorkersRead
  <2>2. <<"worker", k>> \in Places
    <3>1. worker[k].at \in Busy
      BY <2>1 DEF Busy
    <3> QED
      BY <3>1, PlacesAre, Zenon
  <2>3. SlotAt(<<"worker", k>>) = worker[k].slot
    BY SlotAtIs
  <2> QED
    BY <1>2, <2>1, <2>2, <2>3
<1>4. \A k, l \in Shard : <<"worker", k>> = <<"worker", l>> => k = l
  OBVIOUS
<1>5. CASE Read(p)
  <2>1. PICK k \in Shard : p = <<"worker", k>> /\ worker[k].at \in {"querying", "ran"}
    BY <1>5, ReadPlace
  <2>2. worker[k].slot = s
    BY <1>1, <2>1, SlotAtIs
  <2>3. worker[k].at = "querying"
    BY <1>0, <2>1, <2>2 DEF Tracked, RanIsDone, Ran
  <2>4. worker[k].job = j
    BY <2>2, <2>3 DEF Tracked, WorkersRead
  <2>5. \A l \in Shard : worker[l].job = j => l = k
    BY <1>3, <1>4, <2>1
  <2>6. \A q \in Places : slots[SlotAt(q)] = j => Read(q)
    BY <1>2, <1>5
  <2> QED
    BY <2>4, <2>5, <2>6
<1>6. CASE ~Read(p)
  <2>1. \A k \in Shard : worker[k].job # j
    BY <1>3, <1>6, ReadIs
  <2> QED
    BY <1>1, <1>2, <1>6, <2>1
<1> QED
  BY <1>5, <1>6

\* A request is never lost and never answered twice: from the push to its answer
\* it is in one slot, with one worker, once among the results or once answered
\* (PushDqs_, OnDqsRunOne_, RecycleDqsSlot_, DrainDqsResults_), for every number
\* of slots, workers and requests, also while the workers stop.
THEOREM RequestsHeldOnce == ~FreedByJob => (Spec => []RequestHeldOnce)
<1> SUFFICES ASSUME ~FreedByJob PROVE Spec => []RequestHeldOnce
  OBVIOUS
<1>1. Spec => []Tracked
  <2>1. Typed /\ Owned /\ Held /\ Tracked /\ [Next]_vars => Tracked'
    BY TrackedNext
  <2> QED
    BY <2>1, TrackedInit, HeldAlways, PTL DEF Spec
<1>2. ASSUME Typed, Owned, Tracked PROVE RequestHeldOnce
  <2> SUFFICES ASSUME NEW j \in 1 .. asked PROVE \E h \in Holders(j) : Holders(j) = {h}
    BY DEF RequestHeldOnce
  <2>0. j \in Job
    BY <1>2, ConstantsAssumption DEF Typed, Job
  <2> SUFFICES \E h : h \in Holders(j) /\ \A g \in Holders(j) : g = h
    OBVIOUS
  <2>1. CASE j \in Done
    <3>1. /\ \A p \in Places : slots[SlotAt(p)] = j => Read(p)
          /\ \A k \in Shard : worker[k].job # j
      BY <1>2, <2>0, <2>1, DoneIsNotHeld
    <3>2. \A g \in Holders(j) :
            \/ \E i \in DOMAIN results : results[i] = j /\ g = <<"result", i>>
            \/ \E i \in DOMAIN answered : answered[i] = j /\ g = <<"answered", i>>
      BY <3>1, HoldersAre, Zenon
    <3>3. CASE j \in Values(results)
      <4>1. PICK i \in DOMAIN results : results[i] = j
        BY <3>3 DEF Values
      <4>2. <<"result", i>> \in Holders(j)
        BY <4>1, HoldersAre, Zenon
      <4>3. /\ \A n \in DOMAIN results : results[n] = j => n = i
            /\ \A n \in DOMAIN answered : answered[n] # j
        BY <1>2, <3>3, <4>1 DEF Tracked, DoneOnce, Once, Values
      <4>4. \A g \in Holders(j) : g = <<"result", i>>
        BY <3>2, <4>3, Zenon
      <4> QED
        BY <4>2, <4>4
    <3>4. CASE j \in Values(answered)
      <4>1. PICK i \in DOMAIN answered : answered[i] = j
        BY <3>4 DEF Values
      <4>2. <<"answered", i>> \in Holders(j)
        BY <4>1, HoldersAre, Zenon
      <4>3. /\ \A n \in DOMAIN answered : answered[n] = j => n = i
            /\ \A n \in DOMAIN results : results[n] # j
        BY <1>2, <3>4, <4>1 DEF Tracked, DoneOnce, Once, Values
      <4>4. \A g \in Holders(j) : g = <<"answered", i>>
        BY <3>2, <4>3, Zenon
      <4> QED
        BY <4>2, <4>4
    <3> QED
      BY <2>1, <3>3, <3>4 DEF Done
  <2>2. CASE j \notin Done
    <3>1. PICK s \in Slot : slots[s] = j
      BY <1>2, <2>2 DEF Tracked, NoneLost
    <3>2. /\ \A n \in DOMAIN results : results[n] # j
          /\ \A n \in DOMAIN answered : answered[n] # j
      BY <2>2 DEF Done, Values
    <3>3. \A g \in Holders(j) :
            \/ \E p \in Places : slots[SlotAt(p)] = j /\ ~Read(p) /\ g = <<"slot", p>>
            \/ \E k \in Shard : worker[k].job = j /\ g = <<"worker", k>>
      BY <3>2, HoldersAre, Zenon
    <3>4. ASSUME NEW k \in Shard, worker[k].job = j,
                 \A l \in Shard : worker[l].job = j => l = k,
                 \A p \in Places : slots[SlotAt(p)] = j => Read(p)
          PROVE  \E h : h \in Holders(j) /\ \A g \in Holders(j) : g = h
      <4>1. <<"worker", k>> \in Holders(j)
        BY <3>4, HoldersAre, Zenon
      <4>2. \A g \in Holders(j) : g = <<"worker", k>>
        BY <3>3, <3>4, Zenon
      <4> QED
        BY <4>1, <4>2
    <3>5. ASSUME NEW p \in Places, slots[SlotAt(p)] = j, ~Read(p),
                 \A q \in Places : slots[SlotAt(q)] = j => q = p,
                 \A k \in Shard : worker[k].job # j
          PROVE  \E h : h \in Holders(j) /\ \A g \in Holders(j) : g = h
      <4>1. <<"slot", p>> \in Holders(j)
        BY <3>5, HoldersAre, Zenon
      <4>2. \A g \in Holders(j) : g = <<"slot", p>>
        BY <3>3, <3>5, Zenon
      <4> QED
        BY <4>1, <4>2
    <3> QED
      BY <1>2, <2>0, <2>2, <3>1, <3>4, <3>5, HeldInOneSlot
  <2> QED
    BY <2>1, <2>2
<1> QED
  BY <1>1, <1>2, OwnedAlways, PTL

-----------------------------------------------------------------------------
(* ---- no wake-up of a worker is lost ---- *)

\* A worker that found its predicate false, or waits already, has nothing to do.
ParkedIsIdle ==
  \A k \in Shard : worker[k].at \in {"parking", "asleep"} => queue[k] = <<>>

\* The stop goes through the workers in order: the tokens of those before the one
\* it is at are set and their threads are joined; no other worker ends.
StopInOrder ==
  /\ Running => stopping = {}
  /\ ~Running => stopper.at \in Shard
  /\ stopper.step = "request" => stopping = 1 .. stopper.at - 1
  /\ stopper.step \in {"notify", "join", "stopped"} => stopping = 1 .. stopper.at
  /\ stopper.step = "stopped" => stopper.at = Shards
  /\ \A k \in Shard : worker[k].at = "ended" => k \in stopping
  /\ \A k \in stopping : k # stopper.at \/ stopper.step = "stopped" => worker[k].at = "ended"

LEMMA NotifiedIs ==
  ASSUME Typed, NEW k \in Shard
  PROVE  /\ Notified(k)[k].at \in {"parking", "asleep"} => worker[k].at = "parking"
         /\ \A l \in Shard : Notified(k)[l].at \in {"parking", "asleep"} =>
                               Notified(k)[l].at = worker[l].at
         /\ \A l \in Shard : Notified(k)[l].at = "ended" <=> worker[l].at = "ended"
<1>1. CASE worker[k].at = "asleep"
  <2>1. Notified(k) = [worker EXCEPT ![k].at = "check"]
    BY <1>1 DEF Notified
  <2>2. Notified(k)[k].at = "check"
    BY <2>1 DEF Typed
  <2>3. \A l \in Shard \ {k} : Notified(k)[l] = worker[l]
    BY <2>1 DEF Typed
  <2> QED
    BY <1>1, <2>2, <2>3
<1>2. CASE worker[k].at # "asleep"
  BY <1>2 DEF Notified
<1> QED
  BY <1>1, <1>2

LEMMA ParkedNext == Typed /\ ParkedIsIdle /\ [Next]_vars => ParkedIsIdle'
<1> SUFFICES ASSUME Typed, ParkedIsIdle, [Next]_vars, NEW l \in Shard,
                    worker'[l].at \in {"parking", "asleep"}
             PROVE  queue'[l] = <<>>
  BY DEF ParkedIsIdle
<1>1. ASSUME NEW c \in Caller, Push(c) PROVE queue'[l] = <<>>
  <2> DEFINE k == ShardOf[caller[c].job]
  <2>1. k \in Shard
    BY <1>1, ConstantsAssumption DEF Push, Typed
  <2>2. worker[k].at # "parking" /\ worker' = Notified(k)
        /\ queue' = [queue EXCEPT ![k] = Append(@, caller[c].slot)]
    BY <1>1 DEF Push
  <2>3. l # k
    BY <2>1, <2>2, NotifiedIs
  <2>4. worker'[l].at = worker[l].at
    BY <2>1, <2>2, NotifiedIs
  <2> QED
    BY <2>2, <2>3, <2>4 DEF Typed, ParkedIsIdle
<1>2. ASSUME NEW c \in Caller, Refuse(c) \/ TakeSlot(c) PROVE queue'[l] = <<>>
  BY <1>2 DEF Refuse, TakeSlot, ParkedIsIdle
<1>3. ASSUME NEW k \in Shard, Work(k) PROVE queue'[l] = <<>>
  <2>1. CASE l # k
    <3>1. worker'[l] = worker[l] /\ queue'[l] = queue[l]
      BY <1>3, <2>1 DEF Work, End, Pop, Decide, Park, RunOne, Finish, Recycle, Typed
    <3> QED
      BY <3>1 DEF ParkedIsIdle
  <2>2. CASE l = k
    <3>1. CASE Decide(k) \/ Park(k)
      BY <2>2, <3>1 DEF Decide, Park, ParkedIsIdle
    <3>2. CASE End(k) \/ Recycle(k)
      <4>1. worker'[k].at \in {"ended", "check"}
        BY <3>2 DEF End, Recycle, At, Typed
      <4> QED
        BY <2>2, <4>1
    <3>3. CASE Pop(k) \/ RunOne(k) \/ Finish(k)
      <4>1. worker'[k].at \in {"popped", "querying", "ran"}
        BY <3>3 DEF Pop, RunOne, Finish, Typed
      <4> QED
        BY <2>2, <4>1
    <3> QED
      BY <1>3, <3>1, <3>2, <3>3 DEF Work
  <2> QED
    BY <2>1, <2>2
<1>4. CASE NotifyAll
  <2>1. stopper.at \in Shard /\ worker' = Notified(stopper.at) /\ queue' = queue
    BY <1>4 DEF NotifyAll, Typed
  <2>2. worker'[l].at = worker[l].at
    BY <2>1, NotifiedIs
  <2> QED
    BY <2>1, <2>2 DEF ParkedIsIdle
<1>5. CASE RequestStop \/ Join \/ DrainDqsResults \/ BeginStop \/ UNCHANGED vars
  BY <1>5 DEF RequestStop, Join, DrainDqsResults, BeginStop, vars, ParkedIsIdle
<1> QED
  BY <1>1, <1>2, <1>3, <1>4, <1>5 DEF Next, Stop

LEMMA StopNext == Typed /\ StopInOrder /\ [Next]_vars => StopInOrder'
<1> SUFFICES ASSUME Typed, StopInOrder, [Next]_vars PROVE StopInOrder'
  OBVIOUS
<1>0. Shards \in Nat /\ Shard = 1 .. Shards
  BY ConstantsAssumption DEF Shard
\* What leaves the stop alone keeps its order when no worker ends or revives.
<1>a. ASSUME UNCHANGED <<stopping, stopper>>,
             \A k \in Shard : worker'[k].at = "ended" <=> worker[k].at = "ended"
      PROVE  StopInOrder'
  BY <1>a DEF StopInOrder, Running, Typed
<1>1. ASSUME NEW c \in Caller, Push(c) PROVE StopInOrder'
  <2>1. ShardOf[caller[c].job] \in Shard
    BY <1>1, ConstantsAssumption DEF Push, Typed
  <2> QED
    BY <1>1, <1>a, <2>1, NotifiedIs DEF Push
<1>2. ASSUME NEW c \in Caller, Refuse(c) \/ TakeSlot(c) PROVE StopInOrder'
  BY <1>2, <1>a DEF Refuse, TakeSlot
<1>3. ASSUME NEW k \in Shard, Work(k) PROVE StopInOrder'
  <2>1. CASE End(k)
    <3>1. k \in stopping /\ worker'[k].at = "ended" /\ UNCHANGED <<stopping, stopper>>
          /\ \A l \in Shard \ {k} : worker'[l] = worker[l]
      BY <2>1 DEF End, At, Typed
    <3> QED
      BY <3>1 DEF StopInOrder, Running, Typed
  <2>2. CASE ~End(k)
    <3>1. /\ worker[k].at # "ended" /\ worker'[k].at # "ended" /\ UNCHANGED <<stopping, stopper>>
          /\ \A l \in Shard \ {k} : worker'[l] = worker[l]
      <4>1. CASE Decide(k) \/ Park(k) \/ Recycle(k)
        BY <4>1 DEF Decide, Park, Recycle, At, Typed
      <4>2. CASE Pop(k) \/ RunOne(k) \/ Finish(k)
        BY <4>2 DEF Pop, RunOne, Finish, Typed
      <4> QED
        BY <1>3, <2>2, <4>1, <4>2 DEF Work
    <3> QED
      BY <1>a, <3>1
  <2> QED
    BY <2>1, <2>2
<1>4. CASE DrainDqsResults \/ UNCHANGED vars
  BY <1>4, <1>a DEF DrainDqsResults, vars
<1>5. CASE BeginStop
  <2>1. stopper'.at = 1 /\ stopper'.step = "request" /\ UNCHANGED <<stopping, worker>> /\ Running
    BY <1>5 DEF BeginStop
  <2>2. 1 \in Shard /\ stopping = 1 .. 0
    BY <1>0, <2>1, ConstantsAssumption DEF StopInOrder
  <2> QED
    BY <2>1, <2>2 DEF StopInOrder, Running
<1>6. CASE RequestStop
  <2>1. /\ stopper.step = "request" /\ stopper'.step = "notify" /\ stopper'.at = stopper.at
        /\ stopping' = stopping \cup {stopper.at} /\ worker' = worker
    BY <1>6 DEF RequestStop, Typed
  <2>2. stopper.at \in 1 .. Shards /\ stopping = 1 .. stopper.at - 1
    BY <1>0, <2>1 DEF StopInOrder, Typed
  <2>3. stopping' = 1 .. stopper.at
    BY <1>0, <2>1, <2>2
  <2>4. \A k \in stopping' : k # stopper.at => worker[k].at = "ended"
    BY <2>1, <2>2 DEF StopInOrder
  <2>5. \A k \in Shard : worker[k].at = "ended" => k \in stopping'
    BY <2>1 DEF StopInOrder
  <2> QED
    BY <1>0, <2>1, <2>2, <2>3, <2>4, <2>5 DEF StopInOrder, Running
<1>7. CASE NotifyAll
  <2>1. /\ stopper.step = "notify" /\ stopper'.step = "join" /\ stopper'.at = stopper.at
        /\ stopping' = stopping /\ worker' = Notified(stopper.at) /\ stopper.at \in Shard
    BY <1>7 DEF NotifyAll, Typed
  <2>2. \A k \in Shard : worker'[k].at = "ended" <=> worker[k].at = "ended"
    BY <2>1, NotifiedIs
  <2> QED
    BY <2>1, <2>2 DEF StopInOrder, Running, Typed
<1>8. CASE Join
  <2>1. /\ stopper.step = "join" /\ stopper.at \in 1 .. Shards /\ worker[stopper.at].at = "ended"
        /\ UNCHANGED <<stopping, worker>> /\ stopping = 1 .. stopper.at
    BY <1>0, <1>8 DEF Join, Typed, StopInOrder
  <2>2. \A k \in stopping : worker[k].at = "ended"
    BY <2>1 DEF StopInOrder
  <2>3. \/ stopper' = [at |-> stopper.at, step |-> "stopped"] /\ stopper.at = Shards
        \/ stopper' = [at |-> stopper.at + 1, step |-> "request"] /\ stopper.at + 1 \in 1 .. Shards
    BY <1>0, <1>8, <2>1 DEF Join
  <2>4. CASE stopper' = [at |-> stopper.at, step |-> "stopped"] /\ stopper.at = Shards
    BY <1>0, <2>1, <2>2, <2>4 DEF StopInOrder, Running
  <2>5. CASE stopper' = [at |-> stopper.at + 1, step |-> "request"] /\ stopper.at + 1 \in 1 .. Shards
    <3>1. stopping' = 1 .. stopper'.at - 1
      BY <1>0, <2>1, <2>5
    <3> QED
      BY <1>0, <2>1, <2>2, <2>5, <3>1 DEF StopInOrder, Running
  <2> QED
    BY <2>3, <2>4, <2>5
<1> QED
  BY <1>1, <1>2, <1>3, <1>4, <1>5, <1>6, <1>7, <1>8 DEF Next, Stop

LEMMA WorkersAlways == Spec => [](Typed /\ ParkedIsIdle /\ StopInOrder)
<1>1. Init => ParkedIsIdle /\ StopInOrder
  BY ConstantsAssumption DEF Init, ParkedIsIdle, StopInOrder, Running, At, Shard
<1>2. Typed /\ ParkedIsIdle /\ StopInOrder /\ [Next]_vars => ParkedIsIdle' /\ StopInOrder'
  BY ParkedNext, StopNext
<1> QED
  BY <1>1, <1>2, TypedInit, TypedNext, PTL DEF Spec

\* DbShardManager::stop returns only when the threads of all workers have ended
\* (request_stop, notify_all and join, one worker after the other), and until a
\* server begins to stop no worker's thread ends: nothing runs on a queue that is
\* being destroyed, and nothing is pushed to a worker that is gone while the
\* server runs.  It holds whoever gives the slots back.
THEOREM StopJoinsAll ==
  Spec => []( /\ stopper.step = "stopped" => \A k \in Shard : worker[k].at = "ended"
              /\ Running => \A k \in Shard : worker[k].at # "ended" )
<1>1. ASSUME StopInOrder, Typed
      PROVE  /\ stopper.step = "stopped" => \A k \in Shard : worker[k].at = "ended"
             /\ Running => \A k \in Shard : worker[k].at # "ended"
  <2>1. ASSUME Running, NEW k \in Shard PROVE worker[k].at # "ended"
    BY <1>1, <2>1 DEF StopInOrder
  <2>2. ASSUME stopper.step = "stopped", NEW k \in Shard PROVE worker[k].at = "ended"
    BY <1>1, <2>2 DEF StopInOrder, Shard
  <2> QED
    BY <2>1, <2>2
<1> QED
  BY <1>1, WorkersAlways, PTL

-----------------------------------------------------------------------------
(* ---- requests stay with their shard, and none is stranded ---- *)

\* The payload a caller pushes is the one its slot holds, and a slot that was
\* pushed holds a request of the shard whose worker has it.
Sharded ==
  /\ \A c \in Caller : caller[c] # NoCall => slots[caller[c].slot] = caller[c].job
  /\ \A k \in Shard : \A i \in DOMAIN queue[k] : ShardOf[slots[queue[k][i]]] = k
  /\ \A k \in Shard : worker[k].at \in Busy => ShardOf[slots[worker[k].slot]] = k

\* What rewrites no slot that is in use, pushes and pops nothing keeps it.
LEMMA ShardedKept ==
  ASSUME Typed, Sharded, UNCHANGED <<queue, caller>>,
         \A c \in Caller : caller[c] # NoCall => slots'[caller[c].slot] = slots[caller[c].slot],
         \A k \in Shard : \A i \in DOMAIN queue[k] : slots'[queue[k][i]] = slots[queue[k][i]],
         \A k \in Shard : worker'[k].at \in Busy =>
           /\ worker[k].at \in Busy /\ worker'[k].slot = worker[k].slot
           /\ slots'[worker[k].slot] = slots[worker[k].slot]
  PROVE  Sharded'
  BY DEF Sharded

LEMMA ShardedNext == ~FreedByJob /\ Typed /\ Owned /\ Sharded /\ [Next]_vars => Sharded'
<1> SUFFICES ASSUME ~FreedByJob, Typed, Owned, Sharded, [Next]_vars PROVE Sharded'
  OBVIOUS
<1>1. ASSUME NEW c \in Caller, Refuse(c) PROVE Sharded'
  BY <1>1, ShardedKept DEF Refuse
<1>2. ASSUME NEW c \in Caller, TakeSlot(c) PROVE Sharded'
  <2> DEFINE s == Head(empty)
  <2>1. /\ s \in Slot /\ s = empty[1] /\ 1 \in DOMAIN empty /\ asked + 1 \in Job
        /\ slots' = [slots EXCEPT ![s] = asked + 1]
        /\ caller' = [caller EXCEPT ![c] = [slot |-> s, job |-> asked + 1]]
        /\ UNCHANGED <<queue, worker>>
    BY <1>2, TailAt, ConstantsAssumption DEF TakeSlot, Asks, Typed, Job
  <2> HIDE DEF s
  <2>2. \A t \in Slot \ {s} : slots'[t] = slots[t]
    BY <2>1 DEF Typed
  <2>3. ASSUME NEW d \in Caller, caller'[d] # NoCall PROVE slots'[caller'[d].slot] = caller'[d].job
    <3>1. CASE d = c
      <4>1. caller'[d] = [slot |-> s, job |-> asked + 1]
        BY <2>1, <3>1 DEF Typed
      <4> QED
        BY <2>1, <4>1 DEF Typed
    <3>2. CASE d # c
      <4>1. caller'[d] = caller[d] /\ caller[d] # NoCall
        BY <2>1, <2>3, <3>2 DEF Typed
      <4>2. caller[d].slot # s /\ caller[d].slot \in Slot
        BY <2>1, <4>1 DEF Typed, Owned, FreeApart
      <4> QED
        BY <2>2, <4>1, <4>2 DEF Sharded
    <3> QED
      BY <3>1, <3>2
  <2>4. ASSUME NEW k \in Shard, NEW i \in DOMAIN queue[k] PROVE ShardOf[slots'[queue'[k][i]]] = k
    <3>1. queue[k][i] \in Slot \ {s}
      BY <2>1 DEF Typed, Owned, FreeApart
    <3> QED
      BY <2>1, <2>2, <3>1 DEF Sharded
  <2>5. ASSUME NEW k \in Shard, worker'[k].at \in Busy PROVE ShardOf[slots'[worker'[k].slot]] = k
    <3>1. worker[k].slot \in Slot \ {s}
      BY <2>1, <2>5 DEF Typed, Owned, FreeApart
    <3> QED
      BY <2>1, <2>2, <2>5, <3>1 DEF Sharded
  <2> QED
    BY <2>1, <2>3, <2>4, <2>5 DEF Sharded
<1>3. ASSUME NEW c \in Caller, Push(c) PROVE Sharded'
  <2> DEFINE k == ShardOf[caller[c].job]
  <2>1. /\ caller[c] \in [slot : Slot, job : Job] /\ k \in Shard /\ caller[c] # NoCall
        /\ queue' = [queue EXCEPT ![k] = Append(@, caller[c].slot)] /\ worker' = Notified(k)
        /\ caller' = [caller EXCEPT ![c] = NoCall] /\ slots' = slots
    BY <1>3, ConstantsAssumption DEF Push, Typed
  <2>2. ShardOf[slots[caller[c].slot]] = k
    BY <2>1 DEF Sharded
  <2> HIDE DEF k
  <2>3. ASSUME NEW d \in Caller, caller'[d] # NoCall PROVE slots'[caller'[d].slot] = caller'[d].job
    BY <2>1, <2>3 DEF Sharded, Typed
  <2>4. ASSUME NEW l \in Shard, NEW i \in DOMAIN queue'[l] PROVE ShardOf[slots'[queue'[l][i]]] = l
    <3>1. CASE l # k
      BY <2>1, <2>4, <3>1 DEF Sharded, Typed
    <3>2. CASE l = k
      <4>1. queue'[l] = Append(queue[l], caller[c].slot) /\ queue[l] \in Seq(Slot)
        BY <2>1, <3>2 DEF Typed
      <4>2. \/ i \in DOMAIN queue[l] /\ queue'[l][i] = queue[l][i]
            \/ queue'[l][i] = caller[c].slot
        BY <2>1, <2>4, <4>1, AppendAt
      <4> QED
        BY <2>1, <2>2, <3>2, <4>2 DEF Sharded
    <3> QED
      BY <3>1, <3>2
  <2>5. ASSUME NEW l \in Shard, worker'[l].at \in Busy PROVE ShardOf[slots'[worker'[l].slot]] = l
    BY <2>1, <2>5, NotifiedTyped DEF Sharded
  <2> QED
    BY <2>3, <2>4, <2>5 DEF Sharded
<1>4. ASSUME NEW k \in Shard, Pop(k) PROVE Sharded'
  <2>1. /\ queue[k] \in Seq(Slot) /\ queue[k] # <<>> /\ slots' = slots /\ caller' = caller
        /\ worker' = [worker EXCEPT ![k] = [at |-> "popped", slot |-> Head(queue[k]), job |-> None]]
        /\ queue' = [queue EXCEPT ![k] = Tail(@)]
    BY <1>4 DEF Pop, Typed
  <2>2. Head(queue[k]) = queue[k][1] /\ 1 \in DOMAIN queue[k]
    BY <2>1, TailAt
  <2>3. \A i \in DOMAIN Tail(queue[k]) : i + 1 \in DOMAIN queue[k] /\ Tail(queue[k])[i] = queue[k][i + 1]
    BY <2>1, TailAt
  <2>4. \A l \in Shard : \A i \in DOMAIN queue'[l] : ShardOf[slots'[queue'[l][i]]] = l
    BY <2>1, <2>3 DEF Sharded, Typed
  <2>5. \A l \in Shard : worker'[l].at \in Busy => ShardOf[slots'[worker'[l].slot]] = l
    BY <2>1, <2>2 DEF Sharded, Typed
  <2> QED
    BY <2>1, <2>4, <2>5 DEF Sharded
<1>5. ASSUME NEW k \in Shard, Recycle(k) PROVE Sharded'
  <2> DEFINE s == worker[k].slot
  <2>1. /\ s \in Slot /\ worker[k].at \in Busy /\ slots' = [slots EXCEPT ![s] = None]
        /\ worker' = [worker EXCEPT ![k] = At("check")] /\ UNCHANGED <<queue, caller>>
    BY <1>5 DEF Recycle, Busy, Typed
  <2>2. \A t \in Slot \ {s} : slots'[t] = slots[t]
    BY <2>1 DEF Typed
  <2>3. worker'[k].at \notin Busy /\ \A l \in Shard \ {k} : worker'[l] = worker[l]
    BY <2>1 DEF At, Busy, Typed
  <2>4. \A c \in Caller : caller[c] # NoCall => caller[c].slot \in Slot \ {s}
    BY <2>1 DEF Typed, Owned, PushApart
  <2>5. \A l \in Shard : \A i \in DOMAIN queue[l] : queue[l][i] \in Slot \ {s}
    BY <2>1 DEF Typed, Owned, WorkApart
  <2>6. \A l \in Shard \ {k} : worker[l].at \in Busy => worker[l].slot \in Slot \ {s}
    BY <2>1 DEF Typed, Owned, WorkersApart
  <2> QED
    BY <2>1, <2>2, <2>3, <2>4, <2>5, <2>6, ShardedKept
<1>6. ASSUME NEW k \in Shard, End(k) \/ Decide(k) \/ Park(k) PROVE Sharded'
  <2>1. /\ UNCHANGED <<slots, queue, caller>> /\ worker'[k].at \notin Busy
        /\ \A l \in Shard \ {k} : worker'[l] = worker[l]
    BY <1>6 DEF End, Decide, Park, At, Busy, Typed
  <2> QED
    BY <2>1, ShardedKept
<1>7. ASSUME NEW k \in Shard, RunOne(k) \/ Finish(k) PROVE Sharded'
  <2>1. /\ UNCHANGED <<slots, queue, caller>> /\ worker[k].at \in Busy
        /\ worker'[k].slot = worker[k].slot /\ \A l \in Shard \ {k} : worker'[l] = worker[l]
    BY <1>7 DEF RunOne, Finish, Busy, Typed
  <2> QED
    BY <2>1, ShardedKept
<1>8. CASE NotifyAll
  <2>1. UNCHANGED <<slots, queue, caller>> /\ worker' = Notified(stopper.at) /\ stopper.at \in Shard
    BY <1>8 DEF NotifyAll, Typed
  <2>2. \A l \in Shard : worker'[l].at \in Busy => worker'[l] = worker[l]
    BY <2>1, NotifiedTyped
  <2> QED
    BY <2>1, <2>2, ShardedKept
<1>9. CASE RequestStop \/ Join \/ DrainDqsResults \/ BeginStop \/ UNCHANGED vars
  BY <1>9, ShardedKept DEF RequestStop, Join, DrainDqsResults, BeginStop, vars
<1> QED
  BY <1>1, <1>2, <1>3, <1>4, <1>5, <1>6, <1>7, <1>8, <1>9 DEF Next, Work, Stop

LEMMA TrackedAlways ==
  ~FreedByJob => (Spec => [](Typed /\ Owned /\ Held /\ Tracked /\ Sharded))
<1> SUFFICES ASSUME ~FreedByJob PROVE Spec => [](Typed /\ Owned /\ Held /\ Tracked /\ Sharded)
  OBVIOUS
<1>1. Init => Sharded
  BY DEF Init, Sharded, At, NoCall, Busy
<1>2. Typed /\ Owned /\ Held /\ Tracked /\ [Next]_vars => Tracked'
  BY TrackedNext
<1>3. Typed /\ Owned /\ Sharded /\ [Next]_vars => Sharded'
  BY ShardedNext
<1> QED
  BY <1>1, <1>2, <1>3, TrackedInit, HeldAlways, PTL DEF Spec

\* The worker that runs a request is the one of the shard it was routed to
\* (RouteAccountShard_, DbWorker::push), although the slots that carry requests
\* are shared by all shards and reused: one shard's requests are never run at
\* once, nor by the connection of another shard.
THEOREM RequestsKeepTheirShard ==
  ~FreedByJob =>
    (Spec => [](\A k \in Shard : worker[k].job # None => ShardOf[worker[k].job] = k))
<1> SUFFICES ASSUME ~FreedByJob
             PROVE  Spec => [](\A k \in Shard : worker[k].job # None => ShardOf[worker[k].job] = k)
  OBVIOUS
<1>1. ASSUME Tracked, Sharded
      PROVE  \A k \in Shard : worker[k].job # None => ShardOf[worker[k].job] = k
  <2> SUFFICES ASSUME NEW k \in Shard, worker[k].job # None PROVE ShardOf[worker[k].job] = k
    OBVIOUS
  <2>1. worker[k].at = "querying" /\ worker[k].job = slots[worker[k].slot]
    BY <1>1 DEF Tracked, WorkersRead
  <2> QED
    BY <1>1, <2>1 DEF Sharded, Busy
<1> QED
  BY <1>1, TrackedAlways, PTL

\* Who has the request j and what they do with it next: the caller pushes it; the
\* worker of its shard, which is not waiting and has not ended, pops it, runs it
\* or posts its result; the main loop answers it.
InHand(j) ==
  \/ \E c \in Caller : caller[c].job = j
  \/ \E k \in Shard : /\ k = ShardOf[j]
                      /\ worker[k].at \in {"check"} \cup Busy
                      /\ \E i \in DOMAIN queue[k] : slots[queue[k][i]] = j
  \/ \E k \in Shard : /\ k = ShardOf[j]
                      /\ \/ worker[k].at = "popped" /\ slots[worker[k].slot] = j
                         \/ worker[k].at = "querying" /\ worker[k].job = j
  \/ \E i \in DOMAIN results : results[i] = j

\* The safety half of "every request is answered" (RequestAnswered): while the
\* server runs, a request that was made and not answered is in the hand of
\* somebody who goes on with it.  In particular no request waits in the queue of
\* a worker that sleeps on cv_ or is about to: DbWorker::push takes the mutex and
\* notifies after the append, so no wake-up is lost.
THEOREM NoRequestStranded ==
  ~FreedByJob =>
    (Spec => [](Running => \A j \in 1 .. asked :
                             (\E i \in DOMAIN answered : answered[i] = j) \/ InHand(j)))
<1> DEFINE P == Running => \A j \in 1 .. asked :
                             (\E i \in DOMAIN answered : answered[i] = j) \/ InHand(j)
<1> SUFFICES ASSUME ~FreedByJob PROVE Spec => []P
  OBVIOUS
<1>1. ASSUME Typed, Owned, Tracked, Sharded, ParkedIsIdle, StopInOrder PROVE P
  <2> SUFFICES ASSUME Running, NEW j \in 1 .. asked, ~\E i \in DOMAIN answered : answered[i] = j
               PROVE  InHand(j)
    OBVIOUS
  <2>1. j # None
    BY <1>1, ConstantsAssumption DEF Typed
  <2>2. CASE j \in Done
    BY <2>2 DEF Done, Values, InHand
  <2>3. CASE j \notin Done
    <3>1. PICK s \in Slot : slots[s] = j
      BY <1>1, <2>3 DEF Tracked, NoneLost
    <3>2. ~\E i \in DOMAIN empty : empty[i] = s
      BY <1>1, <2>1, <3>1 DEF Tracked, FreeIsReset
    <3>3. CASE \E c \in Caller : caller[c] # NoCall /\ caller[c].slot = s
      BY <1>1, <3>1, <3>3 DEF Sharded, InHand
    <3>4. CASE \E k \in Shard : \E i \in DOMAIN queue[k] : queue[k][i] = s
      <4>1. PICK k \in Shard : \E i \in DOMAIN queue[k] : queue[k][i] = s
        BY <3>4
      <4>2. PICK i \in DOMAIN queue[k] : queue[k][i] = s
        BY <4>1
      <4>3. k = ShardOf[j] /\ slots[queue[k][i]] = j
        BY <1>1, <3>1, <4>2 DEF Sharded
      <4>4. queue[k] # <<>>
        BY <4>2
      <4>5. worker[k].at \notin {"parking", "asleep", "ended"}
        BY <1>1, <4>4 DEF ParkedIsIdle, StopInOrder
      <4>6. worker[k].at \in {"check"} \cup Busy
        BY <1>1, <4>5 DEF Typed
      <4> QED
        BY <4>2, <4>3, <4>6 DEF InHand
    <3>5. CASE \E k \in Shard : worker[k].at \in Busy /\ worker[k].slot = s
      <4>1. PICK k \in Shard : worker[k].at \in Busy /\ worker[k].slot = s
        BY <3>5
      <4>2. k = ShardOf[j]
        BY <1>1, <3>1, <4>1 DEF Sharded
      <4>3. worker[k].at # "ran"
        BY <1>1, <2>1, <2>3, <3>1, <4>1 DEF Tracked, RanIsDone, Ran
      <4>4. worker[k].at = "querying" => worker[k].job = j
        BY <1>1, <3>1, <4>1 DEF Tracked, WorkersRead
      <4> QED
        BY <3>1, <4>1, <4>2, <4>3, <4>4 DEF InHand, Busy
    <3> QED
      BY <1>1, <3>2, <3>3, <3>4, <3>5 DEF Owned, Covered
  <2> QED
    BY <2>2, <2>3
<1>2. Spec => [](Typed /\ Owned /\ Held /\ Tracked /\ Sharded)
  BY TrackedAlways
<1> QED
  BY <1>1, <1>2, WorkersAlways, PTL
=============================================================================
