------------------------ MODULE RecorderPipelineProofs ------------------------
(***************************************************************************)
(* Proofs about RecorderPipeline for every number of producers, every ring *)
(* capacity and every bound: the types, that no unread slot is overwritten *)
(* and that no event leaves the counters.  The inductive invariant adds to *)
(* these where the worker's cursor stands between the ring's two indices,  *)
(* who can hold wake_lock, and what a producer about to publish has        *)
(* stored.  The second half is about the order of the events on their way  *)
(* and the queue between the two threads, and refines EventLog; it begins  *)
(* with induction up to a number, and with it what the recursive functions *)
(* BytesOf and TextOf do.                                                  *)
(***************************************************************************)
EXTENDS RecorderPipeline, SequenceTheorems, FiniteSetTheorems, WellFoundedInduction, TLAPS

-----------------------------------------------------------------------------
(* The inductive invariant.                                                *)

\* The worker is between the snapshot and the end of the drain.
Draining == worker_pc \in {"format", "enqueue_write", "throttling", "throttled",
                           "unthrottled"}

\* The worker holds no slot of the ring.
Resting == worker_pc \in {"wait", "parking", "asleep", "woken", "snapshot",
                          "check_stop"}

CursorInv ==
  /\ PendingEventCount = RingDistance(read_index, local_read) + Unformatted
  /\ Draining => Unformatted = RingDistance(local_read, local_write)
                               + RingDistance(local_write, write_index)
  /\ Resting => local_read = read_index

\* wake_lock has one holder.
LockInv ==
  /\ \A p, q \in Producers :
       producer_pc[p] \in {"publish", "parking"}
         /\ producer_pc[q] \in {"publish", "parking"} => p = q
  /\ worker_pc = "parking" =>
       \A p \in Producers : producer_pc[p] \notin {"publish", "parking"}

PublishInv ==
  \A p \in Producers :
    /\ producer_pc[p] # "idle" => event[p] \in Event
    /\ producer_pc[p] = "publish" => ring[write_index] = event[p] /\ ~RingFull

\* The writer holds a batch only between popping and counting it.
WriterHandsInv ==
  writer_pc \notin {"popped", "writing", "written"} => current = <<>>

IInv ==
  /\ TypeOK /\ CursorInv /\ LockInv /\ PublishInv /\ WriterHandsInv
  /\ RingHoldsUnread /\ EveryEventCounted

-----------------------------------------------------------------------------
(* The ring's index arithmetic.                                            *)

Wrap(i) == IF i < RingCapacity THEN i ELSE i - RingCapacity

\* On the sums the model forms, the remainder is at most one subtraction.
LEMMA WrapIsMod ==
  ASSUME NEW i \in 0 .. 2 * RingCapacity - 1
  PROVE  i % RingCapacity = Wrap(i)
<1>1. CASE i < RingCapacity
  BY <1>1, RingAssumption DEF Wrap
<1>2. CASE i >= RingCapacity
  BY <1>2, RingAssumption DEF Wrap
<1>3. QED  BY <1>1, <1>2, RingAssumption

LEMMA NextSlotWraps ==
  ASSUME NEW i \in Slots
  PROVE  NextSlot(i) = Wrap(i + 1) /\ NextSlot(i) \in Slots
BY WrapIsMod, RingAssumption DEF NextSlot, Wrap, Slots

LEMMA DistanceType ==
  ASSUME NEW r \in Slots, NEW w \in Slots
  PROVE  RingDistance(r, w) \in 0 .. RingCapacity - 1
BY RingAssumption DEF RingDistance, Slots

\* Publishing an event makes the distance from every index but the next slot
\* longer by one.
LEMMA DistanceToNext ==
  ASSUME NEW r \in Slots, NEW w \in Slots, NextSlot(w) # r
  PROVE  RingDistance(r, NextSlot(w)) = RingDistance(r, w) + 1
BY NextSlotWraps, RingAssumption DEF RingDistance, Slots, Wrap

\* Going n slots from r towards w leaves the rest of the distance.
LEMMA DistanceFromLater ==
  ASSUME NEW r \in Slots, NEW w \in Slots, NEW n \in 0 .. RingDistance(r, w)
  PROVE  /\ (r + n) % RingCapacity = Wrap(r + n)
         /\ (r + n) % RingCapacity \in Slots
         /\ RingDistance((r + n) % RingCapacity, w) = RingDistance(r, w) - n
         /\ RingDistance(r, (r + n) % RingCapacity) = n
<1>1. r + n \in 0 .. 2 * RingCapacity - 1
  BY DistanceType, RingAssumption DEF Slots
<1>2. (r + n) % RingCapacity = Wrap(r + n)
  BY <1>1, WrapIsMod
<1>3. QED
  BY <1>1, <1>2, RingAssumption DEF RingDistance, Slots, Wrap

\* Distances add along the ring as long as no index is passed twice.
LEMMA DistanceEndsAt ==
  ASSUME NEW r \in Slots, NEW w \in Slots
  PROVE  (r + RingDistance(r, w)) % RingCapacity = w
BY DistanceType, WrapIsMod, RingAssumption DEF RingDistance, Slots, Wrap

\* Two walks one after the other are one walk.
LEMMA DistanceWalks ==
  ASSUME NEW r \in Slots, NEW w \in Slots, NEW n \in 0 .. RingDistance(r, w),
         NEW m \in 0 .. RingDistance(r, w) - n
  PROVE  (((r + n) % RingCapacity) + m) % RingCapacity
           = (r + (n + m)) % RingCapacity
<1>1. RingDistance(r, w) \in 0 .. RingCapacity - 1
  BY DistanceType
<1>2. /\ (r + n) % RingCapacity = Wrap(r + n)
      /\ (r + (n + m)) % RingCapacity = Wrap(r + (n + m))
  BY <1>1, WrapIsMod, RingAssumption DEF Slots
<1>3. Wrap(r + n) + m \in 0 .. 2 * RingCapacity - 1
  BY <1>1, RingAssumption DEF Slots, Wrap
<1>4. (Wrap(r + n) + m) % RingCapacity = Wrap(Wrap(r + n) + m)
  BY <1>3, WrapIsMod
<1>5. QED
  BY <1>1, <1>2, <1>4, RingAssumption DEF Slots, Wrap

\* The ring is full from r when only one slot is left.
LEMMA FullDistance ==
  ASSUME NEW r \in Slots, NEW w \in Slots
  PROVE  NextSlot(w) = r <=> RingDistance(r, w) = RingCapacity - 1
BY NextSlotWraps, RingAssumption DEF RingDistance, Slots, Wrap

\* The producers' two tests of a full ring, next # read in Enqueue's loop and the
\* predicate of its wait, agree.
LEMMA FullMeansNoRoom == TypeOK => (RingFull <=> ~HasRoom)
<1>1. TypeOK => read_index \in Slots /\ write_index \in Slots
  BY DEF TypeOK
<1>2. QED
  BY <1>1, FullDistance, DistanceType, RingAssumption
     DEF RingFull, HasRoom, PendingEventCount

-----------------------------------------------------------------------------
(* What is in the ring is in the log.                                      *)

LEMMA UnreadSlots ==
  ASSUME IInv, NEW k \in 1 .. PendingEventCount
  PROVE  /\ PendingEventCount \in 0 .. RingCapacity - 1
         /\ (read_index + k - 1) % RingCapacity \in Slots \ {write_index}
         /\ ring[(read_index + k - 1) % RingCapacity]
              = log[Len(log) - PendingEventCount + k]
         /\ ring[(read_index + k - 1) % RingCapacity] \in Event
<1>1. read_index \in Slots /\ write_index \in Slots /\ log \in Seq(Event)
  BY DEF IInv, TypeOK
<1>2. PendingEventCount \in 0 .. RingCapacity - 1
  BY <1>1, DistanceType DEF PendingEventCount
<1>3. k - 1 \in 0 .. RingDistance(read_index, write_index)
  BY <1>2 DEF PendingEventCount
<1>4. /\ (read_index + (k - 1)) % RingCapacity \in Slots
      /\ RingDistance(read_index, (read_index + (k - 1)) % RingCapacity) = k - 1
  BY <1>1, <1>3, DistanceFromLater
<1>5. read_index + k - 1 = read_index + (k - 1)
  BY <1>1, <1>2 DEF Slots
<1>6. (read_index + k - 1) % RingCapacity # write_index
  BY <1>2, <1>4, <1>5 DEF PendingEventCount
<1>7. /\ PendingEventCount <= Len(log)
      /\ ring[(read_index + k - 1) % RingCapacity]
           = log[Len(log) - PendingEventCount + k]
  BY DEF IInv, RingHoldsUnread
<1>8. Len(log) - PendingEventCount + k \in 1 .. Len(log)
  BY <1>1, <1>2, <1>7
<1>9. log[Len(log) - PendingEventCount + k] \in Event
  BY <1>1, <1>8
<1>10. QED
  BY <1>2, <1>4, <1>5, <1>6, <1>7, <1>9

\* The slots of a run are unread slots: what is formatted was published.
LEMMA RunIsPublished ==
  ASSUME IInv, worker_pc = "format",
         NEW n \in 1 .. RingDistance(local_read, local_write)
  PROVE  /\ RunOf(n) \in Seq(Event) /\ Len(RunOf(n)) = n
         /\ AfterRun(n) \in Slots
         /\ RingDistance(AfterRun(n), local_write)
              = RingDistance(local_read, local_write) - n
         /\ RingDistance(AfterRun(n), write_index) = Unformatted - n
         /\ RingDistance(read_index, AfterRun(n))
              = RingDistance(read_index, local_read) + n
<1> DEFINE d == RingDistance(read_index, local_read)
<1>1. /\ read_index \in Slots /\ write_index \in Slots
      /\ local_read \in Slots /\ local_write \in Slots
  BY DEF IInv, TypeOK
<1>2. /\ RingDistance(local_read, local_write) \in 0 .. RingCapacity - 1
      /\ RingDistance(local_write, write_index) \in 0 .. RingCapacity - 1
      /\ d \in 0 .. RingCapacity - 1
      /\ Unformatted \in 0 .. RingCapacity - 1
      /\ PendingEventCount \in 0 .. RingCapacity - 1
  BY <1>1, DistanceType DEF Unformatted, PendingEventCount
<1>3. /\ PendingEventCount = d + Unformatted
      /\ Unformatted = RingDistance(local_read, local_write)
                       + RingDistance(local_write, write_index)
  BY DEF IInv, CursorInv, Draining
<1>4. d + n \in 0 .. PendingEventCount /\ n \in 0 .. Unformatted
  BY <1>2, <1>3
<1>5. local_read = (read_index + d) % RingCapacity
  BY <1>1, DistanceEndsAt
<1>6. /\ AfterRun(n) \in Slots
      /\ RingDistance(AfterRun(n), local_write)
           = RingDistance(local_read, local_write) - n
      /\ RingDistance(AfterRun(n), write_index) = Unformatted - n
  BY <1>1, <1>2, <1>4, DistanceFromLater DEF AfterRun, Unformatted
<1>7. RingDistance(read_index, AfterRun(n)) = d + n
  <2>1. d \in 0 .. PendingEventCount /\ n \in 0 .. PendingEventCount - d
    BY <1>2, <1>3
  <2>2. AfterRun(n) = (read_index + (d + n)) % RingCapacity
    BY <1>1, <1>5, <2>1, DistanceWalks DEF AfterRun, PendingEventCount
  <2>3. QED
    BY <1>1, <1>4, <2>2, DistanceFromLater DEF PendingEventCount
<1>8. ASSUME NEW k \in 1 .. n
      PROVE  ring[(local_read + k - 1) % RingCapacity] \in Event
  <2>1. /\ d \in 0 .. PendingEventCount /\ k - 1 \in 0 .. PendingEventCount - d
        /\ d + k \in 1 .. PendingEventCount
    BY <1>2, <1>3
  <2>2. (((read_index + d) % RingCapacity) + (k - 1)) % RingCapacity
          = (read_index + (d + (k - 1))) % RingCapacity
    BY <1>1, <2>1, DistanceWalks DEF PendingEventCount
  <2>3. /\ local_read + k - 1 = local_read + (k - 1)
        /\ read_index + (d + (k - 1)) = read_index + (d + k) - 1
    BY <1>1, <1>2 DEF Slots
  <2>4. ring[(read_index + (d + k) - 1) % RingCapacity] \in Event
    BY <2>1, UnreadSlots
  <2>5. QED
    BY <1>5, <2>2, <2>3, <2>4
<1>9. RunOf(n) \in Seq(Event) /\ Len(RunOf(n)) = n
  <2>1. n \in Nat
    BY <1>2
  <2>2. RunOf(n) \in [1 .. n -> Event]
    BY <1>8 DEF RunOf
  <2>3. RunOf(n) \in Seq(Event)
    BY <2>1, <2>2, SeqDef
  <2>4. DOMAIN RunOf(n) = 1 .. Len(RunOf(n)) /\ Len(RunOf(n)) \in Nat
    BY <2>3, LenProperties
  <2>5. QED
    BY <2>1, <2>2, <2>3, <2>4
<1>10. QED
  BY <1>6, <1>7, <1>9
-----------------------------------------------------------------------------
(* What each part of the state is changed by.                              *)

RingSteps ==
  \/ \E p \in Producers : StoreSlot(p) \/ Publish(p)
  \/ Retire

LEMMA RingFrame == [Next]_vars => RingSteps \/ UNCHANGED ringVars
BY DEF Next, vars, RingSteps, ringVars, workerVars, workerRest, producerVars,
       queueVars, writerVars, stopVars, faultVars, ProducerNext, Offer,
       ProducerStep, ProducerPark, ProducerSleep, GiveUp, ProducerSpuriousWake,
       WorkerStep, WorkerWake, WorkerSleep, WorkerSpuriousWake, Snapshot,
       FormatRun, Flush, EndDrain, CheckStop, FormatThrows, PushBatch,
       DropBatch, Throttle, ThrottleSleep, WriterStep, PopBatch, WriterIdle,
       WriterSleep, BeginWrite, WriteText, CountWritten, WriterAborts,
       WriteFails, StopWorker, StopWriter, CloseFile

\* Where the worker can be in its loop when another thread has moved.
WorkerCursorFrame ==
  /\ UNCHANGED <<local_read, local_write>>
  /\ Draining' => Draining
  /\ Resting' => Resting

CursorSteps == Snapshot \/ FormatRun \/ Retire

LEMMA CursorFrame == [Next]_vars => CursorSteps \/ WorkerCursorFrame
<1> SUFFICES ASSUME [Next]_vars, ~CursorSteps  PROVE WorkerCursorFrame
  OBVIOUS
<1> USE DEF WorkerCursorFrame, Draining, Resting
<1>1. CASE UNCHANGED vars
  BY <1>1 DEF vars, workerVars
<1>2. CASE ProducerNext
  BY <1>2 DEF ProducerNext, Offer, ProducerStep, StoreSlot, Publish, Notified,
              ProducerPark, ProducerSleep, GiveUp, ProducerSpuriousWake,
              workerVars
<1>3. CASE WorkerStep
  BY <1>3 DEF WorkerStep, CursorSteps, workerRest, WorkerWake, WorkerSleep,
              Flush, EndDrain, CheckStop, CanEnqueueWrite, AfterEnqueueWrite,
              PushBatch, DropBatch, Throttle, ThrottleSleep
<1>4. CASE WorkerSpuriousWake \/ FormatThrows
  BY <1>4 DEF WorkerSpuriousWake, FormatThrows, workerRest
<1>5. CASE WriterStep
  BY <1>5 DEF WriterStep, PopBatch, WriterIdle, WriterSleep, BeginWrite,
              WriteText, CountWritten, workerVars, workerRest, QueueNotified
<1>6. CASE WriterAborts
  BY <1>6 DEF WriterAborts, WriteFails, workerRest, QueueNotified, Notified
<1>7. CASE StopWorker \/ StopWriter \/ CloseFile
  BY <1>7 DEF StopWorker, StopWriter, CloseFile, workerVars, workerRest,
              Notified
<1>8. QED
  BY <1>1, <1>2, <1>3, <1>4, <1>5, <1>6, <1>7 DEF Next
-----------------------------------------------------------------------------
(* Each part of the invariant is preserved.                                *)

LEMMA IndexTypes ==
  ASSUME IInv
  PROVE  /\ read_index \in Slots /\ write_index \in Slots
         /\ local_read \in Slots /\ local_write \in Slots
         /\ PendingEventCount \in 0 .. RingCapacity - 1
         /\ Unformatted \in 0 .. RingCapacity - 1
         /\ RingDistance(read_index, local_read) \in 0 .. RingCapacity - 1
         /\ RingDistance(local_read, local_write) \in 0 .. RingCapacity - 1
         /\ RingDistance(local_write, write_index) \in 0 .. RingCapacity - 1
BY DistanceType DEF IInv, TypeOK, PendingEventCount, Unformatted

\* A producer publishing finds room from every index the worker holds.
LEMMA PublishDistances ==
  ASSUME IInv, NEW p \in Producers, Publish(p)
  PROVE  /\ write_index' \in Slots
         /\ PendingEventCount' = PendingEventCount + 1
         /\ Unformatted' = Unformatted + 1
         /\ Draining => RingDistance(local_write, write_index)'
                          = RingDistance(local_write, write_index) + 1
<1> USE IndexTypes
<1>1. /\ ~RingFull
      /\ write_index' = NextSlot(write_index)
      /\ UNCHANGED <<read_index, local_read, local_write>>
  BY DEF IInv, PublishInv, Publish
<1>2. PendingEventCount # RingCapacity - 1
  BY <1>1, FullDistance DEF RingFull, PendingEventCount
<1>3. Unformatted # RingCapacity - 1
  BY <1>2, RingAssumption DEF IInv, CursorInv
<1>4. Draining => RingDistance(local_write, write_index) # RingCapacity - 1
  BY <1>3, RingAssumption DEF IInv, CursorInv
<1>5. NextSlot(write_index) # read_index /\ NextSlot(write_index) # local_read
  BY <1>2, <1>3, FullDistance DEF PendingEventCount, Unformatted
<1>6. Draining => NextSlot(write_index) # local_write
  BY <1>4, FullDistance
<1>7. QED
  BY <1>1, <1>5, <1>6, DistanceToNext, NextSlotWraps
     DEF PendingEventCount, Unformatted, RingDistance

LEMMA CursorStep == ASSUME IInv, [Next]_vars  PROVE CursorInv'
<1> USE IndexTypes
<1>1. CursorInv
  BY DEF IInv
<1>2. ASSUME NEW p \in Producers, Publish(p)  PROVE CursorInv'
  <2>1. UNCHANGED <<read_index, local_read, local_write>>
    BY <1>2 DEF Publish
  <2>2. (Draining' => Draining) /\ (Resting' => Resting)
    BY <1>2 DEF Publish, Notified, Draining, Resting
  <2>3. /\ PendingEventCount' = PendingEventCount + 1
        /\ Unformatted' = Unformatted + 1
        /\ Draining => RingDistance(local_write, write_index)'
                         = RingDistance(local_write, write_index) + 1
    BY <1>2, PublishDistances
  <2>4. /\ RingDistance(read_index, local_read)'
             = RingDistance(read_index, local_read)
        /\ RingDistance(local_read, local_write)'
             = RingDistance(local_read, local_write)
    BY <2>1 DEF RingDistance
  <2>5. QED
    BY <1>1, <2>1, <2>2, <2>3, <2>4 DEF CursorInv
<1>3. ASSUME NEW p \in Producers, StoreSlot(p)  PROVE CursorInv'
  BY <1>1, <1>3 DEF StoreSlot, CursorInv, workerVars, Draining, Resting,
                    PendingEventCount, Unformatted, RingDistance
<1>4. CASE Retire
  <2>1. /\ read_index' = local_read /\ worker_pc' = "check_stop"
        /\ UNCHANGED <<local_read, local_write, write_index>>
    BY <1>4 DEF Retire, workerRest
  <2>2. RingDistance(read_index, local_read)' = 0
    BY <2>1 DEF RingDistance, Slots
  <2>3. PendingEventCount' = Unformatted' /\ Unformatted' = Unformatted
    BY <2>1 DEF PendingEventCount, Unformatted
  <2>4. QED
    BY <2>1, <2>2, <2>3 DEF CursorInv, Draining, Resting
<1>5. CASE Snapshot
  <2>1. /\ local_read' = read_index /\ local_write' = write_index
        /\ worker_pc' = "format" /\ local_read = read_index
        /\ UNCHANGED <<read_index, write_index>>
    BY <1>1, <1>5 DEF Snapshot, ringVars, CursorInv, Resting
  <2>2. /\ PendingEventCount' = PendingEventCount
        /\ Unformatted' = PendingEventCount
        /\ RingDistance(local_read, local_write)' = PendingEventCount
    BY <2>1 DEF PendingEventCount, Unformatted, RingDistance
  <2>3. RingDistance(read_index, local_read)' = 0
        /\ RingDistance(local_write, write_index)' = 0
    BY <2>1 DEF RingDistance, Slots
  <2>4. QED
    BY <2>1, <2>2, <2>3 DEF CursorInv, Resting
<1>6. CASE FormatRun
  <2>1. PICK n \in 1 .. RingDistance(local_read, local_write) :
          local_read' = AfterRun(n)
    BY <1>6 DEF FormatRun
  <2>2. /\ worker_pc = "format" /\ worker_pc' = "format"
        /\ UNCHANGED <<read_index, write_index, local_write>>
    BY <1>6 DEF FormatRun, ringVars
  <2>3. /\ RingDistance(local_read, local_write)'
             = RingDistance(local_read, local_write) - n
        /\ Unformatted' = Unformatted - n
        /\ RingDistance(read_index, local_read)'
             = RingDistance(read_index, local_read) + n
    BY <2>1, <2>2, RunIsPublished DEF Unformatted, RingDistance
  <2>4. /\ PendingEventCount' = PendingEventCount
        /\ RingDistance(local_write, write_index)'
             = RingDistance(local_write, write_index)
    BY <2>2 DEF PendingEventCount, RingDistance
  <2>5. QED
    BY <1>1, <2>1, <2>2, <2>3, <2>4 DEF CursorInv, Draining, Resting
<1>7. CASE UNCHANGED ringVars /\ WorkerCursorFrame
  BY <1>1, <1>7 DEF ringVars, WorkerCursorFrame, CursorInv,
                    PendingEventCount, Unformatted, RingDistance
<1>8. CASE UNCHANGED ringVars /\ CursorSteps
  BY <1>4, <1>5, <1>6, <1>8 DEF CursorSteps
<1>9. QED
  BY <1>2, <1>3, <1>4, <1>7, <1>8, RingFrame, CursorFrame DEF RingSteps

LEMMA RingStep == ASSUME IInv, [Next]_vars  PROVE RingHoldsUnread'
<1> USE IndexTypes
<1>1. /\ RingHoldsUnread /\ log \in Seq(Event) /\ ring \in [Slots -> Event \cup {NoEvent}]
      /\ PendingEventCount <= Len(log)
  BY DEF IInv, TypeOK, RingHoldsUnread
<1>2. ASSUME NEW p \in Producers, StoreSlot(p)  PROVE RingHoldsUnread'
  <2>1. /\ ring' = [ring EXCEPT ![write_index] = event[p]]
        /\ UNCHANGED <<read_index, write_index, log>>
    BY <1>2 DEF StoreSlot, StoredSlot
  <2>2. PendingEventCount' = PendingEventCount
    BY <2>1 DEF PendingEventCount, RingDistance
  <2>3. ASSUME NEW k \in 1 .. PendingEventCount
        PROVE  ring'[(read_index + k - 1) % RingCapacity]
                 = log[Len(log) - PendingEventCount + k]
    BY <1>1, <2>1, UnreadSlots
  <2>4. QED
    BY <1>1, <2>1, <2>2, <2>3 DEF RingHoldsUnread
<1>3. ASSUME NEW p \in Producers, Publish(p)  PROVE RingHoldsUnread'
  <2>1. /\ UNCHANGED <<read_index, ring>>
        /\ log' = Append(log, event[p])
        /\ event[p] \in Event /\ ring[write_index] = event[p]
    BY <1>3 DEF Publish, IInv, PublishInv
  <2>2. PendingEventCount' = PendingEventCount + 1
    BY <1>3, PublishDistances
  <2>3. Len(log') = Len(log) + 1 /\ \A i \in 1 .. Len(log) : log'[i] = log[i]
    BY <1>1, <2>1
  <2>4. log'[Len(log) + 1] = event[p]
    BY <1>1, <2>1
  <2>5. ASSUME NEW k \in 1 .. PendingEventCount
        PROVE  ring[(read_index + k - 1) % RingCapacity]
                 = log'[Len(log') - PendingEventCount' + k]
    <3>1. Len(log) - PendingEventCount + k \in 1 .. Len(log)
      BY <1>1
    <3>2. Len(log') - PendingEventCount' + k = Len(log) - PendingEventCount + k
      BY <1>1, <2>2, <2>3
    <3>3. QED
      BY <2>3, <3>1, <3>2, UnreadSlots
  <2>6. ring[(read_index + (PendingEventCount + 1) - 1) % RingCapacity] = event[p]
    <3>1. read_index + (PendingEventCount + 1) - 1
            = read_index + PendingEventCount
      BY DEF Slots
    <3>2. (read_index + PendingEventCount) % RingCapacity = write_index
      BY DistanceEndsAt DEF PendingEventCount
    <3>3. QED
      BY <2>1, <3>1, <3>2
  <2>7. Len(log') - PendingEventCount' + (PendingEventCount + 1) = Len(log) + 1
    BY <1>1, <2>2, <2>3
  <2>8. ASSUME NEW k \in 1 .. PendingEventCount'
        PROVE  ring'[(read_index' + k - 1) % RingCapacity]
                 = log'[Len(log') - PendingEventCount' + k]
    <3>1. k \in 1 .. PendingEventCount \/ k = PendingEventCount + 1
      BY <2>2
    <3>2. QED
      BY <2>1, <2>4, <2>5, <2>6, <2>7, <3>1
  <2>9. PendingEventCount' <= Len(log')
    BY <1>1, <2>2, <2>3
  <2>10. QED
    BY <2>8, <2>9 DEF RingHoldsUnread
<1>4. CASE Retire
  <2> DEFINE d == RingDistance(read_index, local_read)
  <2>1. /\ read_index' = local_read
        /\ UNCHANGED <<ring, write_index, log>>
    BY <1>4 DEF Retire
  <2>2. /\ PendingEventCount' = Unformatted
        /\ PendingEventCount = d + Unformatted
    BY <2>1 DEF PendingEventCount, Unformatted, IInv, CursorInv, RingDistance
  <2>3. local_read = (read_index + d) % RingCapacity
    BY DistanceEndsAt
  <2>4. ASSUME NEW k \in 1 .. Unformatted
        PROVE  ring[(local_read + k - 1) % RingCapacity]
                 = log[Len(log) - Unformatted + k]
    <3>1. /\ d \in 0 .. PendingEventCount
          /\ k - 1 \in 0 .. PendingEventCount - d
          /\ d + k \in 1 .. PendingEventCount
      BY <2>2
    <3>2. (((read_index + d) % RingCapacity) + (k - 1)) % RingCapacity
            = (read_index + (d + (k - 1))) % RingCapacity
      BY <3>1, DistanceWalks DEF PendingEventCount
    <3>3. /\ local_read + k - 1 = local_read + (k - 1)
          /\ read_index + (d + (k - 1)) = read_index + (d + k) - 1
      BY DEF Slots
    <3>4. ring[(read_index + (d + k) - 1) % RingCapacity]
            = log[Len(log) - PendingEventCount + (d + k)]
      BY <3>1, UnreadSlots
    <3>5. Len(log) - PendingEventCount + (d + k) = Len(log) - Unformatted + k
      BY <1>1, <2>2
    <3>6. QED
      BY <2>3, <3>2, <3>3, <3>4, <3>5
  <2>5. QED
    BY <1>1, <2>1, <2>2, <2>4 DEF RingHoldsUnread
<1>5. CASE UNCHANGED ringVars
  BY <1>1, <1>5 DEF ringVars, RingHoldsUnread, PendingEventCount, RingDistance
<1>6. QED
  BY <1>2, <1>3, <1>4, <1>5, RingFrame DEF RingSteps
\* Steps of the threads that never hold wake_lock leave it as it is: they move a
\* producer or the worker at most from asleep to woken.
LockFrame ==
  /\ \A p \in Producers :
       producer_pc'[p] \in {"publish", "parking"} => producer_pc'[p] = producer_pc[p]
  /\ worker_pc' = "parking" => worker_pc = "parking"

LEMMA LockStep == ASSUME IInv, [Next]_vars  PROVE LockInv'
<1>1. LockInv /\ producer_pc \in [Producers -> {"idle", "enqueue", "publish",
                                                "parking", "asleep", "woken"}]
  BY DEF IInv, TypeOK
<1>2. CASE LockFrame
  BY <1>1, <1>2 DEF LockFrame, LockInv
<1>3. ASSUME NEW p \in Producers, StoreSlot(p) \/ ProducerPark(p)
      PROVE  LockInv'
  <2>1. WakeLockFree /\ worker_pc' = worker_pc
    BY <1>3 DEF StoreSlot, ProducerPark, CanLock, workerVars
  <2>2. \A q \in Producers : q # p => producer_pc'[q] = producer_pc[q]
    BY <1>1, <1>3 DEF StoreSlot, ProducerPark
  <2>3. QED
    BY <2>1, <2>2 DEF WakeLockFree, LockInv
<1>4. CASE WorkerWake
  BY <1>1, <1>4 DEF WorkerWake, WakeLockFree, LockInv, producerVars
<1>5. ASSUME NEW p \in Producers,
             \/ \E key \in Keys \cup {Plain} : Offer(p, key)
             \/ Publish(p) \/ ProducerSleep(p) \/ GiveUp(p)
             \/ ProducerSpuriousWake(p)
      PROVE  LockFrame
  BY <1>1, <1>5 DEF LockFrame, Offer, Publish, Notified, ProducerSleep, GiveUp,
                    ProducerSpuriousWake, workerVars
<1>6. ASSUME WorkerStep, ~WorkerWake  PROVE LockFrame
  BY <1>1, <1>6
     DEF LockFrame, WorkerStep, WorkerSleep, Snapshot, FormatRun, Flush,
         EndDrain, Retire, AllProducersNotified, Notified, CheckStop, PushBatch,
         DropBatch, AfterEnqueueWrite, Throttle, ThrottleSleep, producerVars
<1>7. CASE WorkerSpuriousWake \/ FormatThrows
  BY <1>1, <1>7, <1>2 DEF LockFrame, WorkerSpuriousWake, FormatThrows,
                    AllProducersNotified, Notified, producerVars
<1>8. ASSUME WriterStep \/ WriterAborts  PROVE LockFrame
  BY <1>1, <1>8
     DEF LockFrame, WriterStep, PopBatch, QueueNotified, WriterIdle,
         WriterSleep, BeginWrite, WriteText, CountWritten, WriterAborts,
         WriteFails, AllProducersNotified, Notified, producerVars, workerVars
<1>9. ASSUME StopWorker \/ StopWriter \/ CloseFile  PROVE LockFrame
  BY <1>1, <1>9 DEF LockFrame, StopWorker, StopWriter, CloseFile, Notified,
                    producerVars, workerVars
<1>10. CASE UNCHANGED vars
  BY <1>1, <1>10 DEF vars, producerVars, workerVars, LockInv
<1>11. QED
  BY <1>2, <1>3, <1>4, <1>5, <1>6, <1>7, <1>8, <1>9, <1>10
     DEF Next, ProducerNext, ProducerStep

\* Only these steps touch what PublishInv is about; the others let producers go
\* to idle or woken at most.
PublishFrame ==
  /\ UNCHANGED <<event, ringVars>>
  /\ \A p \in Producers :
       /\ producer_pc'[p] = "publish" => producer_pc[p] = "publish"
       /\ producer_pc'[p] # "idle" => producer_pc[p] # "idle"

LEMMA PublishStep == ASSUME IInv, [Next]_vars  PROVE PublishInv'
<1> USE IndexTypes
<1>1. /\ PublishInv /\ LockInv
      /\ producer_pc \in [Producers -> {"idle", "enqueue", "publish",
                                        "parking", "asleep", "woken"}]
      /\ ring \in [Slots -> Event \cup {NoEvent}]
      /\ event \in [Producers -> Event \cup {NoEvent}]
      /\ offered \in 0 .. MaxEvents
  BY DEF IInv, TypeOK
<1>2. CASE PublishFrame
  BY <1>1, <1>2 DEF PublishFrame, PublishInv, ringVars, RingFull
<1>3. ASSUME NEW p \in Producers, NEW key \in Keys \cup {Plain}, Offer(p, key)
      PROVE  PublishInv'
  <2>1. /\ event'[p] \in Event
        /\ producer_pc'[p] = "enqueue"
        /\ \A q \in Producers : q # p => /\ event'[q] = event[q]
                                         /\ producer_pc'[q] = producer_pc[q]
        /\ UNCHANGED ringVars
    BY <1>1, <1>3, EventsAssumption DEF Offer, Event
  <2>2. QED
    BY <1>1, <2>1 DEF PublishInv, ringVars, RingFull
<1>4. ASSUME NEW p \in Producers, StoreSlot(p)  PROVE PublishInv'
  <2>1. /\ ring'[write_index] = event[p]
        /\ ~RingFull /\ producer_pc[p] # "idle" /\ WakeLockFree
        /\ UNCHANGED <<event, read_index, write_index>>
        /\ \A q \in Producers : q # p => producer_pc'[q] = producer_pc[q]
    BY <1>1, <1>4 DEF StoreSlot, StoredSlot, CanLock
  <2>2. QED
    BY <1>1, <2>1 DEF PublishInv, RingFull, WakeLockFree
<1>5. ASSUME NEW p \in Producers, Publish(p)  PROVE PublishInv'
  <2>1. /\ UNCHANGED event /\ producer_pc[p] = "publish"
        /\ producer_pc'[p] = "idle"
        /\ \A q \in Producers : q # p => producer_pc'[q] = producer_pc[q]
    BY <1>1, <1>5 DEF Publish
  <2>2. \A q \in Producers : producer_pc'[q] # "publish"
    BY <1>1, <2>1 DEF LockInv
  <2>3. QED
    BY <1>1, <2>1, <2>2 DEF PublishInv
<1>6. CASE Retire
  <2>1. /\ UNCHANGED <<event, ring, write_index>> /\ read_index' = local_read
        /\ \A q \in Producers :
             /\ producer_pc'[q] = "publish" => producer_pc[q] = "publish"
             /\ producer_pc'[q] # "idle" => producer_pc[q] # "idle"
    BY <1>1, <1>6 DEF Retire, AllProducersNotified, Notified
  <2>2. ~RingFull => ~RingFull'
    <3>1. ASSUME ~RingFull  PROVE Unformatted # RingCapacity - 1
      BY <3>1, FullDistance, RingAssumption
         DEF RingFull, IInv, CursorInv, PendingEventCount
    <3>2. QED
      BY <2>1, <3>1, FullDistance DEF RingFull, Unformatted, NextSlot
  <2>3. QED
    BY <1>1, <2>1, <2>2 DEF PublishInv
<1>7. ASSUME NEW p \in Producers,
             \/ ProducerPark(p) \/ ProducerSleep(p) \/ GiveUp(p)
             \/ ProducerSpuriousWake(p)
      PROVE  PublishFrame
  BY <1>1, <1>7 DEF PublishFrame, ProducerPark, ProducerSleep, GiveUp, CanLock,
                    ProducerSpuriousWake
<1>8. ASSUME WorkerStep, ~Retire  PROVE PublishFrame
  BY <1>8
     DEF PublishFrame, WorkerStep, WorkerWake, WorkerSleep, Snapshot, FormatRun,
         Flush, EndDrain, CheckStop, PushBatch, DropBatch, Throttle,
         ThrottleSleep, producerVars
<1>9. ASSUME WorkerSpuriousWake \/ FormatThrows \/ WriterAborts
      PROVE  PublishFrame
  BY <1>1, <1>9
     DEF PublishFrame, WorkerSpuriousWake, FormatThrows, WriterAborts,
         WriteFails, AllProducersNotified, Notified, producerVars
<1>10. ASSUME WriterStep \/ StopWorker \/ StopWriter \/ CloseFile
       PROVE  PublishFrame
  BY <1>10
     DEF PublishFrame, WriterStep, PopBatch, WriterIdle, WriterSleep,
         BeginWrite, WriteText, CountWritten, StopWorker, StopWriter,
         CloseFile, producerVars
<1>11. CASE UNCHANGED vars
  BY <1>2, <1>11 DEF PublishFrame, vars, producerVars
<1>12. QED
  BY <1>2, <1>3, <1>4, <1>5, <1>6, <1>7, <1>8, <1>9, <1>10, <1>11
     DEF Next, ProducerNext, ProducerStep
\* What EveryEventCounted adds up, and the steps that move an event in it.
countVars == <<log, write_index, local_read, write_batch,
               pending_write_event_count, current, written_event_count,
               total_dropped_write_event_count, lost>>

CountSteps ==
  \/ \E p \in Producers : Publish(p)
  \/ Snapshot \/ FormatRun \/ FormatThrows \/ PushBatch \/ DropBatch
  \/ PopBatch \/ CountWritten \/ WriterAborts

LEMMA CountFrame == [Next]_vars => CountSteps \/ UNCHANGED countVars
BY DEF Next, vars, CountSteps, countVars, ringVars, workerVars, workerRest,
       producerVars, queueVars, writerVars, stopVars, faultVars, ProducerNext,
       Offer, ProducerStep, StoreSlot, ProducerPark, ProducerSleep, GiveUp,
       ProducerSpuriousWake, WorkerStep, WorkerWake, WorkerSleep,
       WorkerSpuriousWake, Flush, EndDrain, Retire, CheckStop, Throttle,
       ThrottleSleep, WriterStep, WriterIdle, WriterSleep, BeginWrite,
       WriteText, StopWorker, StopWriter, CloseFile

\* The numbers EveryEventCounted adds up.
LEMMA CountTypes ==
  ASSUME IInv
  PROVE  /\ Len(log) = Unformatted + Len(write_batch)
                       + pending_write_event_count + Len(current)
                       + written_event_count + total_dropped_write_event_count
                       + lost
         /\ log \in Seq(Event) /\ write_batch \in Seq(Event)
         /\ current \in Seq(Event)
         /\ Len(log) \in Int /\ Len(write_batch) \in Int /\ Len(current) \in Int
         /\ pending_write_event_count \in Int /\ written_event_count \in Int
         /\ total_dropped_write_event_count \in Int /\ lost \in Int
         /\ Unformatted \in Int
<1>1. /\ log \in Seq(Event) /\ write_batch \in Seq(Event)
      /\ current \in Seq(Event)
      /\ pending_write_event_count \in Int /\ written_event_count \in Nat
      /\ total_dropped_write_event_count \in Nat /\ lost \in Nat
  BY DEF IInv, TypeOK
<1>2. Unformatted \in Int
  BY IndexTypes
<1>3. Len(log) \in Nat /\ Len(write_batch) \in Nat /\ Len(current) \in Nat
  BY <1>1, LenProperties
<1>4. EveryEventCounted
  BY DEF IInv
<1>5. QED
  BY <1>1, <1>2, <1>3, <1>4 DEF EveryEventCounted

LEMMA CountStep == ASSUME IInv, [Next]_vars  PROVE EveryEventCounted'
<1>1. /\ Len(log) = Unformatted + Len(write_batch)
                    + pending_write_event_count + Len(current)
                    + written_event_count + total_dropped_write_event_count
                    + lost
      /\ Len(log) \in Int /\ Len(write_batch) \in Int /\ Len(current) \in Int
      /\ pending_write_event_count \in Int /\ written_event_count \in Int
      /\ total_dropped_write_event_count \in Int /\ lost \in Int
      /\ Unformatted \in Int
  BY CountTypes
<1>2. SUFFICES Len(log') = Unformatted' + Len(write_batch')
                         + pending_write_event_count' + Len(current')
                         + written_event_count'
                         + total_dropped_write_event_count' + lost'
  BY DEF EveryEventCounted
<1>3. ASSUME NEW p \in Producers, Publish(p)
      PROVE  EveryEventCounted'
  <2>1. /\ event[p] \in Event /\ log' = Append(log, event[p])
        /\ UNCHANGED <<write_batch, current>>
    BY <1>3 DEF Publish, IInv, PublishInv, writerVars
  <2>2. /\ Len(log') = Len(log) + 1 /\ Unformatted' = Unformatted + 1
        /\ Len(write_batch') = Len(write_batch)
        /\ pending_write_event_count' = pending_write_event_count
        /\ Len(current') = Len(current)
        /\ written_event_count' = written_event_count
        /\ total_dropped_write_event_count' = total_dropped_write_event_count
        /\ lost' = lost
    <3>1. Len(log') = Len(log) + 1
      BY <2>1, CountTypes, AppendProperties
    <3>2. Unformatted' = Unformatted + 1
      BY <1>3, PublishDistances
    <3>3. QED
      BY <1>3, <2>1, <3>1, <3>2 DEF Publish, queueVars, writerVars, faultVars
  <2>3. QED
    BY <1>1, <2>2 DEF EveryEventCounted
<1>4. CASE Snapshot
  <2>1. local_read' = local_read
    BY <1>4 DEF Snapshot, IInv, CursorInv, Resting
  <2>2. /\ Len(log') = Len(log) /\ Unformatted' = Unformatted
        /\ Len(write_batch') = Len(write_batch)
        /\ pending_write_event_count' = pending_write_event_count
        /\ Len(current') = Len(current)
        /\ written_event_count' = written_event_count
        /\ total_dropped_write_event_count' = total_dropped_write_event_count
        /\ lost' = lost
    BY <1>4, <2>1 DEF Snapshot, Unformatted, RingDistance, ringVars,
       queueVars, writerVars, faultVars
  <2>3. QED
    BY <1>1, <2>2
<1>5. CASE FormatRun
  <2>1. PICK n \in 1 .. RingDistance(local_read, local_write) :
          write_batch' = write_batch \o RunOf(n) /\ local_read' = AfterRun(n)
    BY <1>5 DEF FormatRun
  <2>2. n \in Int
    OBVIOUS
  <2>3. /\ worker_pc = "format" /\ write_index' = write_index
    BY <1>5 DEF FormatRun, ringVars
  <2>4. Unformatted' = Unformatted - n
    BY <2>1, <2>3, RunIsPublished DEF Unformatted, RingDistance
  <2>5. Len(write_batch') = Len(write_batch) + n
    <3>1. /\ write_batch \in Seq(Event) /\ RunOf(n) \in Seq(Event)
          /\ Len(RunOf(n)) = n
      BY <2>3, CountTypes, RunIsPublished
    <3>2. Len(write_batch \o RunOf(n)) = Len(write_batch) + Len(RunOf(n))
      BY <3>1, ConcatProperties
    <3>3. QED
      BY <2>1, <3>1, <3>2
  <2>6. /\ Len(log') = Len(log) /\ Unformatted' = Unformatted - n
        /\ Len(write_batch') = Len(write_batch) + n
        /\ pending_write_event_count' = pending_write_event_count
        /\ Len(current') = Len(current)
        /\ written_event_count' = written_event_count
        /\ total_dropped_write_event_count' = total_dropped_write_event_count
        /\ lost' = lost
    BY <1>5, <2>4, <2>5
       DEF FormatRun, ringVars, queueVars, writerVars, faultVars
  <2>7. QED
    BY <1>1, <2>6, <2>2
<1>6. CASE FormatThrows
  <2>1. /\ Len(log') = Len(log) /\ Unformatted' = Unformatted
        /\ Len(write_batch') = 0
        /\ pending_write_event_count' = pending_write_event_count
        /\ Len(current') = Len(current)
        /\ written_event_count' = written_event_count
        /\ total_dropped_write_event_count' = total_dropped_write_event_count
        /\ lost' = lost + Len(write_batch)
    BY <1>6, EmptySeq DEF FormatThrows, Unformatted, RingDistance, ringVars,
       queueVars, writerVars
  <2>2. QED
    BY <1>1, <2>1
<1>7. CASE PushBatch
  <2>1. /\ Len(log') = Len(log) /\ Unformatted' = Unformatted
        /\ Len(write_batch') = 0
        /\ pending_write_event_count' = pending_write_event_count + Len(write_batch)
        /\ Len(current') = Len(current)
        /\ written_event_count' = written_event_count
        /\ total_dropped_write_event_count' = total_dropped_write_event_count
        /\ lost' = lost
    BY <1>7, EmptySeq DEF PushBatch, Unformatted, RingDistance, ringVars,
       faultVars
  <2>2. QED
    BY <1>1, <2>1
<1>8. CASE DropBatch
  <2>1. /\ Len(log') = Len(log) /\ Unformatted' = Unformatted
        /\ Len(write_batch') = 0
        /\ pending_write_event_count' = pending_write_event_count
        /\ Len(current') = Len(current)
        /\ written_event_count' = written_event_count
        /\ total_dropped_write_event_count'
             = total_dropped_write_event_count + Len(write_batch)
        /\ lost' = lost
    BY <1>8, EmptySeq DEF DropBatch, Unformatted, RingDistance, ringVars,
       queueVars, writerVars
  <2>2. QED
    BY <1>1, <2>1
<1>9. CASE PopBatch
  <2>1. PICK n \in Int : n = Len(Head(pending_write_batches).events)
    <3>1. pending_write_batches \in Seq(Batch) /\ pending_write_batches # <<>>
      BY <1>9 DEF PopBatch, IInv, TypeOK
    <3>2. Head(pending_write_batches) \in Batch
      BY <3>1, HeadTailProperties
    <3>3. QED
      BY <3>2, LenProperties DEF Batch
  <2>2. current = <<>>
    BY <1>9 DEF PopBatch, IInv, WriterHandsInv
  <2>3. /\ Len(log') = Len(log) /\ Unformatted' = Unformatted
        /\ Len(write_batch') = Len(write_batch)
        /\ pending_write_event_count' = pending_write_event_count - n
        /\ Len(current') = Len(current) + n
        /\ written_event_count' = written_event_count
        /\ total_dropped_write_event_count' = total_dropped_write_event_count
        /\ lost' = lost
    <3>1. Len(current) = 0 /\ current' = Head(pending_write_batches).events
      BY <1>9, <2>2, EmptySeq DEF PopBatch
    <3>2. Len(current') = Len(current) + n
      BY <2>1, <3>1
    <3>3. QED
      BY <1>9, <2>1, <3>2 DEF PopBatch, Unformatted, RingDistance, workerRest,
         ringVars, faultVars
  <2>4. QED
    BY <1>1, <2>3
<1>10. CASE CountWritten
  <2>1. /\ Len(log') = Len(log) /\ Unformatted' = Unformatted
        /\ Len(write_batch') = Len(write_batch)
        /\ pending_write_event_count' = pending_write_event_count
        /\ Len(current') = 0
        /\ written_event_count' = written_event_count + Len(current)
        /\ total_dropped_write_event_count' = total_dropped_write_event_count
        /\ lost' = lost
    BY <1>10, EmptySeq DEF CountWritten, Unformatted, RingDistance,
       workerVars, ringVars, queueVars, faultVars
  <2>2. QED
    BY <1>1, <2>1
<1>11. CASE WriterAborts
  <2>1. PICK dropped \in {Len(current), 0} : WriteFails(dropped)
    BY <1>11 DEF WriterAborts
  <2>2. /\ Len(log') = Len(log) /\ Unformatted' = Unformatted
        /\ Len(write_batch') = Len(write_batch)
        /\ pending_write_event_count' = pending_write_event_count
        /\ Len(current') = 0
        /\ written_event_count' = written_event_count
        /\ total_dropped_write_event_count'
             = total_dropped_write_event_count + dropped
        /\ lost' = lost + Len(current) - dropped
    BY <2>1, EmptySeq DEF WriteFails, Unformatted, RingDistance, workerRest,
       ringVars, queueVars
  <2>3. QED
    BY <1>1, <2>2, <2>1
<1>12. CASE UNCHANGED countVars
  <2>1. /\ Len(log') = Len(log) /\ Unformatted' = Unformatted
        /\ Len(write_batch') = Len(write_batch)
        /\ pending_write_event_count' = pending_write_event_count
        /\ Len(current') = Len(current)
        /\ written_event_count' = written_event_count
        /\ total_dropped_write_event_count' = total_dropped_write_event_count
        /\ lost' = lost
    BY <1>12 DEF countVars, Unformatted, RingDistance
  <2>2. QED
    BY <1>1, <2>1
<1>13. QED
  BY <1>3, <1>4, <1>5, <1>6, <1>7, <1>8, <1>9, <1>10, <1>11, <1>12, CountFrame
     DEF CountSteps, EveryEventCounted

LEMMA WriterHandsStep == ASSUME IInv, [Next]_vars  PROVE WriterHandsInv'
<1>1. WriterHandsInv
  BY DEF IInv
<1>2. CASE PopBatch
  BY <1>2 DEF PopBatch, WriterHandsInv
<1>3. CASE CountWritten \/ WriterAborts
  BY <1>3 DEF CountWritten, WriterAborts, WriteFails, WriterHandsInv
<1>4. CASE WriterIdle \/ WriterSleep \/ BeginWrite \/ WriteText
  BY <1>1, <1>4 DEF WriterIdle, WriterSleep, BeginWrite, WriteText,
                    WriterHandsInv
<1>5. CASE PushBatch \/ StopWriter
  BY <1>1, <1>5 DEF PushBatch, StopWriter, Notified, WriterHandsInv
<1>6. CASE UNCHANGED writerVars
  BY <1>1, <1>6 DEF writerVars, WriterHandsInv
<1>7. WriterStep \/ WriterAborts \/ PushBatch \/ StopWriter
        \/ UNCHANGED writerVars
  BY DEF Next, vars, writerVars, ringVars, workerVars, workerRest,
         producerVars, queueVars, stopVars, faultVars, ProducerNext, Offer,
         ProducerStep, StoreSlot, Publish, ProducerPark, ProducerSleep, GiveUp,
         ProducerSpuriousWake, WorkerStep, WorkerWake, WorkerSleep,
         WorkerSpuriousWake, Snapshot, FormatRun, Flush, EndDrain, Retire,
         CheckStop, FormatThrows, DropBatch, Throttle, ThrottleSleep,
         StopWorker, CloseFile
<1>8. QED
  BY <1>2, <1>3, <1>4, <1>5, <1>6, <1>7 DEF WriterStep

-----------------------------------------------------------------------------
(* Type correctness.                                                       *)

PcTypes ==
  /\ producer_pc \in [Producers -> {"idle", "enqueue", "publish", "parking",
                                    "asleep", "woken"}]
  /\ worker_pc \in {"wait", "parking", "asleep", "woken", "snapshot", "format",
                    "enqueue_write", "throttling", "throttled", "unthrottled",
                    "retire", "check_stop", "exited"}
  /\ writer_pc \in {"wait", "parking", "asleep", "woken", "popped", "writing",
                    "written", "exited"}
  /\ owner_pc \in {"open", "join_worker", "join_writer", "closed"}
  /\ saw_empty \in BOOLEAN
  /\ worker_active \in BOOLEAN /\ writer_active \in BOOLEAN
  /\ stop_requested \in BOOLEAN /\ writer_stop_requested \in BOOLEAN
  /\ faulty \in BOOLEAN

RingTypes ==
  /\ offered \in 0 .. MaxEvents
  /\ event \in [Producers -> Event \cup {NoEvent}]
  /\ ring \in [Slots -> Event \cup {NoEvent}]
  /\ read_index \in Slots /\ write_index \in Slots
  /\ local_read \in Slots /\ local_write \in Slots
  /\ log \in Seq(Event)

BatchTypes ==
  /\ write_batch \in Seq(Event) /\ write_batch_bytes \in Nat
  /\ pending_write_batches \in Seq(Batch)
  /\ pending_write_bytes \in Int /\ pending_write_event_count \in Int
  /\ current \in Seq(Event) /\ file \in Seq(Event)
  /\ written_event_count \in Nat /\ total_dropped_write_event_count \in Nat
  /\ lost \in Nat

LEMMA TypeParts == TypeOK <=> PcTypes /\ RingTypes /\ BatchTypes
BY DEF TypeOK, PcTypes, RingTypes, BatchTypes

LEMMA PcTypesStep == ASSUME PcTypes, [Next]_vars  PROVE PcTypes'
<1> USE DEF PcTypes
<1>1. ASSUME NEW p \in Producers, NEW key \in Keys \cup {Plain}, Offer(p, key)
      PROVE  PcTypes'
  BY <1>1 DEF Offer, workerVars, writerVars, stopVars, faultVars
<1>2. ASSUME NEW p \in Producers, StoreSlot(p)  PROVE PcTypes'
  BY <1>2 DEF StoreSlot, SeesEmpty, workerVars, writerVars, stopVars, faultVars
<1>3. ASSUME NEW p \in Producers, Publish(p)  PROVE PcTypes'
  BY <1>3 DEF Publish, Notified, writerVars, stopVars, faultVars
<1>4. ASSUME NEW p \in Producers,
             \/ ProducerPark(p) \/ ProducerSleep(p) \/ GiveUp(p)
             \/ ProducerSpuriousWake(p)
      PROVE  PcTypes'
  BY <1>4 DEF ProducerPark, ProducerSleep, GiveUp, ProducerSpuriousWake,
     workerVars, writerVars, stopVars, faultVars
<1>5. ASSUME \/ WorkerWake \/ WorkerSleep \/ Snapshot \/ FormatRun \/ Flush
             \/ EndDrain \/ CheckStop \/ Throttle \/ ThrottleSleep
             \/ WorkerSpuriousWake
      PROVE  PcTypes'
  <2>1. UNCHANGED <<producerVars, writerVars, stopVars, faultVars>>
    BY <1>5 DEF WorkerWake, WorkerSleep, Snapshot, FormatRun, Flush, EndDrain,
       CheckStop, Throttle, ThrottleSleep, WorkerSpuriousWake
  <2>2. worker_active' \in BOOLEAN
    BY <1>5 DEF WorkerWake, WorkerSleep, Snapshot, FormatRun, Flush, EndDrain,
       CheckStop, Throttle, ThrottleSleep, WorkerSpuriousWake, workerRest
  <2>3. worker_pc' \in {"wait", "parking", "asleep", "woken", "snapshot",
                        "format", "enqueue_write", "throttling", "throttled",
                        "unthrottled", "retire", "check_stop", "exited"}
    BY <1>5 DEF WorkerWake, WorkerSleep, Snapshot, FormatRun, Flush, EndDrain,
       CheckStop, Throttle, ThrottleSleep, WorkerSpuriousWake
  <2>4. QED
    BY <2>1, <2>2, <2>3 DEF producerVars, writerVars, stopVars, faultVars
<1>6. CASE Retire \/ FormatThrows
  <2>1. producer_pc' \in [Producers -> {"idle", "enqueue", "publish", "parking",
                                       "asleep", "woken"}]
    BY <1>6 DEF Retire, FormatThrows, AllProducersNotified, Notified
  <2>2. /\ UNCHANGED <<saw_empty, worker_active, writerVars, owner_pc,
                       writer_stop_requested>>
        /\ stop_requested' \in BOOLEAN /\ faulty' \in BOOLEAN
    BY <1>6 DEF Retire, FormatThrows, workerRest, stopVars, faultVars
  <2>3. worker_pc' \in {"check_stop", "enqueue_write"}
    BY <1>6 DEF Retire, FormatThrows
  <2>4. worker_pc' \in {"wait", "parking", "asleep", "woken", "snapshot",
                        "format", "enqueue_write", "throttling", "throttled",
                        "unthrottled", "retire", "check_stop", "exited"}
    BY <2>3
  <2>5. UNCHANGED <<saw_empty, worker_active, writer_pc, writer_active, owner_pc,
                    writer_stop_requested>>
    BY <2>2 DEF writerVars
  <2>6. QED
    BY <2>1, <2>2, <2>4, <2>5
<1>7. CASE PushBatch \/ DropBatch
  BY <1>7 DEF PushBatch, DropBatch, AfterEnqueueWrite, Notified, producerVars,
     writerVars, stopVars, faultVars
<1>8. CASE WriterStep
  <2>1. CASE PopBatch
    BY <2>1 DEF PopBatch, QueueNotified, workerRest, producerVars, stopVars,
       faultVars
  <2>2. CASE WriterIdle \/ WriterSleep
    BY <2>2 DEF WriterIdle, WriterSleep, workerVars, producerVars, stopVars,
       faultVars
  <2>3. CASE BeginWrite \/ WriteText \/ CountWritten
    BY <2>3 DEF BeginWrite, WriteText, CountWritten, workerVars, producerVars,
       stopVars, faultVars
  <2>4. QED
    BY <1>8, <2>1, <2>2, <2>3 DEF WriterStep
<1>9. CASE WriterAborts
  BY <1>9 DEF WriterAborts, WriteFails, AllProducersNotified, Notified,
     QueueNotified, workerRest
<1>10. CASE StopWorker \/ StopWriter \/ CloseFile
  BY <1>10 DEF StopWorker, StopWriter, CloseFile, Notified, workerVars,
     workerRest, producerVars, writerVars, faultVars
<1>11. CASE UNCHANGED vars
  BY <1>11 DEF vars, workerVars, producerVars, writerVars, stopVars, faultVars
<1>12. QED
  BY <1>1, <1>2, <1>3, <1>4, <1>5, <1>6, <1>7, <1>8, <1>9, <1>10, <1>11
     DEF Next, ProducerNext, ProducerStep, WorkerStep

LEMMA RingTypesStep == ASSUME IInv, [Next]_vars  PROVE RingTypes'
<1>1. RingTypes
  BY TypeParts DEF IInv
<1>2. ASSUME NEW p \in Producers, NEW key \in Keys \cup {Plain}, Offer(p, key)
      PROVE  RingTypes'
  BY <1>1, <1>2, EventsAssumption
     DEF RingTypes, Offer, Event, ringVars, workerVars
<1>3. ASSUME NEW p \in Producers, StoreSlot(p)  PROVE RingTypes'
  BY <1>1, <1>3 DEF RingTypes, StoreSlot, StoredSlot, workerVars
<1>4. ASSUME NEW p \in Producers, Publish(p)  PROVE RingTypes'
  <2>1. event[p] \in Event
    BY <1>4 DEF Publish, IInv, PublishInv
  <2>2. write_index' \in Slots
    BY <1>4, PublishDistances
  <2>3. log' \in Seq(Event)
    BY <1>1, <1>4, <2>1, AppendProperties DEF Publish, RingTypes
  <2>4. QED
    BY <1>1, <1>4, <2>2, <2>3 DEF RingTypes, Publish
<1>5. CASE Snapshot \/ Retire
  BY <1>1, <1>5 DEF RingTypes, Snapshot, Retire, workerRest, producerVars,
     ringVars
<1>6. CASE FormatRun
  BY <1>1, <1>6, RunIsPublished DEF RingTypes, FormatRun, producerVars, ringVars
<1>7. ASSUME NEW p \in Producers,
             \/ ProducerPark(p) \/ ProducerSleep(p) \/ GiveUp(p)
             \/ ProducerSpuriousWake(p)
      PROVE  UNCHANGED <<offered, event, ringVars, local_read, local_write>>
  BY <1>7 DEF ProducerPark, ProducerSleep, GiveUp, ProducerSpuriousWake,
     workerVars
<1>8. ASSUME WorkerStep, ~(Snapshot \/ Retire \/ FormatRun)
      PROVE  UNCHANGED <<offered, event, ringVars, local_read, local_write>>
  BY <1>8 DEF WorkerStep, WorkerWake, WorkerSleep, Flush, EndDrain, CheckStop,
     PushBatch, DropBatch, Throttle, ThrottleSleep, workerRest, producerVars
<1>9. ASSUME \/ WorkerSpuriousWake \/ FormatThrows \/ WriterStep \/ WriterAborts
             \/ StopWorker \/ StopWriter \/ CloseFile \/ UNCHANGED vars
      PROVE  UNCHANGED <<offered, event, ringVars, local_read, local_write>>
  BY <1>9 DEF WorkerSpuriousWake, FormatThrows, WriterStep, PopBatch,
     WriterIdle, WriterSleep, BeginWrite, WriteText, CountWritten, WriterAborts,
     WriteFails, StopWorker, StopWriter, CloseFile, vars, workerVars,
     workerRest, producerVars
<1>10. CASE UNCHANGED <<offered, event, ringVars, local_read, local_write>>
  BY <1>1, <1>10 DEF RingTypes, ringVars
<1>11. QED
  BY <1>2, <1>3, <1>4, <1>5, <1>6, <1>7, <1>8, <1>9, <1>10
     DEF Next, ProducerNext, ProducerStep

LEMMA BatchTypesStep == ASSUME IInv, [Next]_vars  PROVE BatchTypes'
<1> DEFINE batchVars == <<write_batch, write_batch_bytes, queueVars, current,
                          file, written_event_count,
                          total_dropped_write_event_count, lost>>
<1>1. /\ BatchTypes
      /\ Len(write_batch) \in Nat /\ Len(current) \in Nat
  <2>1. BatchTypes
    BY TypeParts DEF IInv
  <2>2. QED
    BY <2>1, LenProperties DEF BatchTypes
<1>2. CASE FormatRun
  <2>1. PICK n \in 1 .. RingDistance(local_read, local_write) :
          write_batch' = write_batch \o RunOf(n)
    BY <1>2 DEF FormatRun
  <2>2. worker_pc = "format"
    BY <1>2 DEF FormatRun
  <2>3. RunOf(n) \in Seq(Event)
    BY <2>2, RunIsPublished
  <2>4. write_batch' \in Seq(Event)
    BY <1>1, <2>1, <2>3, ConcatProperties DEF BatchTypes
  <2>5. write_batch_bytes' \in Nat
    BY <1>1, <1>2, BytesAssumption DEF BatchTypes, FormatRun
  <2>6. QED
    BY <1>1, <1>2, <2>4, <2>5 DEF BatchTypes, FormatRun, queueVars, writerVars,
       faultVars
<1>3. CASE FormatThrows
  BY <1>1, <1>3, BytesAssumption, EmptySeq DEF BatchTypes, FormatThrows,
     queueVars, writerVars
<1>4. CASE PushBatch
  <2>1. [events |-> write_batch, bytes |-> write_batch_bytes] \in Batch
    BY <1>1 DEF BatchTypes, Batch
  <2>2. pending_write_batches' \in Seq(Batch)
    BY <1>1, <1>4, <2>1, AppendProperties DEF BatchTypes, PushBatch
  <2>3. QED
    BY <1>1, <1>4, <2>2, EmptySeq DEF BatchTypes, PushBatch, faultVars
<1>5. CASE DropBatch
  BY <1>1, <1>5, EmptySeq DEF BatchTypes, DropBatch, queueVars, writerVars
<1>6. CASE PopBatch
  <2>1. Head(pending_write_batches) \in Batch
        /\ Tail(pending_write_batches) \in Seq(Batch)
    BY <1>1, <1>6, HeadTailProperties DEF BatchTypes, PopBatch
  <2>2. /\ Head(pending_write_batches).events \in Seq(Event)
        /\ Head(pending_write_batches).bytes \in Nat
        /\ Len(Head(pending_write_batches).events) \in Nat
    BY <2>1, LenProperties DEF Batch
  <2>3. QED
    BY <1>1, <1>6, <2>1, <2>2 DEF BatchTypes, PopBatch, workerRest, faultVars
<1>7. CASE WriteText
  BY <1>1, <1>7, ConcatProperties DEF BatchTypes, WriteText, workerVars,
     queueVars, faultVars
<1>8. CASE CountWritten
  BY <1>1, <1>8, EmptySeq DEF BatchTypes, CountWritten, workerVars, queueVars,
     faultVars
<1>9. CASE WriterAborts
  <2>1. PICK dropped \in {Len(current), 0} : WriteFails(dropped)
    BY <1>9 DEF WriterAborts
  <2>2. PICK n \in 0 .. Len(current) : file' = file \o SubSeq(current, 1, n)
    BY <2>1 DEF WriteFails
  <2>3. SubSeq(current, 1, n) \in Seq(Event)
    BY <1>1, <2>2 DEF BatchTypes
  <2>4. file' \in Seq(Event)
    BY <1>1, <2>2, <2>3, ConcatProperties DEF BatchTypes
  <2>5. /\ total_dropped_write_event_count' \in Nat /\ lost' \in Nat
    BY <1>1, <2>1 DEF BatchTypes, WriteFails
  <2>6. QED
    BY <1>1, <2>1, <2>4, <2>5, EmptySeq DEF BatchTypes, WriteFails, workerRest,
       queueVars
<1>10. ASSUME ProducerNext  PROVE UNCHANGED batchVars
  BY <1>10 DEF ProducerNext, Offer, ProducerStep, StoreSlot, Publish,
     ProducerPark, ProducerSleep, GiveUp, ProducerSpuriousWake, workerVars,
     writerVars, faultVars
<1>11. ASSUME WorkerStep, ~(FormatRun \/ PushBatch \/ DropBatch)
       PROVE  UNCHANGED batchVars
  BY <1>11 DEF WorkerStep, WorkerWake, WorkerSleep, Snapshot, Flush, EndDrain,
     Retire, CheckStop, Throttle, ThrottleSleep, workerRest, writerVars,
     faultVars
<1>12. ASSUME \/ WorkerSpuriousWake \/ WriterIdle \/ WriterSleep \/ BeginWrite
              \/ StopWorker \/ StopWriter \/ CloseFile \/ UNCHANGED vars
       PROVE  UNCHANGED batchVars
  BY <1>12 DEF WorkerSpuriousWake, WriterIdle, WriterSleep, BeginWrite,
     StopWorker, StopWriter, CloseFile, vars, workerVars, workerRest,
     writerVars, faultVars
<1>13. CASE UNCHANGED batchVars
  BY <1>1, <1>13 DEF BatchTypes, queueVars
<1>14. QED
  BY <1>2, <1>3, <1>4, <1>5, <1>6, <1>7, <1>8, <1>9, <1>10, <1>11, <1>12,
     <1>13 DEF Next, WriterStep

-----------------------------------------------------------------------------
(* The theorems.                                                           *)

LEMMA InitIInv == Init => IInv
<1> SUFFICES ASSUME Init  PROVE IInv
  OBVIOUS
<1>1. TypeOK
  <2>1. PcTypes
    BY DEF Init, PcTypes
  <2>2. RingTypes
    BY RingAssumption, EventsAssumption, EmptySeq DEF Init, RingTypes, Slots
  <2>3. BatchTypes
    BY EmptySeq DEF Init, BatchTypes
  <2>4. QED
    BY <2>1, <2>2, <2>3, TypeParts
<1>2. /\ PendingEventCount = 0 /\ Unformatted = 0
      /\ RingDistance(read_index, local_read) = 0
  BY RingAssumption DEF Init, PendingEventCount, Unformatted, RingDistance
<1>3. Len(<<>>) = 0
  BY EmptySeq
<1>4. CursorInv /\ LockInv /\ PublishInv /\ WriterHandsInv
  BY <1>2 DEF Init, CursorInv, Draining, Resting, LockInv, PublishInv,
     WriterHandsInv
<1>5. RingHoldsUnread /\ EveryEventCounted
  BY <1>2, <1>3 DEF Init, RingHoldsUnread, EveryEventCounted
<1>6. QED
  BY <1>1, <1>4, <1>5 DEF IInv

LEMMA StepIInv == IInv /\ [Next]_vars => IInv'
<1> SUFFICES ASSUME IInv, [Next]_vars  PROVE IInv'
  OBVIOUS
<1>1. TypeOK'
  <2>1. PcTypes
    BY TypeParts DEF IInv
  <2>2. PcTypes' /\ RingTypes' /\ BatchTypes'
    BY <2>1, PcTypesStep, RingTypesStep, BatchTypesStep
  <2>3. QED
    BY <2>2 DEF TypeOK, PcTypes, RingTypes, BatchTypes
<1>2. CursorInv' /\ LockInv' /\ PublishInv' /\ WriterHandsInv'
  BY CursorStep, LockStep, PublishStep, WriterHandsStep
<1>3. RingHoldsUnread' /\ EveryEventCounted'
  BY RingStep, CountStep
<1>4. QED
  BY <1>1, <1>2, <1>3 DEF IInv

\* IInv holds in every reachable state of the recorder: StartWorker's Init and
\* every step of Enqueue, WorkerLoop, EnqueueWrite, WriterLoop and the
\* destructor keep it.
THEOREM Invariance == Spec => []IInv
BY InitIInv, StepIInv, PTL DEF Spec

\* Every variable of the recorder keeps its type: in particular both indices and
\* both cursors of WorkerLoop stay slots of the ring, and only events that
\* OnStep supplied, never a slot's initial content, reach a batch or the file.
THEOREM TypeCorrect == Spec => []TypeOK
<1>1. IInv => TypeOK
  BY DEF IInv
<1>2. QED
  BY Invariance, <1>1, PTL

\* Enqueue never overwrites a slot WorkerLoop has not given back: from
\* read_index to write_index the ring holds the latest published events in order.
THEOREM NoUnreadSlotOverwritten == Spec => []RingHoldsUnread
<1>1. IInv => RingHoldsUnread
  BY DEF IInv
<1>2. QED
  BY Invariance, <1>1, PTL

\* No interleaving, write fault, reporting fault or formatting exception makes an
\* event count twice or take part in no count.
THEOREM NoEventLeavesTheCounters == Spec => []EveryEventCounted
<1>1. IInv => EveryEventCounted
  BY DEF IInv
<1>2. QED
  BY Invariance, <1>1, PTL

-----------------------------------------------------------------------------
(* The invariant of the order and of the queue, beyond IInv.               *)

\* The worker holds a batch it hands to the writer.
Enqueuing == worker_pc \in {"enqueue_write", "throttling", "throttled",
                            "unthrottled"}

\* No batch is empty of bytes: what is queued can be seen in the byte counter.
BytesInv ==
  /\ write_batch # <<>> \/ Enqueuing => write_batch_bytes > 0
  /\ \A i \in 1 .. Len(pending_write_batches) :
       pending_write_batches[i].bytes > 0

\* Without a fault the threads stop in the order of the owner's steps.
StopInv ==
  /\ stop_requested /\ ~faulty => owner_pc # "open"
  /\ owner_pc # "open" => \A p \in Producers : producer_pc[p] = "idle"
  /\ owner_pc \in {"join_writer", "closed"} => worker_pc = "exited"
  /\ owner_pc = "closed" => writer_pc = "exited"
  /\ writer_stop_requested /\ ~faulty => owner_pc \in {"join_writer", "closed"}

\* What the worker has in its hands in each part of its loop; after a formatting
\* exception nothing but the error line.
WorkerInv ==
  /\ worker_pc # "format" /\ ~Enqueuing => write_batch = <<>>
  /\ Enqueuing /\ ~faulty => write_batch # <<>>
  /\ worker_pc = "exited" /\ ~faulty => owner_pc # "open" /\ Unformatted = 0
  /\ faulty /\ writer_pc # "exited" =>
       write_batch = <<>> /\ (Enqueuing \/ worker_pc = "exited")

WriterInv ==
  writer_pc = "exited" /\ ~faulty =>
    writer_stop_requested /\ pending_write_batches = <<>>

\* Concatenation under a name, so that proofs use the laws of CatLaws only.
Cat(s, t) == s \o t

\* What has reached the writer: written, in its hands or queued.
Delivered == Cat(Cat(file, Unwritten), TextOf(pending_write_batches))

\* The oldest events of the log.
IsPrefixOfLog(text) == \E rest \in Seq(Event) : Cat(text, rest) = log

\* The file is in the order of acceptance whatever has failed, and what the
\* writer will still write goes on in that order.
PrefixInv ==
  /\ IsPrefixOfLog(file)
  /\ writer_pc # "exited" => IsPrefixOfLog(Delivered)

OrderInv ==
  /\ IInv /\ BytesInv /\ StopInv /\ WorkerInv /\ WriterInv
  /\ QueueBounded /\ InFlightInOrder /\ PrefixInv

-----------------------------------------------------------------------------
(* Induction, from the well-foundedness of inclusion on finite sets.       *)

LEMMA Induction ==
  ASSUME NEW N \in Nat, NEW S, 0 \in S,
         \A n \in 0 .. N - 1 : n \in S => n + 1 \in S
  PROVE  0 .. N \subseteq S
<1> DEFINE Bad == {n \in 0 .. N : n \notin S}
           Below == {0 .. n : n \in Bad}
           Order == StrictSubsetOrdering(0 .. N)
<1> SUFFICES ASSUME Bad # {} PROVE FALSE
  OBVIOUS
<1>1. Below \subseteq SUBSET (0 .. N) /\ Below # {}
  OBVIOUS
<1>2. IsWellFoundedOn(Order, SUBSET (0 .. N))
  <2>1. IsFiniteSet(0 .. N)
    BY FS_Interval
  <2>2. FiniteSubsetsOf(0 .. N) = SUBSET (0 .. N)
    BY <2>1, FS_FiniteSubsetsOfFinite
  <2> HIDE DEF Order
  <2>3. IsWellFoundedOn(StrictSubsetOrdering(0 .. N), FiniteSubsetsOf(0 .. N))
    BY FS_StrictSubsetOrderingWellFounded
  <2> QED
    BY <2>2, <2>3 DEF Order
<1>3. \E x \in Below : \A y \in Below : ~ (<<y, x>> \in Order)
  <2> HIDE DEF Below, Order
  <2> QED
    BY <1>1, <1>2, WFMin
<1>4. PICK b \in Bad : \A y \in Below : ~ (<<y, 0 .. b>> \in Order)
  BY <1>3
<1>5. b # 0 /\ b - 1 \in Bad
  OBVIOUS
<1>6. 0 .. (b - 1) \in Below
  BY <1>5
<1>7. <<0 .. (b - 1), 0 .. b>> \in Order
  <2>1. 0 .. (b - 1) \subseteq 0 .. b /\ b \in 0 .. b /\ b \notin 0 .. (b - 1)
    OBVIOUS
  <2>2. 0 .. (b - 1) \in SUBSET (0 .. N) /\ 0 .. b \in SUBSET (0 .. N)
    OBVIOUS
  <2>3. 0 .. (b - 1) # 0 .. b
    BY <2>1
  <2> QED
    BY <2>1, <2>2, <2>3 DEF StrictSubsetOrdering
<1>8. QED
  BY <1>4, <1>6, <1>7

\* f is the recursive function up to m that starts at v and goes on with step.
Follows(f, m, v, step) ==
  f[0] = v /\ \A n \in 1 .. m : f[n] = step[n][f[n - 1]]

\* The same for a g of which no range is known: step is applied within V only.
FollowsWithin(g, m, V, v, step) ==
  g[0] = v /\ \A n \in 1 .. m : g[n - 1] \in V => g[n] = step[n][g[n - 1]]

LEMMA RecursionExists ==
  ASSUME NEW N \in Nat, NEW V, NEW v \in V, NEW step \in [1 .. N -> [V -> V]]
  PROVE  \E f \in [0 .. N -> V] : Follows(f, N, v, step)
<1> DEFINE S == {m \in 0 .. N : \E f \in [0 .. m -> V] : Follows(f, m, v, step)}
<1>1. 0 \in S
  <2>1. [n \in 0 .. 0 |-> v] \in [0 .. 0 -> V]
    OBVIOUS
  <2>2. Follows([n \in 0 .. 0 |-> v], 0, v, step)
    BY DEF Follows
  <2>3. QED
    BY <2>1, <2>2
<1>2. ASSUME NEW m \in 0 .. N - 1, m \in S  PROVE m + 1 \in S
  <2>1. PICK f \in [0 .. m -> V] : Follows(f, m, v, step)
    BY <1>2
  <2> DEFINE g == [n \in 0 .. m + 1 |->
                     IF n = m + 1 THEN step[m + 1][f[m]] ELSE f[n]]
  <2>2. g \in [0 .. m + 1 -> V]
    <3>1. step[m + 1][f[m]] \in V
      OBVIOUS
    <3>2. QED
      BY <3>1
  <2>3. Follows(g, m + 1, v, step)
    BY <2>1 DEF Follows
  <2>4. m + 1 \in 0 .. N
    OBVIOUS
  <2> HIDE DEF g
  <2>5. QED
    BY <2>2, <2>3, <2>4
<1>3. 0 .. N \subseteq S
  <2> HIDE DEF S
  <2> QED
    BY <1>1, <1>2, Induction
<1>4. QED
  BY <1>3

LEMMA RecursionUnique ==
  ASSUME NEW N \in Nat, NEW V, NEW v, NEW step, NEW f \in [0 .. N -> V], NEW g,
         Follows(f, N, v, step), FollowsWithin(g, N, V, v, step)
  PROVE  f[N] = g[N]
<1> DEFINE S == {m \in 0 .. N : f[m] = g[m]}
<1>1. 0 \in S
  BY DEF Follows, FollowsWithin
<1>2. ASSUME NEW m \in 0 .. N - 1, m \in S  PROVE m + 1 \in S
  <2>1. m + 1 \in 1 .. N /\ (m + 1) - 1 = m /\ g[m] \in V
    BY <1>2
  <2>2. f[m + 1] = step[m + 1][f[m]] /\ g[m + 1] = step[m + 1][g[m]]
    BY <2>1 DEF Follows, FollowsWithin
  <2>3. QED
    BY <1>2, <2>2
<1>3. 0 .. N \subseteq S
  <2> HIDE DEF S
  <2> QED
    BY <1>1, <1>2, Induction
<1>4. QED
  BY <1>3

-----------------------------------------------------------------------------
(* The bytes and the text of a queue, by one batch at either end.          *)

AddBytes(q) == [n \in 1 .. Len(q) |-> [b \in Nat |-> b + q[n].bytes]]
AddText(q) == [n \in 1 .. Len(q) |-> [t \in Seq(Event) |-> t \o q[n].events]]

LEMMA Associative ==
  ASSUME NEW s \in Seq(Event), NEW t \in Seq(Event), NEW u \in Seq(Event)
  PROVE  (s \o t) \o u = s \o (t \o u)
BY ConcatAssociative

LEMMA BatchFields ==
  ASSUME NEW q \in Seq(Batch), NEW n \in 1 .. Len(q)
  PROVE  q[n].bytes \in Nat /\ q[n].events \in Seq(Event)
<1>1. q[n] \in Batch
  BY ElementOfSeq
<1>2. QED
  BY <1>1 DEF Batch

LEMMA ByteStep ==
  ASSUME NEW q \in Seq(Batch), NEW f \in [0 .. Len(q) -> Nat]
  PROVE  Follows(f, Len(q), 0, AddBytes(q)) <=>
           /\ f[0] = 0
           /\ \A n \in 1 .. Len(q) : f[n] = f[n - 1] + q[n].bytes
<1>1. Len(q) \in Nat
  BY LenProperties
<1>2. ASSUME NEW n \in 1 .. Len(q)
      PROVE  f[n - 1] \in Nat /\ AddBytes(q)[n][f[n - 1]] = f[n - 1] + q[n].bytes
  <2>1. n - 1 \in 0 .. Len(q)
    BY <1>1
  <2>2. QED
    BY <2>1 DEF AddBytes
<1>3. QED
  BY <1>2 DEF Follows

\* BytesOf is the last value of any function that follows its steps.
LEMMA BytesIs ==
  ASSUME NEW q \in Seq(Batch), NEW f \in [0 .. Len(q) -> Nat],
         Follows(f, Len(q), 0, AddBytes(q))
  PROVE  BytesOf(q) = f[Len(q)]
<1> DEFINE IsBytes(g) == g = [n \in 0 .. Len(q) |->
                                IF n = 0 THEN 0 ELSE g[n - 1] + q[n].bytes]
           bytes == CHOOSE g : IsBytes(g)
<1>1. Len(q) \in Nat
  BY LenProperties
<1>2. IsBytes(f)
  <2>1. ASSUME NEW n \in 1 .. Len(q)  PROVE f[n] = f[n - 1] + q[n].bytes
    BY ByteStep
  <2>2. f[0] = 0
    BY ByteStep
  <2>3. QED
    BY <1>1, <2>1, <2>2
<1>3. IsBytes(bytes)
  <2> HIDE DEF IsBytes
  <2> QED
    BY <1>2
<1>4. /\ bytes[0] = 0
      /\ \A n \in 1 .. Len(q) : bytes[n] = bytes[n - 1] + q[n].bytes
  <2> HIDE DEF bytes
  <2> QED
    BY <1>1, <1>3
<1>5. BytesOf(q) = bytes[Len(q)]
  BY DEF BytesOf
<1>6. QED
  <2> HIDE DEF bytes
  <2>1. FollowsWithin(bytes, Len(q), Nat, 0, AddBytes(q))
    BY <1>4 DEF AddBytes, FollowsWithin
  <2>2. f[Len(q)] = bytes[Len(q)]
    BY <1>1, <2>1, RecursionUnique
  <2>3. QED
    BY <1>5, <2>2

LEMMA BytesFollow ==
  ASSUME NEW q \in Seq(Batch)
  PROVE  /\ Len(q) \in Nat
         /\ \E f \in [0 .. Len(q) -> Nat] : Follows(f, Len(q), 0, AddBytes(q))
<1>1. Len(q) \in Nat
  BY LenProperties
<1>2. AddBytes(q) \in [1 .. Len(q) -> [Nat -> Nat]]
  BY <1>1, BatchFields DEF AddBytes
<1>3. QED
  BY <1>1, <1>2, RecursionExists

LEMMA BytesType == ASSUME NEW q \in Seq(Batch)  PROVE BytesOf(q) \in Nat
<1>1. PICK f \in [0 .. Len(q) -> Nat] :
        Follows(f, Len(q), 0, AddBytes(q))
  BY BytesFollow
<1>2. Len(q) \in Nat /\ BytesOf(q) = f[Len(q)]
  BY <1>1, BytesIs, LenProperties
<1>3. QED
  BY <1>2

LEMMA BytesOfEmpty == BytesOf(<<>>) = 0
<1>1. <<>> \in Seq(Batch) /\ Len(<<>>) = 0
  BY EmptySeq
<1>2. PICK f \in [0 .. 0 -> Nat] : Follows(f, 0, 0, AddBytes(<<>>))
  BY <1>1, BytesFollow
<1>3. QED
  BY <1>1, <1>2, BytesIs DEF Follows

LEMMA BytesOfAppend ==
  ASSUME NEW q \in Seq(Batch), NEW b \in Batch
  PROVE  BytesOf(Append(q, b)) = BytesOf(q) + b.bytes
<1>1. PICK f \in [0 .. Len(q) -> Nat] : Follows(f, Len(q), 0, AddBytes(q))
  BY BytesFollow
<1>2. BytesOf(q) = f[Len(q)] /\ BytesOf(q) \in Nat /\ Len(q) \in Nat
  BY <1>1, BytesIs, BytesFollow
<1> DEFINE r == Append(q, b)
           g == [n \in 0 .. Len(q) + 1 |->
                   IF n = Len(q) + 1 THEN f[Len(q)] + b.bytes ELSE f[n]]
<1>3. /\ r \in Seq(Batch) /\ Len(r) = Len(q) + 1
      /\ r[Len(q) + 1] = b /\ \A n \in 1 .. Len(q) : r[n] = q[n]
  BY AppendProperties
<1>4. b.bytes \in Nat
  BY DEF Batch
<1>5. g \in [0 .. Len(r) -> Nat]
  BY <1>2, <1>3, <1>4
<1>6. Follows(g, Len(r), 0, AddBytes(r))
  <2> HIDE DEF r
  <2>1. g[0] = 0
    BY <1>1, <1>2 DEF Follows
  <2>2. ASSUME NEW n \in 1 .. Len(q)  PROVE g[n] = g[n - 1] + q[n].bytes
    <3>1. n \in 0 .. Len(q) + 1 /\ n - 1 \in 0 .. Len(q) + 1 /\ n # Len(q) + 1
          /\ n - 1 # Len(q) + 1
      BY <1>2
    <3>2. f[n] = f[n - 1] + q[n].bytes
      BY <1>1, ByteStep
    <3>3. QED
      BY <3>1, <3>2
  <2>3. g[Len(q) + 1] = g[Len(q)] + b.bytes
    BY <1>2
  <2>4. ASSUME NEW n \in 1 .. Len(r)  PROVE g[n] = g[n - 1] + r[n].bytes
    <3>1. n \in 1 .. Len(q) \/ n = Len(q) + 1
      BY <1>2, <1>3
    <3> HIDE DEF g
    <3>2. QED
      BY <1>2, <1>3, <2>2, <2>3, <3>1
  <2> HIDE DEF g
  <2>5. QED
    BY <1>3, <1>5, <2>1, <2>4, ByteStep
<1>7. g[Len(r)] = f[Len(q)] + b.bytes
  BY <1>2, <1>3
<1> HIDE DEF g, r
<1>8. BytesOf(r) = g[Len(r)]
  BY <1>3, <1>5, <1>6, BytesIs
<1>9. QED
  BY <1>2, <1>7, <1>8 DEF r

LEMMA BytesOfTail ==
  ASSUME NEW q \in Seq(Batch), q # <<>>
  PROVE  BytesOf(q) = Head(q).bytes + BytesOf(Tail(q))
<1> DEFINE r == Tail(q)
<1>1. /\ r \in Seq(Batch) /\ Len(q) \in Nat /\ Len(q) = Len(r) + 1
      /\ Len(r) \in Nat /\ Head(q) = q[1] /\ Head(q) \in Batch
      /\ \A n \in 1 .. Len(r) : r[n] = q[n + 1]
  BY HeadTailProperties, LenProperties, EmptySeq
<1>2. PICK h \in [0 .. Len(r) -> Nat] : Follows(h, Len(r), 0, AddBytes(r))
  BY <1>1, BytesFollow
<1> HIDE DEF r
<1>3. h[0] = 0 /\ \A n \in 1 .. Len(r) : h[n] = h[n - 1] + r[n].bytes
  BY <1>1, <1>2, ByteStep
<1> DEFINE g == [n \in 0 .. Len(q) |->
                   IF n = 0 THEN 0 ELSE Head(q).bytes + h[n - 1]]
<1>4. Head(q).bytes \in Nat
  BY <1>1 DEF Batch
<1>5. g \in [0 .. Len(q) -> Nat]
  BY <1>1, <1>4
<1>6. ASSUME NEW n \in 1 .. Len(q)  PROVE g[n] = g[n - 1] + q[n].bytes
  <2>1. CASE n = 1
    BY <1>1, <1>3, <1>4, <2>1
  <2>2. CASE n # 1
    <3>1. n - 1 \in 1 .. Len(r) /\ n - 2 \in 0 .. Len(r) /\ (n - 1) - 1 = n - 2
          /\ (n - 1) + 1 = n
      BY <1>1, <2>2
    <3>2. h[n - 1] = h[n - 2] + q[n].bytes
      BY <1>1, <1>3, <3>1
    <3>3. q[n].bytes \in Nat /\ h[n - 2] \in Nat
      BY <3>1, BatchFields
    <3>4. g[n] = Head(q).bytes + h[n - 1] /\ g[n - 1] = Head(q).bytes + h[n - 2]
      BY <1>1, <2>2, <3>1
    <3>5. QED
      BY <1>4, <3>2, <3>3, <3>4
  <2>3. QED
    BY <2>1, <2>2
<1>7. g[0] = 0 /\ g[Len(q)] = Head(q).bytes + h[Len(r)]
  BY <1>1
<1> HIDE DEF g
<1>8. Follows(g, Len(q), 0, AddBytes(q))
  BY <1>5, <1>6, <1>7, ByteStep
<1>9. BytesOf(q) = g[Len(q)] /\ BytesOf(r) = h[Len(r)]
  BY <1>1, <1>2, <1>5, <1>8, BytesIs
<1>10. QED
  BY <1>7, <1>9 DEF r

LEMMA TextStep ==
  ASSUME NEW q \in Seq(Batch), NEW f \in [0 .. Len(q) -> Seq(Event)]
  PROVE  Follows(f, Len(q), <<>>, AddText(q)) <=>
           /\ f[0] = <<>>
           /\ \A n \in 1 .. Len(q) : f[n] = f[n - 1] \o q[n].events
<1>1. Len(q) \in Nat
  BY LenProperties
<1>2. ASSUME NEW n \in 1 .. Len(q)
      PROVE  f[n - 1] \in Seq(Event) /\ AddText(q)[n][f[n - 1]] = f[n - 1] \o q[n].events
  <2>1. n - 1 \in 0 .. Len(q)
    BY <1>1
  <2>2. QED
    BY <2>1 DEF AddText
<1>3. QED
  BY <1>2 DEF Follows

\* TextOf is the last value of any function that follows its steps.
LEMMA TextIs ==
  ASSUME NEW q \in Seq(Batch), NEW f \in [0 .. Len(q) -> Seq(Event)],
         Follows(f, Len(q), <<>>, AddText(q))
  PROVE  TextOf(q) = f[Len(q)]
<1> DEFINE IsText(g) == g = [n \in 0 .. Len(q) |->
                                IF n = 0 THEN <<>> ELSE g[n - 1] \o q[n].events]
           text == CHOOSE g : IsText(g)
<1>1. Len(q) \in Nat
  BY LenProperties
<1>2. IsText(f)
  <2>1. ASSUME NEW n \in 1 .. Len(q)  PROVE f[n] = f[n - 1] \o q[n].events
    BY TextStep
  <2>2. f[0] = <<>>
    BY TextStep
  <2>3. QED
    BY <1>1, <2>1, <2>2
<1>3. IsText(text)
  <2> HIDE DEF IsText
  <2> QED
    BY <1>2
<1>4. /\ text[0] = <<>>
      /\ \A n \in 1 .. Len(q) : text[n] = text[n - 1] \o q[n].events
  <2> HIDE DEF text
  <2>1. ASSUME NEW n \in 0 .. Len(q)
        PROVE  text[n] = IF n = 0 THEN <<>> ELSE text[n - 1] \o q[n].events
    BY <1>3
  <2>2. 0 \in 0 .. Len(q) /\ \A n \in 1 .. Len(q) : n \in 0 .. Len(q) /\ n # 0
    BY <1>1
  <2>3. QED
    BY <2>1, <2>2
<1>5. TextOf(q) = text[Len(q)]
  BY DEF TextOf
<1>6. QED
  <2> HIDE DEF text
  <2>1. FollowsWithin(text, Len(q), Seq(Event), <<>>, AddText(q))
    BY <1>4 DEF AddText, FollowsWithin
  <2>2. f[Len(q)] = text[Len(q)]
    BY <1>1, <2>1, RecursionUnique
  <2>3. QED
    BY <1>5, <2>2

LEMMA TextFollow ==
  ASSUME NEW q \in Seq(Batch)
  PROVE  /\ Len(q) \in Nat
         /\ \E f \in [0 .. Len(q) -> Seq(Event)] : Follows(f, Len(q), <<>>, AddText(q))
<1>1. Len(q) \in Nat
  BY LenProperties
<1>2. AddText(q) \in [1 .. Len(q) -> [Seq(Event) -> Seq(Event)]]
  BY <1>1, BatchFields DEF AddText
<1>3. <<>> \in Seq(Event)
  BY EmptySeq
<1>4. QED
  BY <1>1, <1>2, <1>3, RecursionExists

LEMMA TextType == ASSUME NEW q \in Seq(Batch)  PROVE TextOf(q) \in Seq(Event)
<1>1. PICK f \in [0 .. Len(q) -> Seq(Event)] :
        Follows(f, Len(q), <<>>, AddText(q))
  BY TextFollow
<1>2. Len(q) \in Nat /\ TextOf(q) = f[Len(q)]
  BY <1>1, TextIs, LenProperties
<1>3. QED
  BY <1>2

LEMMA TextOfEmpty == TextOf(<<>>) = <<>>
<1>1. <<>> \in Seq(Batch) /\ Len(<<>>) = 0
  BY EmptySeq
<1>2. PICK f \in [0 .. 0 -> Seq(Event)] : Follows(f, 0, <<>>, AddText(<<>>))
  BY <1>1, TextFollow
<1>3. QED
  BY <1>1, <1>2, TextIs DEF Follows

LEMMA TextOfAppend ==
  ASSUME NEW q \in Seq(Batch), NEW b \in Batch
  PROVE  TextOf(Append(q, b)) = TextOf(q) \o b.events
<1>1. PICK f \in [0 .. Len(q) -> Seq(Event)] : Follows(f, Len(q), <<>>, AddText(q))
  BY TextFollow
<1>2. TextOf(q) = f[Len(q)] /\ TextOf(q) \in Seq(Event) /\ Len(q) \in Nat
  BY <1>1, TextIs, TextFollow
<1> DEFINE r == Append(q, b)
           g == [n \in 0 .. Len(q) + 1 |->
                   IF n = Len(q) + 1 THEN f[Len(q)] \o b.events ELSE f[n]]
<1>3. /\ r \in Seq(Batch) /\ Len(r) = Len(q) + 1
      /\ r[Len(q) + 1] = b /\ \A n \in 1 .. Len(q) : r[n] = q[n]
  BY AppendProperties
<1>4. b.events \in Seq(Event)
  BY DEF Batch
<1>5. g \in [0 .. Len(r) -> Seq(Event)]
  BY <1>2, <1>3, <1>4
<1>6. Follows(g, Len(r), <<>>, AddText(r))
  <2> HIDE DEF r
  <2>1. g[0] = <<>>
    BY <1>1, <1>2 DEF Follows
  <2>2. ASSUME NEW n \in 1 .. Len(q)  PROVE g[n] = g[n - 1] \o q[n].events
    <3>1. n \in 0 .. Len(q) + 1 /\ n - 1 \in 0 .. Len(q) + 1 /\ n # Len(q) + 1
          /\ n - 1 # Len(q) + 1
      BY <1>2
    <3>2. f[n] = f[n - 1] \o q[n].events
      BY <1>1, TextStep
    <3>3. QED
      BY <3>1, <3>2
  <2>3. g[Len(q) + 1] = g[Len(q)] \o b.events
    <3>1. Len(q) \in 0 .. Len(q) + 1 /\ Len(q) + 1 \in 0 .. Len(q) + 1
          /\ Len(q) # Len(q) + 1
      BY <1>2
    <3>2. QED
      BY <3>1
  <2>4. ASSUME NEW n \in 1 .. Len(r)  PROVE g[n] = g[n - 1] \o r[n].events
    <3>1. n \in 1 .. Len(q) \/ n = Len(q) + 1
      BY <1>2, <1>3
    <3> HIDE DEF g
    <3>2. CASE n \in 1 .. Len(q)
      BY <1>3, <2>2, <3>2
    <3>3. CASE n = Len(q) + 1
      <4>1. n - 1 = Len(q)
        BY <1>2, <3>3
      <4>2. QED
        BY <1>3, <2>3, <3>3, <4>1
    <3>4. QED
      BY <3>1, <3>2, <3>3
  <2> HIDE DEF g
  <2>5. QED
    BY <1>3, <1>5, <2>1, <2>4, TextStep
<1>7. g[Len(r)] = f[Len(q)] \o b.events
  BY <1>2, <1>3
<1> HIDE DEF g, r
<1>8. TextOf(r) = g[Len(r)]
  BY <1>3, <1>5, <1>6, TextIs
<1>9. QED
  BY <1>2, <1>7, <1>8 DEF r

LEMMA TextOfTail ==
  ASSUME NEW q \in Seq(Batch), q # <<>>
  PROVE  TextOf(q) = Head(q).events \o TextOf(Tail(q))
<1> DEFINE r == Tail(q)
<1>1. /\ r \in Seq(Batch) /\ Len(q) \in Nat /\ Len(q) = Len(r) + 1
      /\ Len(r) \in Nat /\ Head(q) = q[1] /\ Head(q) \in Batch
      /\ \A n \in 1 .. Len(r) : r[n] = q[n + 1]
  BY HeadTailProperties, LenProperties, EmptySeq
<1>2. PICK h \in [0 .. Len(r) -> Seq(Event)] : Follows(h, Len(r), <<>>, AddText(r))
  BY <1>1, TextFollow
<1> HIDE DEF r
<1>3. h[0] = <<>> /\ \A n \in 1 .. Len(r) : h[n] = h[n - 1] \o r[n].events
  BY <1>1, <1>2, TextStep
<1> DEFINE g == [n \in 0 .. Len(q) |->
                   IF n = 0 THEN <<>> ELSE Head(q).events \o h[n - 1]]
<1>4. Head(q).events \in Seq(Event)
  BY <1>1 DEF Batch
<1>5. g \in [0 .. Len(q) -> Seq(Event)]
  BY <1>1, <1>4
<1>6. ASSUME NEW n \in 1 .. Len(q)  PROVE g[n] = g[n - 1] \o q[n].events
  <2>1. CASE n = 1
    <3>1. 0 \in 0 .. Len(q) /\ 1 \in 0 .. Len(q) /\ 1 # 0 /\ 1 - 1 = 0
      BY <1>1, <2>1
    <3>2. g[1] = Head(q).events \o h[0] /\ g[0] = <<>>
      BY <3>1
    <3>3. h[0] = <<>> /\ Head(q).events = q[1].events
      BY <1>1, <1>3
    <3>4. QED
      BY <1>4, <2>1, <3>1, <3>2, <3>3, ConcatEmptySeq
  <2>2. CASE n # 1
    <3>1. n - 1 \in 1 .. Len(r) /\ n - 2 \in 0 .. Len(r) /\ (n - 1) - 1 = n - 2
          /\ (n - 1) + 1 = n
      BY <1>1, <2>2
    <3>2. h[n - 1] = h[n - 2] \o q[n].events
      BY <1>1, <1>3, <3>1
    <3>3. q[n].events \in Seq(Event) /\ h[n - 2] \in Seq(Event)
      BY <3>1, BatchFields
    <3>4. g[n] = Head(q).events \o h[n - 1] /\ g[n - 1] = Head(q).events \o h[n - 2]
      <4>1. n \in 0 .. Len(q) /\ n - 1 \in 0 .. Len(q) /\ n # 0 /\ n - 1 # 0
        BY <1>1, <2>2, <3>1
      <4>2. QED
        BY <3>1, <4>1
    <3>5. Head(q).events \o (h[n - 2] \o q[n].events)
            = (Head(q).events \o h[n - 2]) \o q[n].events
      BY <1>4, <3>3, Associative
    <3>6. QED
      BY <3>2, <3>4, <3>5
  <2>3. QED
    BY <2>1, <2>2
<1>7. g[0] = <<>> /\ g[Len(q)] = Head(q).events \o h[Len(r)]
  BY <1>1
<1> HIDE DEF g
<1>8. Follows(g, Len(q), <<>>, AddText(q))
  BY <1>5, <1>6, <1>7, TextStep
<1>9. TextOf(q) = g[Len(q)] /\ TextOf(r) = h[Len(r)]
  BY <1>1, <1>2, <1>5, <1>8, TextIs
<1>10. QED
  BY <1>7, <1>9 DEF r

-----------------------------------------------------------------------------
(* The queue.                                                              *)

QueueSteps == FormatRun \/ Flush \/ FormatThrows \/ PushBatch \/ DropBatch
              \/ PopBatch

QueueFrame ==
  /\ UNCHANGED <<write_batch, write_batch_bytes, queueVars>>
  /\ Enqueuing' => Enqueuing

LEMMA QueueStepsOnly == [Next]_vars => QueueSteps \/ QueueFrame
<1> SUFFICES ASSUME [Next]_vars, ~QueueSteps  PROVE QueueFrame
  OBVIOUS
<1> USE DEF QueueFrame, Enqueuing
<1>1. CASE UNCHANGED vars
  BY <1>1 DEF vars, workerVars
<1>2. CASE ProducerNext
  BY <1>2 DEF ProducerNext, Offer, ProducerStep, StoreSlot, Publish, Notified,
              ProducerPark, ProducerSleep, GiveUp, ProducerSpuriousWake,
              workerVars
<1>3. CASE WorkerStep
  BY <1>3 DEF WorkerStep, QueueSteps, workerRest, WorkerWake, WorkerSleep,
              Snapshot, EndDrain, Retire, CheckStop, CanEnqueueWrite, Throttle,
              ThrottleSleep
<1>4. CASE WorkerSpuriousWake \/ FormatThrows
  BY <1>4 DEF QueueSteps, WorkerSpuriousWake, workerRest
<1>5. CASE WriterStep
  BY <1>5 DEF QueueSteps, WriterStep, WriterIdle, WriterSleep, BeginWrite,
              WriteText, CountWritten, workerVars
<1>6. CASE WriterAborts
  BY <1>6 DEF WriterAborts, WriteFails, workerRest, QueueNotified, Notified
<1>7. CASE StopWorker \/ StopWriter \/ CloseFile
  BY <1>7 DEF StopWorker, StopWriter, CloseFile, workerVars, workerRest,
              Notified
<1>8. QED
  BY <1>1, <1>2, <1>3, <1>4, <1>5, <1>6, <1>7 DEF Next

LEMMA QueueTypes ==
  ASSUME IInv
  PROVE  /\ write_batch \in Seq(Event) /\ write_batch_bytes \in Nat
         /\ pending_write_batches \in Seq(Batch)
         /\ [events |-> write_batch, bytes |-> write_batch_bytes] \in Batch
         /\ Len(write_batch) \in Nat /\ Len(pending_write_batches) \in Nat
<1>1. /\ write_batch \in Seq(Event) /\ write_batch_bytes \in Nat
      /\ pending_write_batches \in Seq(Batch)
  BY DEF IInv, TypeOK
<1>2. QED
  BY <1>1, LenProperties DEF Batch

LEMMA BytesStep == ASSUME IInv, BytesInv, [Next]_vars  PROVE BytesInv'
<1> USE QueueTypes
<1>1. CASE FormatRun
  <2>1. write_batch_bytes' > 0 /\ UNCHANGED <<worker_pc, pending_write_batches>>
    BY <1>1, BytesAssumption DEF FormatRun, queueVars
  <2>2. QED
    BY <2>1 DEF BytesInv
<1>2. CASE Flush
  <2>1. /\ write_batch # <<>>
        /\ UNCHANGED <<write_batch, write_batch_bytes, pending_write_batches>>
    BY <1>2 DEF Flush, workerRest, queueVars
  <2>2. QED
    BY <2>1 DEF BytesInv
<1>3. CASE FormatThrows
  <2>1. write_batch_bytes' > 0 /\ UNCHANGED pending_write_batches
    BY <1>3, BytesAssumption DEF FormatThrows, queueVars
  <2>2. QED
    BY <2>1 DEF BytesInv
<1>4. CASE PushBatch
  <2> DEFINE b == [events |-> write_batch, bytes |-> write_batch_bytes]
  <2>1. /\ pending_write_batches' = Append(pending_write_batches, b)
        /\ write_batch' = <<>> /\ ~Enqueuing' /\ Enqueuing
    BY <1>4 DEF PushBatch, AfterEnqueueWrite, CanEnqueueWrite, Enqueuing
  <2>2. b \in Batch /\ b.bytes > 0
    BY <2>1 DEF BytesInv
  <2> HIDE DEF b
  <2>3. /\ Len(pending_write_batches') = Len(pending_write_batches) + 1
        /\ pending_write_batches'[Len(pending_write_batches) + 1] = b
        /\ \A i \in 1 .. Len(pending_write_batches) :
             pending_write_batches'[i] = pending_write_batches[i]
    BY <2>1, <2>2, AppendProperties
  <2>4. ASSUME NEW i \in 1 .. Len(pending_write_batches')
        PROVE  pending_write_batches'[i].bytes > 0
    <3>1. i \in 1 .. Len(pending_write_batches)
          \/ i = Len(pending_write_batches) + 1
      BY <2>3
    <3>2. QED
      BY <2>2, <2>3, <3>1 DEF BytesInv
  <2>5. QED
    BY <2>1, <2>4 DEF BytesInv
<1>5. CASE DropBatch
  <2>1. /\ write_batch' = <<>> /\ ~Enqueuing'
        /\ UNCHANGED pending_write_batches
    BY <1>5 DEF DropBatch, AfterEnqueueWrite, Enqueuing, queueVars
  <2>2. QED
    BY <2>1 DEF BytesInv
<1>6. CASE PopBatch
  <2>1. /\ pending_write_batches # <<>>
        /\ pending_write_batches' = Tail(pending_write_batches)
        /\ UNCHANGED <<write_batch, write_batch_bytes>>
        /\ Enqueuing' => Enqueuing
    BY <1>6 DEF PopBatch, workerRest, QueueNotified, Enqueuing
  <2>2. /\ Len(pending_write_batches') = Len(pending_write_batches) - 1
        /\ \A i \in 1 .. Len(pending_write_batches') :
             pending_write_batches'[i] = pending_write_batches[i + 1]
    BY <2>1, HeadTailProperties
  <2>3. \A i \in 1 .. Len(pending_write_batches') :
          i + 1 \in 1 .. Len(pending_write_batches)
    BY <2>2
  <2>4. QED
    BY <2>1, <2>2, <2>3 DEF BytesInv
<1>7. CASE QueueFrame
  BY <1>7 DEF QueueFrame, queueVars, BytesInv
<1>8. QED
  BY <1>1, <1>2, <1>3, <1>4, <1>5, <1>6, <1>7, QueueStepsOnly DEF QueueSteps

\* An empty byte counter is an empty queue.
LEMMA NoBytesNoBatch ==
  ASSUME IInv, BytesInv, BytesOf(pending_write_batches) = 0
  PROVE  pending_write_batches = <<>>
<1> SUFFICES ASSUME pending_write_batches # <<>>  PROVE FALSE
  OBVIOUS
<1> DEFINE q == pending_write_batches
<1>1. q \in Seq(Batch)
  BY QueueTypes
<1>2. 1 \in 1 .. Len(q) /\ Head(q) = q[1] /\ Tail(q) \in Seq(Batch)
  BY <1>1, EmptySeq, HeadTailProperties
<1>3. Head(q).bytes \in Nat /\ Head(q).bytes > 0
  BY <1>1, <1>2, BatchFields DEF BytesInv
<1>4. BytesOf(Tail(q)) \in Nat
  BY <1>2, BytesType
<1>5. BytesOf(q) = Head(q).bytes + BytesOf(Tail(q))
  BY <1>1, BytesOfTail
<1>6. QED
  BY <1>3, <1>4, <1>5

LEMMA BoundStep ==
  ASSUME IInv, BytesInv, QueueBounded, [Next]_vars
  PROVE  QueueBounded'
<1> DEFINE q == pending_write_batches
<1> USE QueueTypes
<1>1. /\ pending_write_bytes = BytesOf(q)
      /\ pending_write_event_count = Len(TextOf(q))
      /\ pending_write_bytes > MaxPendingBytes => Len(q) = 1
      /\ BytesOf(q) \in Nat /\ TextOf(q) \in Seq(Event) /\ Len(TextOf(q)) \in Nat
  <2>1. BytesOf(q) \in Nat /\ TextOf(q) \in Seq(Event)
    BY BytesType, TextType
  <2>2. QED
    BY <2>1, LenProperties DEF QueueBounded
<1>2. CASE PushBatch
  <2> DEFINE b == [events |-> write_batch, bytes |-> write_batch_bytes]
  <2>1. /\ q' = Append(q, b) /\ b \in Batch
        /\ pending_write_bytes' = pending_write_bytes + write_batch_bytes
        /\ pending_write_event_count'
             = pending_write_event_count + Len(write_batch)
        /\ Fits
    BY <1>2 DEF PushBatch
  <2>2. BytesOf(q') = BytesOf(q) + write_batch_bytes
    BY <2>1, BytesOfAppend
  <2>3. TextOf(q') = TextOf(q) \o write_batch
    BY <2>1, TextOfAppend
  <2>4. Len(TextOf(q')) = Len(TextOf(q)) + Len(write_batch)
    BY <1>1, <2>3, ConcatProperties
  <2>5. ASSUME pending_write_bytes' > MaxPendingBytes  PROVE Len(q') = 1
    <3>1. pending_write_bytes = 0
      BY <1>1, <2>1, <2>5, BytesAssumption DEF Fits
    <3>2. q = <<>>
      BY <1>1, <3>1, NoBytesNoBatch
    <3>3. QED
      BY <2>1, <3>2, AppendProperties, EmptySeq
  <2>6. QED
    BY <1>1, <2>1, <2>2, <2>4, <2>5 DEF QueueBounded
<1>3. CASE PopBatch
  <2>1. /\ q # <<>> /\ q' = Tail(q)
        /\ pending_write_bytes' = pending_write_bytes - Head(q).bytes
        /\ pending_write_event_count'
             = pending_write_event_count - Len(Head(q).events)
    BY <1>3 DEF PopBatch
  <2>2. /\ Tail(q) \in Seq(Batch) /\ Len(Tail(q)) = Len(q) - 1
        /\ Head(q).bytes \in Nat /\ Head(q).events \in Seq(Event)
        /\ Len(Head(q).events) \in Nat
    <3>1. Tail(q) \in Seq(Batch) /\ Len(Tail(q)) = Len(q) - 1 /\ Head(q) \in Batch
      BY <2>1, HeadTailProperties
    <3>2. QED
      BY <3>1, LenProperties DEF Batch
  <2>3. BytesOf(Tail(q)) \in Nat /\ TextOf(Tail(q)) \in Seq(Event)
        /\ Len(TextOf(Tail(q))) \in Nat
    <3>1. BytesOf(Tail(q)) \in Nat /\ TextOf(Tail(q)) \in Seq(Event)
      BY <2>2, BytesType, TextType
    <3>2. QED
      BY <3>1, LenProperties
  <2>4. BytesOf(q) = Head(q).bytes + BytesOf(Tail(q))
    BY <2>1, BytesOfTail
  <2>5. TextOf(q) = Head(q).events \o TextOf(Tail(q))
    BY <2>1, TextOfTail
  <2>6. Len(TextOf(q)) = Len(Head(q).events) + Len(TextOf(Tail(q)))
    BY <2>2, <2>3, <2>5, ConcatProperties
  <2>7. pending_write_bytes' <= MaxPendingBytes
    <3>1. CASE pending_write_bytes <= MaxPendingBytes
      BY <1>1, <2>1, <2>2, <3>1, BytesAssumption
    <3>2. CASE pending_write_bytes > MaxPendingBytes
      <4>1. Len(Tail(q)) = 0
        BY <1>1, <2>2, <3>2
      <4>2. Tail(q) = <<>>
        BY <2>2, <4>1, EmptySeq
      <4>3. pending_write_bytes' = 0
        <5>1. BytesOf(Tail(q)) = 0
          BY <4>2, BytesOfEmpty
        <5>2. QED
          BY <1>1, <2>1, <2>2, <2>4, <5>1
      <4>4. QED
        BY <4>3, BytesAssumption
    <3>3. QED
      BY <1>1, <3>1, <3>2, BytesAssumption
  <2>8. pending_write_bytes' \in Int
    BY <1>1, <2>1, <2>2
  <2>9. QED
    BY <1>1, <2>1, <2>2, <2>3, <2>4, <2>6, <2>7, <2>8, BytesAssumption
       DEF QueueBounded
<1>4. CASE UNCHANGED queueVars
  BY <1>4 DEF queueVars, QueueBounded
<1>5. PushBatch \/ PopBatch \/ UNCHANGED queueVars
  BY QueueStepsOnly DEF QueueSteps, QueueFrame, FormatRun, Flush, FormatThrows,
     DropBatch
<1>6. QED
  BY <1>2, <1>3, <1>4, <1>5

-----------------------------------------------------------------------------
(* Stopping.                                                               *)

\* A thread that has left its loop stays out of it.
ExitIsFinal ==
  /\ worker_pc = "exited" => worker_pc' = "exited"
  /\ writer_pc = "exited" => writer_pc' = "exited"

LEMMA ExitStep == [Next]_vars => ExitIsFinal
<1> SUFFICES ASSUME [Next]_vars  PROVE ExitIsFinal
  OBVIOUS
<1> USE DEF ExitIsFinal
<1>1. CASE UNCHANGED vars
  BY <1>1 DEF vars, workerVars, writerVars
<1>2. CASE ProducerNext
  BY <1>2 DEF ProducerNext, Offer, ProducerStep, StoreSlot, Publish, Notified,
     ProducerPark, ProducerSleep, GiveUp, ProducerSpuriousWake, workerVars,
     writerVars
<1>3. CASE WorkerStep
  BY <1>3 DEF WorkerStep, WorkerWake, WorkerSleep, Snapshot, FormatRun, Flush,
     EndDrain, Retire, CheckStop, CanEnqueueWrite, PushBatch, DropBatch,
     Throttle, ThrottleSleep, Notified, writerVars
<1>4. CASE WorkerSpuriousWake \/ FormatThrows
  BY <1>4 DEF WorkerSpuriousWake, FormatThrows, writerVars
<1>5. CASE WriterStep
  BY <1>5 DEF WriterStep, PopBatch, WriterIdle, WriterSleep, BeginWrite,
     WriteText, CountWritten, QueueNotified, workerVars
<1>6. CASE WriterAborts
  BY <1>6 DEF WriterAborts, WriteFails, QueueNotified, Notified
<1>7. CASE StopWorker \/ StopWriter \/ CloseFile
  BY <1>7 DEF StopWorker, StopWriter, CloseFile, Notified, workerVars, writerVars
<1>8. QED
  BY <1>1, <1>2, <1>3, <1>4, <1>5, <1>6, <1>7 DEF Next

\* Once the owner has begun to stop the recorder no producer enters it.
IdleStays ==
  owner_pc # "open" /\ (\A p \in Producers : producer_pc[p] = "idle")
    => \A p \in Producers : producer_pc'[p] = "idle"

LEMMA IdleStep == ASSUME IInv, [Next]_vars  PROVE IdleStays
<1> USE DEF IdleStays
<1>1. producer_pc \in [Producers -> {"idle", "enqueue", "publish", "parking",
                                     "asleep", "woken"}]
  BY DEF IInv, TypeOK
<1>2. CASE ProducerNext
  BY <1>2 DEF ProducerNext, Offer, ProducerStep, StoreSlot, Publish, CanLock,
     ProducerPark, ProducerSleep, GiveUp, ProducerSpuriousWake
<1>3. CASE Retire \/ FormatThrows \/ WriterAborts
  BY <1>1, <1>3 DEF Retire, FormatThrows, WriterAborts, WriteFails,
     AllProducersNotified, Notified
<1>4. CASE UNCHANGED producer_pc
  BY <1>4
<1>5. ProducerNext \/ Retire \/ FormatThrows \/ WriterAborts
        \/ UNCHANGED producer_pc
  BY DEF Next, vars, WorkerStep, WorkerWake, WorkerSleep, WorkerSpuriousWake,
     Snapshot, FormatRun, Flush, EndDrain, CheckStop, PushBatch, DropBatch,
     Throttle, ThrottleSleep, WriterStep, PopBatch, WriterIdle, WriterSleep,
     BeginWrite, WriteText, CountWritten, StopWorker, StopWriter, CloseFile,
     producerVars
<1>6. QED
  BY <1>2, <1>3, <1>4, <1>5

LEMMA StopStep == ASSUME IInv, StopInv, [Next]_vars  PROVE StopInv'
<1> USE DEF StopInv
<1>1. ExitIsFinal /\ IdleStays
  BY ExitStep, IdleStep
<1> USE DEF ExitIsFinal, IdleStays
<1>2. CASE StopWorker
  BY <1>1, <1>2 DEF StopWorker, producerVars, faultVars
<1>3. CASE StopWriter
  BY <1>1, <1>3 DEF StopWriter, producerVars, faultVars, workerVars
<1>4. CASE CloseFile
  BY <1>1, <1>4 DEF CloseFile, producerVars, faultVars, workerVars, writerVars
<1>5. CASE FormatThrows \/ WriterAborts
  BY <1>1, <1>5 DEF FormatThrows, WriterAborts, WriteFails
<1>6. CASE UNCHANGED <<stopVars, faulty>>
  BY <1>1, <1>6 DEF stopVars
<1>7. StopWorker \/ StopWriter \/ CloseFile \/ FormatThrows \/ WriterAborts
        \/ UNCHANGED <<stopVars, faulty>>
  BY DEF Next, vars, ProducerNext, Offer, ProducerStep, StoreSlot, Publish,
     ProducerPark, ProducerSleep, GiveUp, ProducerSpuriousWake, WorkerStep,
     WorkerWake, WorkerSleep, WorkerSpuriousWake, Snapshot, FormatRun, Flush,
     EndDrain, Retire, CheckStop, PushBatch, DropBatch, Throttle,
     ThrottleSleep, WriterStep, PopBatch, WriterIdle, WriterSleep, BeginWrite,
     WriteText, CountWritten, faultVars
<1>8. QED
  BY <1>2, <1>3, <1>4, <1>5, <1>6, <1>7

LEMMA WorkerInvStep ==
  ASSUME IInv, StopInv, WorkerInv, [Next]_vars
  PROVE  WorkerInv'
<1> USE DEF WorkerInv, Enqueuing
<1>1. ASSUME NEW p \in Producers, Publish(p)  PROVE WorkerInv'
  <2>1. /\ producer_pc[p] = "publish"
        /\ UNCHANGED <<write_batch, faulty, writer_pc, owner_pc>>
        /\ \/ worker_pc' = worker_pc
           \/ worker_pc = "asleep" /\ worker_pc' = "woken"
    BY <1>1 DEF Publish, Notified, faultVars, writerVars, stopVars
  <2>2. worker_pc = "exited" => faulty
    BY <2>1 DEF StopInv
  <2>3. QED
    BY <2>1, <2>2
<1>2. ASSUME ProducerNext, \A p \in Producers : ~Publish(p)  PROVE WorkerInv'
  <2>1. UNCHANGED <<write_batch, faulty, writer_pc, owner_pc, worker_pc,
                    local_read, write_index>>
    BY <1>2 DEF ProducerNext, Offer, ProducerStep, StoreSlot, ProducerPark,
       ProducerSleep, GiveUp, ProducerSpuriousWake, workerVars, writerVars,
       stopVars, faultVars, ringVars
  <2>2. Unformatted' = Unformatted
    BY <2>1 DEF Unformatted, RingDistance
  <2>3. QED
    BY <2>1, <2>2
<1>3. CASE CheckStop
  <2>1. /\ UNCHANGED <<write_batch, faulty, writer_pc, owner_pc, local_read,
                       write_index>>
        /\ worker_pc = "check_stop"
        /\ worker_pc' = IF WorkerMayExit THEN "exited" ELSE "wait"
    BY <1>3 DEF CheckStop, workerRest, writerVars, stopVars, faultVars, ringVars
  <2>2. WorkerMayExit /\ ~faulty => owner_pc # "open" /\ Unformatted' = 0
    BY <2>1, IndexTypes DEF WorkerMayExit, StopInv, Unformatted, RingDistance,
       Slots
  <2>3. QED
    BY <2>1, <2>2
<1>4. CASE Flush \/ EndDrain \/ FormatRun
  <2>1. /\ UNCHANGED <<faulty, writer_pc, owner_pc>> /\ worker_pc = "format"
        /\ worker_pc' \in {"format", "enqueue_write", "retire"}
    BY <1>4 DEF Flush, EndDrain, FormatRun, writerVars, stopVars, faultVars
  <2>2. /\ worker_pc' = "enqueue_write" => write_batch' # <<>>
        /\ worker_pc' = "retire" => write_batch' = <<>>
    BY <1>4 DEF Flush, EndDrain, FormatRun, workerRest
  <2>3. QED
    BY <2>1, <2>2
<1>5. CASE FormatThrows
  BY <1>5 DEF FormatThrows, writerVars
<1>6. CASE PushBatch \/ DropBatch
  <2>1. /\ UNCHANGED <<faulty, owner_pc>> /\ Enqueuing
        /\ writer_pc' = "exited" <=> writer_pc = "exited"
        /\ write_batch' = <<>>
        /\ worker_pc' = IF write_batch = <<>> THEN "exited" ELSE "format"
    BY <1>6 DEF PushBatch, DropBatch, CanEnqueueWrite, Notified, writerVars,
       stopVars, faultVars, AfterEnqueueWrite
  <2>2. QED
    BY <2>1
<1>7. ASSUME WorkerWake \/ WorkerSleep \/ WorkerSpuriousWake \/ Snapshot \/ Retire
             \/ Throttle \/ ThrottleSleep
      PROVE  WorkerInv'
  <2>1. UNCHANGED <<write_batch, faulty, writer_pc, owner_pc>>
    BY <1>7 DEF WorkerWake, WorkerSleep, WorkerSpuriousWake, Snapshot, Retire,
       Throttle, ThrottleSleep, workerRest, writerVars, stopVars, faultVars
  <2>2. /\ worker_pc' # "exited" /\ worker_pc # "exited" /\ worker_pc # "format"
        /\ Enqueuing' <=> Enqueuing
        /\ worker_pc' = "format" => ~Enqueuing
    BY <1>7 DEF WorkerWake, WorkerSleep, WorkerSpuriousWake, Snapshot, Retire,
       Throttle, ThrottleSleep, CanEnqueueWrite
  <2>3. QED
    BY <2>1, <2>2
<1>8. CASE WriterAborts
  BY <1>8 DEF WriterAborts, WriteFails, Notified, QueueNotified, workerRest
<1>9. ASSUME WriterStep \/ StopWorker \/ StopWriter \/ CloseFile \/ UNCHANGED vars
      PROVE  WorkerInv'
  <2>1. /\ UNCHANGED <<write_batch, faulty, local_read, write_index>>
        /\ owner_pc # "open" => owner_pc' # "open"
        /\ writer_pc = "exited" => writer_pc' = "exited"
    BY <1>9 DEF WriterStep, PopBatch, WriterIdle, WriterSleep, BeginWrite,
       WriteText, CountWritten, StopWorker, StopWriter, CloseFile, vars,
       workerVars, workerRest, writerVars, stopVars, faultVars, ringVars,
       Notified
  <2>2. \/ worker_pc' = worker_pc
        \/ worker_pc = "asleep" /\ worker_pc' = "woken"
        \/ worker_pc = "throttled" /\ worker_pc' = "unthrottled"
    BY <1>9 DEF WriterStep, PopBatch, WriterIdle, WriterSleep, BeginWrite,
       WriteText, CountWritten, StopWorker, StopWriter, CloseFile, vars,
       workerVars, Notified, QueueNotified
  <2>3. Unformatted' = Unformatted
    BY <2>1 DEF Unformatted, RingDistance
  <2>4. QED
    BY <2>1, <2>2, <2>3
<1>10. QED
  BY <1>1, <1>2, <1>3, <1>4, <1>5, <1>6, <1>7, <1>8, <1>9 DEF Next, WorkerStep

LEMMA WriterInvStep ==
  ASSUME IInv, StopInv, WorkerInv, WriterInv, [Next]_vars
  PROVE  WriterInv'
<1> USE DEF WriterInv
<1>1. CASE WriterIdle
  BY <1>1 DEF WriterIdle, queueVars, stopVars
<1>2. CASE PushBatch
  BY <1>2 DEF PushBatch, Notified, faultVars, stopVars
<1>3. CASE PopBatch \/ FormatThrows \/ WriterAborts
  BY <1>3 DEF PopBatch, FormatThrows, WriterAborts, WriteFails
<1>4. CASE StopWriter
  BY <1>4 DEF StopWriter, Notified, queueVars, faultVars
<1>5. CASE WriterSleep \/ BeginWrite \/ WriteText \/ CountWritten
  BY <1>5 DEF WriterSleep, BeginWrite, WriteText, CountWritten
<1>6. CASE UNCHANGED <<writer_pc, faulty, writer_stop_requested,
                       pending_write_batches>>
  BY <1>6
<1>7. ASSUME ~(WriterStep \/ PushBatch \/ FormatThrows \/ WriterAborts \/ StopWriter)
      PROVE  UNCHANGED <<writer_pc, faulty, writer_stop_requested,
                         pending_write_batches>>
  BY <1>7 DEF Next, vars, ProducerNext, Offer, ProducerStep, StoreSlot, Publish,
     ProducerPark, ProducerSleep, GiveUp, ProducerSpuriousWake, WorkerStep,
     WorkerWake, WorkerSleep, WorkerSpuriousWake, Snapshot, FormatRun, Flush,
     EndDrain, Retire, CheckStop, DropBatch, Throttle, ThrottleSleep,
     StopWorker, CloseFile, writerVars, queueVars, stopVars, faultVars
<1>8. QED
  BY <1>1, <1>2, <1>3, <1>4, <1>5, <1>6, <1>7 DEF WriterStep

-----------------------------------------------------------------------------
(* The events on their way.                                                *)

\* The events not yet formatted are the youngest of the log.
Rest == RunOf(Unformatted)

RestIsLog ==
  /\ Unformatted \in Nat /\ Unformatted <= Len(log)
  /\ log \in Seq(Event) /\ Rest \in Seq(Event) /\ Len(Rest) = Unformatted
  /\ \A k \in 1 .. Unformatted :
       /\ Rest[k] = log[Len(log) - Unformatted + k]
       /\ Rest[k] = ring[(local_read + k - 1) % RingCapacity]

LEMMA RestInLog == IInv => RestIsLog
<1> SUFFICES ASSUME IInv  PROVE RestIsLog
  OBVIOUS
<1> USE IndexTypes
<1> DEFINE d == RingDistance(read_index, local_read)
<1>1. /\ log \in Seq(Event) /\ Len(log) \in Nat
      /\ PendingEventCount = d + Unformatted
      /\ PendingEventCount <= Len(log)
  BY LenProperties DEF IInv, TypeOK, CursorInv, RingHoldsUnread
<1>2. Unformatted \in Nat /\ Unformatted <= Len(log)
  BY <1>1
<1>3. local_read = (read_index + d) % RingCapacity
  BY DistanceEndsAt
<1>4. ASSUME NEW k \in 1 .. Unformatted
      PROVE  /\ ring[(local_read + k - 1) % RingCapacity]
                  = log[Len(log) - Unformatted + k]
             /\ ring[(local_read + k - 1) % RingCapacity] \in Event
  <2>1. /\ d \in 0 .. PendingEventCount
        /\ k - 1 \in 0 .. PendingEventCount - d
        /\ d + k \in 1 .. PendingEventCount
    BY <1>1
  <2>2. (((read_index + d) % RingCapacity) + (k - 1)) % RingCapacity
          = (read_index + (d + (k - 1))) % RingCapacity
    BY <2>1, DistanceWalks DEF PendingEventCount
  <2>3. /\ local_read + k - 1 = local_read + (k - 1)
        /\ read_index + (d + (k - 1)) = read_index + (d + k) - 1
    BY DEF Slots
  <2>4. /\ ring[(read_index + (d + k) - 1) % RingCapacity]
             = log[Len(log) - PendingEventCount + (d + k)]
        /\ ring[(read_index + (d + k) - 1) % RingCapacity] \in Event
    BY <2>1, UnreadSlots
  <2>5. Len(log) - PendingEventCount + (d + k) = Len(log) - Unformatted + k
    BY <1>1
  <2>6. QED
    BY <1>3, <2>2, <2>3, <2>4, <2>5
<1>5. Rest \in [1 .. Unformatted -> Event]
  BY <1>4 DEF Rest, RunOf
<1>6. Rest \in Seq(Event) /\ Len(Rest) = Unformatted
  <2>1. Rest \in Seq(Event)
    BY <1>2, <1>5, SeqDef
  <2>2. DOMAIN Rest = 1 .. Len(Rest) /\ Len(Rest) \in Nat
    BY <2>1, LenProperties
  <2>3. QED
    BY <1>2, <1>5, <2>2
<1>7. ASSUME NEW k \in 1 .. Unformatted
      PROVE  Rest[k] = ring[(local_read + k - 1) % RingCapacity]
  BY DEF Rest, RunOf
<1>8. QED
  BY <1>1, <1>2, <1>4, <1>6, <1>7 DEF RestIsLog

LEMMA RestInLogNext == IInv' => RestIsLog'
BY RestInLog, PTL

LEMMA CatLaws ==
  ASSUME NEW s \in Seq(Event), NEW t \in Seq(Event)
  PROVE  /\ Cat(s, t) \in Seq(Event)
         /\ Cat(s, <<>>) = s /\ Cat(<<>>, s) = s
         /\ \A u \in Seq(Event) : Cat(Cat(s, t), u) = Cat(s, Cat(t, u))
         /\ \A e \in Event : Cat(s, Append(t, e)) = Append(Cat(s, t), e)
<1>1. s \o t \in Seq(Event) /\ s \o <<>> = s /\ <<>> \o s = s
  BY ConcatProperties, ConcatEmptySeq
<1>2. ASSUME NEW u \in Seq(Event)  PROVE (s \o t) \o u = s \o (t \o u)
  BY Associative
<1>3. ASSUME NEW e \in Event  PROVE s \o Append(t, e) = Append(s \o t, e)
  <2>1. <<e>> \in Seq(Event)
    OBVIOUS
  <2>2. Append(t, e) = t \o <<e>> /\ Append(s \o t, e) = (s \o t) \o <<e>>
    BY <1>1, AppendIsConcat
  <2>3. QED
    BY <2>1, <2>2, Associative
<1>4. QED
  BY <1>1, <1>2, <1>3 DEF Cat

\* An event is added at the end of it, or a run is taken from its beginning.
RestMoves ==
  /\ FormatRun => /\ log' = log
                  /\ \E run \in Seq(Event) :
                       write_batch' = Cat(write_batch, run) /\ Rest = Cat(run, Rest')
  /\ log' = log /\ ~FormatRun => Rest' = Rest
  /\ log' # log => \E e \in Event :
                     log' = Append(log, e) /\ Rest' = Append(Rest, e)

\* Two texts of the same length that are both the youngest events are equal.
LEMMA SameRest ==
  ASSUME IInv, IInv', log' = log, Unformatted' = Unformatted
  PROVE  Rest' = Rest
<1>1. RestIsLog /\ RestIsLog'
  BY RestInLog, RestInLogNext
<1>2. /\ Rest \in Seq(Event) /\ Rest' \in Seq(Event)
      /\ Len(Rest) = Len(Rest') /\ \A k \in 1 .. Len(Rest) : Rest[k] = Rest'[k]
  BY <1>1 DEF RestIsLog
<1> HIDE DEF Rest
<1>3. QED
  BY <1>2, SeqEqual

LEMMA RestStep == ASSUME IInv, IInv', [Next]_vars  PROVE RestMoves
<1>1. RestIsLog /\ RestIsLog'
  BY RestInLog, RestInLogNext
<1>2. ASSUME NEW p \in Producers, Publish(p)  PROVE RestMoves
  <2>1. event[p] \in Event /\ log' = Append(log, event[p])
    BY <1>2 DEF Publish, IInv, PublishInv
  <2>2. Unformatted' = Unformatted + 1
    BY <1>2, PublishDistances
  <2> DEFINE longer == Append(Rest, event[p])
  <2>3. /\ longer \in Seq(Event) /\ Len(longer) = Unformatted + 1
        /\ longer[Unformatted + 1] = event[p]
        /\ \A k \in 1 .. Unformatted : longer[k] = Rest[k]
    BY <1>1, <2>1, AppendProperties DEF RestIsLog
  <2>4. /\ Len(log') = Len(log) + 1 /\ log'[Len(log) + 1] = event[p]
        /\ \A k \in 1 .. Len(log) : log'[k] = log[k]
        /\ Len(log) \in Nat
    BY <1>1, <2>1, AppendProperties, LenProperties DEF RestIsLog
  <2>5. ASSUME NEW k \in 1 .. Unformatted + 1  PROVE Rest'[k] = longer[k]
    <3>1. /\ Unformatted \in Nat /\ Unformatted <= Len(log)
          /\ Rest'[k] = log'[Len(log') - Unformatted' + k]
      BY <1>1, <2>2 DEF RestIsLog
    <3>2. Len(log') - Unformatted' + k = Len(log) - Unformatted + k
      BY <2>2, <2>4, <3>1
    <3>3. CASE k \in 1 .. Unformatted
      <4>1. Len(log) - Unformatted + k \in 1 .. Len(log)
        BY <2>4, <3>1, <3>3
      <4>2. Rest[k] = log[Len(log) - Unformatted + k]
        BY <1>1, <3>3 DEF RestIsLog
      <4>3. QED
        BY <2>3, <2>4, <3>1, <3>2, <3>3, <4>1, <4>2
    <3>4. CASE k = Unformatted + 1
      <4>1. Len(log) - Unformatted + k = Len(log) + 1
        BY <2>4, <3>1, <3>4
      <4>2. QED
        BY <2>3, <2>4, <3>1, <3>2, <3>4, <4>1
    <3>5. k \in 1 .. Unformatted \/ k = Unformatted + 1
      BY <3>1
    <3>6. QED
      BY <3>3, <3>4, <3>5
  <2>6. Rest' \in Seq(Event) /\ Len(Rest') = Unformatted + 1
    BY <1>1, <2>2 DEF RestIsLog
  <2> HIDE DEF longer
  <2>7. Rest' = longer
    BY <2>3, <2>5, <2>6, SeqEqual
  <2>8. log' # log
    BY <2>4
  <2>9. ~FormatRun
    BY <2>8 DEF FormatRun, ringVars
  <2>10. QED
    BY <2>1, <2>7, <2>8, <2>9 DEF RestMoves, longer
<1>3. CASE FormatRun
  <2>1. PICK n \in 1 .. RingDistance(local_read, local_write) :
          write_batch' = write_batch \o RunOf(n) /\ local_read' = AfterRun(n)
    BY <1>3 DEF FormatRun
  <2>2. worker_pc = "format" /\ UNCHANGED <<write_index, log>>
    BY <1>3 DEF FormatRun, ringVars
  <2>3. /\ RunOf(n) \in Seq(Event) /\ Len(RunOf(n)) = n
        /\ Unformatted' = Unformatted - n
    BY <2>1, <2>2, RunIsPublished DEF Unformatted, RingDistance
  <2>4. Len(log) \in Nat /\ n \in Nat /\ Unformatted \in Nat /\ n <= Unformatted
        /\ Rest \in Seq(Event) /\ Rest' \in Seq(Event)
        /\ Len(Rest) = Unformatted /\ Len(Rest') = Unformatted - n
    BY <1>1, <2>3, LenProperties DEF RestIsLog
  <2> DEFINE whole == RunOf(n) \o Rest'
  <2>5. /\ whole \in Seq(Event) /\ Len(whole) = Unformatted
        /\ \A k \in 1 .. Unformatted :
             whole[k] = IF k <= n THEN RunOf(n)[k] ELSE Rest'[k - n]
    <3>1. Len(RunOf(n)) + Len(Rest') = Unformatted
      BY <2>3, <2>4
    <3>2. /\ whole \in Seq(Event) /\ Len(whole) = Unformatted
          /\ \A k \in 1 .. Len(RunOf(n)) + Len(Rest') :
               whole[k] = IF k <= Len(RunOf(n)) THEN RunOf(n)[k]
                          ELSE Rest'[k - Len(RunOf(n))]
      BY <2>3, <2>4, <3>1, ConcatProperties
    <3> HIDE DEF whole
    <3>3. QED
      BY <2>3, <3>1, <3>2
  <2>6. ASSUME NEW k \in 1 .. Unformatted  PROVE whole[k] = Rest[k]
    <3>1. CASE k <= n
      <4>1. k \in 1 .. n
        BY <2>4, <3>1
      <4>2. RunOf(n)[k] = ring[(local_read + k - 1) % RingCapacity]
        BY <4>1 DEF RunOf
      <4>3. QED
        BY <1>1, <2>5, <3>1, <4>2 DEF RestIsLog
    <3>2. CASE ~(k <= n)
      <4>1. k - n \in 1 .. Unformatted'
        BY <2>3, <2>4, <3>2
      <4>2. Rest'[k - n] = log'[Len(log') - Unformatted' + (k - n)]
        BY <1>1, <4>1 DEF RestIsLog
      <4>3. Len(log') - Unformatted' + (k - n) = Len(log) - Unformatted + k
        BY <2>2, <2>3, <2>4
      <4>4. Rest[k] = log[Len(log) - Unformatted + k]
        BY <1>1 DEF RestIsLog
      <4>5. QED
        BY <2>2, <2>5, <3>2, <4>2, <4>3, <4>4
    <3>3. QED
      BY <3>1, <3>2
  <2> HIDE DEF whole
  <2>7. whole = Rest
    BY <2>4, <2>5, <2>6, SeqEqual
  <2>8. QED
    BY <1>3, <2>1, <2>2, <2>3, <2>7 DEF RestMoves, whole, Cat
<1>4. CASE Snapshot
  <2>1. log' = log /\ local_read' = local_read /\ write_index' = write_index
    BY <1>4 DEF Snapshot, ringVars, IInv, CursorInv, Resting
  <2>2. QED
    BY <1>3, <2>1, SameRest DEF RestMoves, Unformatted, RingDistance
<1>5. CASE UNCHANGED <<log, local_read, write_index>>
  BY <1>3, <1>5, SameRest DEF RestMoves, Unformatted, RingDistance
<1>6. (\E p \in Producers : Publish(p)) \/ FormatRun \/ Snapshot
        \/ UNCHANGED <<log, local_read, write_index>>
  BY CountFrame DEF CountSteps, countVars, FormatThrows, PushBatch, DropBatch,
     PopBatch, CountWritten, WriterAborts, WriteFails, workerVars, workerRest,
     ringVars, Next, vars, ProducerNext, Offer, ProducerStep, StoreSlot,
     ProducerPark, ProducerSleep, GiveUp, ProducerSpuriousWake, WorkerStep,
     WorkerWake, WorkerSleep, WorkerSpuriousWake, Flush, EndDrain, Retire,
     CheckStop, Throttle, ThrottleSleep, WriterStep, WriterIdle, WriterSleep,
     BeginWrite, WriteText, StopWorker, StopWriter, CloseFile
<1>7. QED
  BY <1>2, <1>3, <1>4, <1>5, <1>6

LEMMA FlightTypes ==
  ASSUME IInv
  PROVE  /\ file \in Seq(Event) /\ current \in Seq(Event)
         /\ Unwritten \in Seq(Event) /\ write_batch \in Seq(Event)
         /\ TextOf(pending_write_batches) \in Seq(Event)
         /\ Cat(file, Unwritten) \in Seq(Event) /\ Delivered \in Seq(Event)
         /\ log \in Seq(Event) /\ Rest \in Seq(Event)
         /\ <<>> \in Seq(Event)
<1>1. /\ file \in Seq(Event) /\ current \in Seq(Event)
      /\ write_batch \in Seq(Event) /\ log \in Seq(Event)
      /\ pending_write_batches \in Seq(Batch)
  BY DEF IInv, TypeOK
<1>2. <<>> \in Seq(Event) /\ TextOf(pending_write_batches) \in Seq(Event)
  BY <1>1, EmptySeq, TextType
<1>3. Unwritten \in Seq(Event)
  BY <1>1, <1>2 DEF Unwritten
<1>4. Cat(file, Unwritten) \in Seq(Event)
  BY <1>1, <1>3, CatLaws
<1>5. Delivered \in Seq(Event)
  BY <1>2, <1>4, CatLaws DEF Delivered
<1>6. Rest \in Seq(Event)
  BY RestInLog DEF RestIsLog
<1>7. QED
  BY <1>1, <1>2, <1>3, <1>4, <1>5, <1>6

\* Only a batch put into the queue adds to what has reached the writer, and only a
\* failed write takes from it.
DeliveredMoves ==
  \/ /\ Delivered' = Delivered
     /\ \/ FormatRun \/ FormatThrows \/ DropBatch
        \/ write_batch' = write_batch /\ ~FormatRun
  \/ /\ PushBatch /\ write_batch' = <<>>
     /\ Delivered' = Cat(Delivered, write_batch)
  \/ WriterAborts

LEMMA DeliveredStep == ASSUME IInv, [Next]_vars  PROVE DeliveredMoves
<1> USE FlightTypes
<1>1. CASE PushBatch
  <2> DEFINE b == [events |-> write_batch, bytes |-> write_batch_bytes]
  <2>1. /\ pending_write_batches' = Append(pending_write_batches, b)
        /\ write_batch' = <<>> /\ UNCHANGED <<file, Unwritten>>
    BY <1>1 DEF PushBatch, Unwritten, Notified
  <2>2. b \in Batch /\ b.events = write_batch /\ pending_write_batches \in Seq(Batch)
    BY QueueTypes
  <2> HIDE DEF b
  <2>3. TextOf(pending_write_batches')
          = Cat(TextOf(pending_write_batches), write_batch)
    BY <2>1, <2>2, TextOfAppend DEF Cat
  <2>4. Cat(Cat(file, Unwritten), Cat(TextOf(pending_write_batches), write_batch))
          = Cat(Delivered, write_batch)
    BY CatLaws DEF Delivered
  <2>5. QED
    BY <1>1, <2>1, <2>3, <2>4 DEF DeliveredMoves, Delivered
<1>2. CASE PopBatch
  <2>1. /\ pending_write_batches # <<>> /\ writer_pc # "written"
        /\ pending_write_batches' = Tail(pending_write_batches)
        /\ writer_pc' = "popped"
        /\ current' = Head(pending_write_batches).events
        /\ UNCHANGED <<file, write_batch>>
    BY <1>2 DEF PopBatch, workerRest
  <2>2. current = <<>>
    BY <1>2 DEF PopBatch, IInv, WriterHandsInv
  <2>3. Unwritten = <<>> /\ Unwritten' = Head(pending_write_batches).events
    BY <2>1, <2>2 DEF Unwritten
  <2>4. /\ pending_write_batches \in Seq(Batch)
        /\ Tail(pending_write_batches) \in Seq(Batch)
        /\ Head(pending_write_batches).events \in Seq(Event)
    <3>1. /\ pending_write_batches \in Seq(Batch)
          /\ Tail(pending_write_batches) \in Seq(Batch)
          /\ Head(pending_write_batches) \in Batch
      BY <2>1, QueueTypes, HeadTailProperties
    <3>2. QED
      BY <3>1 DEF Batch
  <2>5. TextOf(pending_write_batches) = Cat(Unwritten', TextOf(pending_write_batches'))
    BY <2>1, <2>3, <2>4, TextOfTail DEF Cat
  <2>6. TextOf(pending_write_batches') \in Seq(Event)
    BY <2>1, <2>4, TextType
  <2>7. Unwritten' \in Seq(Event) /\ Cat(file, Unwritten) = file
    BY <2>3, <2>4, CatLaws
  <2>8. Cat(file, Cat(Unwritten', TextOf(pending_write_batches')))
          = Cat(Cat(file, Unwritten'), TextOf(pending_write_batches'))
    BY <2>6, <2>7, CatLaws
  <2>9. Delivered' = Delivered
    BY <2>1, <2>5, <2>7, <2>8 DEF Delivered
  <2>10. ~FormatRun
    BY <2>1, <1>2 DEF FormatRun, queueVars, PopBatch, writerVars
  <2>11. QED
    BY <2>1, <2>9, <2>10 DEF DeliveredMoves
<1>3. CASE WriteText
  <2>1. /\ Unwritten = current /\ Unwritten' = <<>> /\ file' = Cat(file, current)
        /\ UNCHANGED <<pending_write_batches, write_batch>>
    BY <1>3 DEF WriteText, Unwritten, Cat, queueVars, workerVars
  <2>2. Delivered' = Delivered
    BY <2>1, CatLaws DEF Delivered
  <2>3. ~FormatRun
    BY <1>3 DEF FormatRun, WriteText, writerVars
  <2>4. QED
    BY <2>1, <2>2, <2>3 DEF DeliveredMoves
<1>4. CASE UNCHANGED <<file, Unwritten, pending_write_batches>>
           /\ (FormatRun \/ FormatThrows \/ DropBatch \/ write_batch' = write_batch)
  BY <1>4 DEF DeliveredMoves, Delivered
<1>5. CASE WriterAborts
  BY <1>5 DEF DeliveredMoves
<1>6. ASSUME WorkerStep, ~PushBatch
      PROVE  /\ UNCHANGED <<file, Unwritten, pending_write_batches>>
             /\ FormatRun \/ DropBatch \/ write_batch' = write_batch
  BY <1>6 DEF WorkerStep, WorkerWake, WorkerSleep, Snapshot, FormatRun, Flush,
     EndDrain, Retire, CheckStop, DropBatch, Throttle, ThrottleSleep,
     workerRest, writerVars, queueVars, Unwritten
<1>7. ASSUME WriterStep, ~PopBatch, ~WriteText
      PROVE  UNCHANGED <<file, Unwritten, pending_write_batches, write_batch>>
  BY <1>7 DEF WriterStep, WriterIdle, WriterSleep, BeginWrite, CountWritten,
     workerVars, queueVars, Unwritten
<1>8. ASSUME \/ ProducerNext \/ WorkerSpuriousWake \/ FormatThrows \/ StopWorker
             \/ StopWriter \/ CloseFile \/ UNCHANGED vars
      PROVE  /\ UNCHANGED <<file, Unwritten, pending_write_batches>>
             /\ FormatThrows \/ write_batch' = write_batch
  BY <1>8 DEF vars, ProducerNext, Offer, ProducerStep, StoreSlot, Publish,
     ProducerPark, ProducerSleep, GiveUp, ProducerSpuriousWake,
     WorkerSpuriousWake, FormatThrows, StopWorker, StopWriter, CloseFile,
     Notified, workerVars, workerRest, writerVars, queueVars, Unwritten
<1>9. QED
  BY <1>1, <1>2, <1>3, <1>4, <1>5, <1>6, <1>7, <1>8 DEF Next

LEMMA FlightIs ==
  InFlightInOrder <=> (~faulty => Cat(Cat(Delivered, write_batch), Rest) = log)
BY DEF InFlightInOrder, Delivered, Rest, Cat

LEMMA FlightIsNext ==
  InFlightInOrder' <=>
    (~faulty' => Cat(Cat(Delivered', write_batch'), Rest') = log')
BY DEF InFlightInOrder, Delivered, Rest, Cat

LEMMA FaultsStay == [Next]_vars => (faulty => faulty')
BY DEF Next, vars, ProducerNext, Offer, ProducerStep, StoreSlot, Publish,
   ProducerPark, ProducerSleep, GiveUp, ProducerSpuriousWake, WorkerStep,
   WorkerWake, WorkerSleep, WorkerSpuriousWake, Snapshot, FormatRun,
   FormatThrows, Flush, EndDrain, Retire, CheckStop, PushBatch, DropBatch,
   Throttle, ThrottleSleep, WriterStep, PopBatch, WriterIdle, WriterSleep,
   BeginWrite, WriteText, CountWritten, WriterAborts, WriteFails, StopWorker,
   StopWriter, CloseFile, faultVars

LEMMA FlightStep ==
  ASSUME IInv, IInv', StopInv, InFlightInOrder, [Next]_vars
  PROVE  InFlightInOrder'
<1> SUFFICES ASSUME ~faulty'
             PROVE  Cat(Cat(Delivered', write_batch'), Rest') = log'
  BY FlightIsNext
<1>1. /\ Delivered \in Seq(Event) /\ write_batch \in Seq(Event)
      /\ Rest \in Seq(Event) /\ log \in Seq(Event)
      /\ Rest' \in Seq(Event) /\ <<>> \in Seq(Event)
  BY FlightTypes, RestInLogNext DEF RestIsLog
<1>2. ~faulty /\ Cat(Cat(Delivered, write_batch), Rest) = log
  BY FaultsStay, FlightIs
<1>3. RestMoves /\ DeliveredMoves
  BY RestStep, DeliveredStep
<1>4. ~FormatThrows /\ ~WriterAborts
  BY DEF FormatThrows, WriterAborts, WriteFails
<1>5. ~DropBatch
  BY <1>2 DEF DropBatch, CanEnqueueWrite, StopInv
<1>6. CASE FormatRun
  <2>1. ~PushBatch
    BY <1>6 DEF FormatRun, PushBatch, CanEnqueueWrite
  <2>2. Delivered' = Delivered /\ log' = log
    BY <1>3, <1>4, <1>6, <2>1 DEF DeliveredMoves, RestMoves
  <2>3. PICK run \in Seq(Event) :
          write_batch' = Cat(write_batch, run) /\ Rest = Cat(run, Rest')
    BY <1>3, <1>6 DEF RestMoves
  <2>4. Cat(Delivered, Cat(write_batch, run)) = Cat(Cat(Delivered, write_batch), run)
        /\ Cat(Delivered, write_batch) \in Seq(Event)
    BY <1>1, CatLaws
  <2>5. Cat(Cat(Cat(Delivered, write_batch), run), Rest')
          = Cat(Cat(Delivered, write_batch), Cat(run, Rest'))
    BY <1>1, <2>4, CatLaws
  <2>6. QED
    BY <1>2, <2>2, <2>3, <2>4, <2>5
<1>7. CASE PushBatch
  <2>1. log' = log /\ ~FormatRun
    BY <1>7 DEF FormatRun, PushBatch, CanEnqueueWrite, ringVars
  <2>2. Rest' = Rest
    BY <1>3, <2>1 DEF RestMoves
  <2>3. Cat(Delivered', write_batch') = Cat(Delivered, write_batch)
    <3>1. /\ write_batch' = <<>>
          /\ \/ Delivered' = Cat(Delivered, write_batch)
             \/ Delivered' = Delivered /\ write_batch' = write_batch
      BY <1>3, <1>4, <1>5, <1>7, <2>1 DEF DeliveredMoves, PushBatch
    <3>2. Cat(Delivered, write_batch) \in Seq(Event)
      BY <1>1, CatLaws
    <3>3. QED
      BY <1>1, <3>1, <3>2, CatLaws
  <2>4. QED
    BY <1>2, <2>1, <2>2, <2>3
<1>8. CASE ~FormatRun /\ ~PushBatch
  <2>1. Delivered' = Delivered /\ write_batch' = write_batch
    BY <1>3, <1>4, <1>5, <1>8 DEF DeliveredMoves
  <2>2. CASE log' = log
    BY <1>2, <1>3, <1>8, <2>1, <2>2 DEF RestMoves
  <2>3. CASE log' # log
    <3>1. PICK e \in Event : log' = Append(log, e) /\ Rest' = Append(Rest, e)
      BY <1>3, <2>3 DEF RestMoves
    <3>2. Cat(Delivered, write_batch) \in Seq(Event)
      BY <1>1, CatLaws
    <3>3. Cat(Cat(Delivered, write_batch), Append(Rest, e))
            = Append(Cat(Cat(Delivered, write_batch), Rest), e)
      BY <1>1, <3>2, CatLaws
    <3>4. QED
      BY <1>2, <2>1, <3>1, <3>3
  <2>4. QED
    BY <2>2, <2>3
<1>9. QED
  BY <1>6, <1>7, <1>8

LEMMA PrefixOfPrefix ==
  ASSUME NEW s \in Seq(Event), NEW t \in Seq(Event), IsPrefixOfLog(Cat(s, t))
  PROVE  IsPrefixOfLog(s)
<1>1. PICK rest \in Seq(Event) : Cat(Cat(s, t), rest) = log
  BY DEF IsPrefixOfLog
<1>2. Cat(t, rest) \in Seq(Event) /\ Cat(s, Cat(t, rest)) = log
  BY <1>1, CatLaws
<1>3. QED
  BY <1>2 DEF IsPrefixOfLog

\* What was a prefix of the log is one of the longer log.
LEMMA PrefixStays ==
  ASSUME IInv, IInv', [Next]_vars, NEW s \in Seq(Event), IsPrefixOfLog(s)
  PROVE  \E rest \in Seq(Event) : Cat(s, rest) = log'
<1>1. PICK rest \in Seq(Event) : Cat(s, rest) = log
  BY DEF IsPrefixOfLog
<1>2. CASE log' = log
  BY <1>1, <1>2
<1>3. CASE log' # log
  <2>1. PICK e \in Event : log' = Append(log, e)
    BY <1>3, RestStep DEF RestMoves
  <2>2. Append(rest, e) \in Seq(Event)
    BY AppendProperties
  <2>3. Cat(s, Append(rest, e)) = log'
    BY <1>1, <2>1, CatLaws
  <2>4. QED
    BY <2>2, <2>3
<1>4. QED
  BY <1>2, <1>3

\* Without a fault the order of the text in flight says it all.
LEMMA FlightGivesPrefix ==
  IInv /\ InFlightInOrder /\ ~faulty => PrefixInv
<1> SUFFICES ASSUME IInv, InFlightInOrder, ~faulty  PROVE PrefixInv
  OBVIOUS
<1> USE FlightTypes
<1>1. Cat(Cat(Delivered, write_batch), Rest) = log
  BY FlightIs
<1>2. Cat(Delivered, write_batch) \in Seq(Event)
  BY CatLaws
<1>3. IsPrefixOfLog(Delivered)
  <2>1. IsPrefixOfLog(Cat(Delivered, write_batch))
    BY <1>1 DEF IsPrefixOfLog
  <2>2. QED
    BY <2>1, PrefixOfPrefix
<1>4. IsPrefixOfLog(file)
  <2>1. IsPrefixOfLog(Cat(file, Unwritten))
    BY <1>3, PrefixOfPrefix DEF Delivered
  <2>2. QED
    BY <2>1, PrefixOfPrefix
<1>5. QED
  BY <1>3, <1>4 DEF PrefixInv

LEMMA FlightGivesPrefixNext ==
  IInv' /\ InFlightInOrder' /\ ~faulty' => PrefixInv'
BY FlightGivesPrefix, PTL

\* The steps that write the file.
LEMMA FileStep ==
  [Next]_vars => (WriteText \/ WriterAborts \/ UNCHANGED file)
BY DEF Next, vars, ProducerNext, Offer, ProducerStep, StoreSlot, Publish,
   ProducerPark, ProducerSleep, GiveUp, ProducerSpuriousWake, WorkerStep,
   WorkerWake, WorkerSleep, WorkerSpuriousWake, Snapshot, FormatRun,
   FormatThrows, Flush, EndDrain, Retire, CheckStop, PushBatch, DropBatch,
   Throttle, ThrottleSleep, WriterStep, PopBatch, WriterIdle, WriterSleep,
   BeginWrite, CountWritten, StopWorker, StopWriter, CloseFile, writerVars

LEMMA PrefixStep ==
  ASSUME IInv, IInv', WorkerInv, PrefixInv, InFlightInOrder', [Next]_vars
  PROVE  PrefixInv'
<1> USE FlightTypes
<1>1. CASE ~faulty'
  BY <1>1, FlightGivesPrefixNext
<1>2. CASE faulty' /\ WriterAborts
  <2>1. PICK n \in 0 .. Len(current) : file' = Cat(file, SubSeq(current, 1, n))
    BY <1>2 DEF WriterAborts, WriteFails, Cat
  <2>2. /\ writer_pc = "writing" /\ writer_pc' = "exited" /\ log' = log
    BY <1>2 DEF WriterAborts, WriteFails, ringVars
  <2>3. Len(current) \in Nat
    BY LenProperties
  <2>4. /\ SubSeq(current, 1, n) \in Seq(Event)
        /\ SubSeq(current, n + 1, Len(current)) \in Seq(Event)
    BY <2>3
  <2>5. Cat(SubSeq(current, 1, n), SubSeq(current, n + 1, Len(current)))
          = current
    <3>1. 1 \in 1 .. Len(current) + 1 /\ n \in 1 - 1 .. Len(current)
          /\ Len(current) \in n .. Len(current)
      BY <2>3
    <3>2. SubSeq(current, 1, n) \o SubSeq(current, n + 1, Len(current))
            = SubSeq(current, 1, Len(current))
      BY <3>1, ConcatAdjacentSubSeq
    <3>3. QED
      BY <3>2, SubSeqFull DEF Cat
  <2>6. IsPrefixOfLog(Cat(file, current))
    <3>1. IsPrefixOfLog(Delivered) /\ Unwritten = current
      BY <2>2 DEF PrefixInv, Unwritten
    <3>2. QED
      BY <3>1, PrefixOfPrefix DEF Delivered
  <2>7. IsPrefixOfLog(Cat(file', SubSeq(current, n + 1, Len(current))))
    <3> DEFINE written == SubSeq(current, 1, n)
               cut == SubSeq(current, n + 1, Len(current))
    <3>1. file \in Seq(Event) /\ written \in Seq(Event) /\ cut \in Seq(Event)
          /\ Cat(written, cut) = current /\ file' = Cat(file, written)
      BY <2>1, <2>4, <2>5
    <3> HIDE DEF written, cut
    <3>2. Cat(Cat(file, written), cut) = Cat(file, current)
      BY <3>1, CatLaws
    <3>3. IsPrefixOfLog(Cat(file', cut))
      BY <2>6, <3>1, <3>2
    <3>4. QED
      BY <3>3 DEF cut
  <2>8. file' \in Seq(Event)
    BY <2>1, <2>4, CatLaws
  <2>9. IsPrefixOfLog(file')
    BY <2>4, <2>7, <2>8, PrefixOfPrefix
  <2>10. QED
    BY <2>2, <2>9 DEF PrefixInv, IsPrefixOfLog
<1>3. CASE faulty' /\ ~WriterAborts
  <2>1. \E rest \in Seq(Event) : Cat(file', rest) = log'
    <3>1. CASE UNCHANGED file
      BY <3>1, PrefixStays DEF PrefixInv
    <3>2. CASE WriteText
      <4>1. /\ file' = Cat(file, Unwritten) /\ writer_pc # "exited"
        BY <3>2 DEF WriteText, Unwritten, Cat
      <4>2. IsPrefixOfLog(Cat(file, Unwritten))
        BY <4>1, PrefixOfPrefix DEF PrefixInv, Delivered
      <4>3. QED
        BY <4>1, <4>2, PrefixStays
    <3>3. QED
      BY <1>3, <3>1, <3>2, FileStep
  <2>2. ASSUME writer_pc' # "exited"
        PROVE  \E rest \in Seq(Event) : Cat(Delivered', rest) = log'
    <3>1. IsPrefixOfLog(Delivered)
      BY <2>2, ExitStep DEF ExitIsFinal, PrefixInv
    <3>2. CASE Delivered' = Delivered
      BY <3>1, <3>2, PrefixStays
    <3>3. CASE PushBatch /\ Delivered' = Cat(Delivered, write_batch)
      <4>1. faulty /\ writer_pc # "exited"
        BY <1>3, <2>2, <3>3, ExitStep DEF ExitIsFinal, PushBatch, faultVars
      <4>2. write_batch = <<>>
        BY <4>1 DEF WorkerInv
      <4>3. Delivered' = Delivered
        BY <3>3, <4>2, CatLaws
      <4>4. QED
        BY <3>2, <4>3
    <3>4. QED
      BY <1>3, <3>2, <3>3, DeliveredStep DEF DeliveredMoves
  <2>3. QED
    BY <2>1, <2>2 DEF PrefixInv, IsPrefixOfLog
<1>4. QED
  BY <1>1, <1>2, <1>3

-----------------------------------------------------------------------------
(* The theorems.                                                           *)

LEMMA InitOrder == Init => OrderInv
<1> SUFFICES ASSUME Init  PROVE OrderInv
  OBVIOUS
<1>1. IInv
  BY InitIInv
<1>2. /\ Len(<<>>) = 0 /\ <<>> \in Seq(Event) /\ TextOf(<<>>) = <<>>
      /\ BytesOf(<<>>) = 0
  BY EmptySeq, TextOfEmpty, BytesOfEmpty
<1>3. Unformatted = 0
  BY DEF Init, Unformatted, RingDistance
<1>4. BytesInv /\ StopInv /\ WorkerInv /\ WriterInv
  BY <1>2, <1>3 DEF Init, BytesInv, StopInv, WorkerInv, WriterInv, Enqueuing
<1>5. QueueBounded
  BY <1>2, BytesAssumption DEF Init, QueueBounded
<1>6. Rest = <<>>
  <2>1. RestIsLog
    BY <1>1, RestInLog
  <2>2. QED
    BY <1>3, <2>1, EmptySeq DEF RestIsLog
<1>7. InFlightInOrder
  <2>1. /\ file = <<>> /\ Unwritten = <<>> /\ write_batch = <<>> /\ log = <<>>
        /\ pending_write_batches = <<>>
    BY DEF Init, Unwritten
  <2>2. Cat(<<>>, <<>>) = <<>>
    BY <1>2, CatLaws
  <2>3. QED
    BY <1>2, <1>6, <2>1, <2>2, FlightIs DEF Delivered
<1>8. PrefixInv
  BY <1>1, <1>7, FlightGivesPrefix DEF Init
<1>9. QED
  BY <1>1, <1>4, <1>5, <1>7, <1>8 DEF OrderInv

LEMMA OrderStep == OrderInv /\ [Next]_vars => OrderInv'
<1> SUFFICES ASSUME OrderInv, [Next]_vars  PROVE OrderInv'
  OBVIOUS
<1>1. IInv /\ IInv'
  BY StepIInv DEF OrderInv
<1>2. BytesInv' /\ QueueBounded'
  BY <1>1, BytesStep, BoundStep DEF OrderInv
<1>3. StopInv' /\ WorkerInv' /\ WriterInv'
  BY <1>1, StopStep, WorkerInvStep, WriterInvStep DEF OrderInv
<1>4. InFlightInOrder'
  BY <1>1, FlightStep DEF OrderInv
<1>5. PrefixInv'
  BY <1>1, <1>4, PrefixStep DEF OrderInv
<1>6. QED
  BY <1>1, <1>2, <1>3, <1>4, <1>5 DEF OrderInv

\* OrderInv holds in every reachable state of the recorder.
THEOREM OrderInvariance == Spec => []OrderInv
BY InitOrder, OrderStep, PTL DEF Spec

\* The byte and event counters of EnqueueWrite and WriterLoop are those of the
\* queue at every moment, and the queue is above kMaxPendingWriteBytes only with a
\* single batch in it.
THEOREM QueueIsBounded == Spec => []QueueBounded
<1>1. OrderInv => QueueBounded
  BY DEF OrderInv
<1>2. QED
  BY OrderInvariance, <1>1, PTL

\* Until something fails no event overtakes another one, is written twice or is
\* missing between the file, the writer, the queue, the worker's batch and the
\* ring.
THEOREM TextInOrder == Spec => []InFlightInOrder
<1>1. OrderInv => InFlightInOrder
  BY DEF OrderInv
<1>2. QED
  BY OrderInvariance, <1>1, PTL

\* A prefix of the log in the words of EventLog.
LEMMA PrefixIsSubSeq ==
  ASSUME NEW s \in Seq(Event), NEW t \in Seq(Event)
  PROVE  /\ s = SubSeq(Cat(s, t), 1, Len(s))
         /\ Len(s) \in Nat /\ Len(s) <= Len(Cat(s, t))
<1>1. /\ Len(s) \in Nat /\ Len(t) \in Nat /\ s \o t \in Seq(Event)
      /\ Len(s \o t) = Len(s) + Len(t)
  BY LenProperties, ConcatProperties
<1>2. CASE s = <<>>
  BY <1>1, <1>2, SubSeqEmpty, EmptySeq DEF Cat
<1>3. CASE s # <<>>
  <2>1. 1 \in 1 .. Len(s) /\ Len(s) \in 1 .. Len(s)
    BY <1>1, <1>3, EmptySeq
  <2>2. SubSeq(s \o t, 1, Len(s)) = SubSeq(s, 1, Len(s))
    BY <2>1, SubSeqOfConcat1
  <2>3. QED
    BY <1>1, <2>2, SubSeqFull DEF Cat
<1>4. QED
  BY <1>2, <1>3

\* A step that lets the file grow is a Persist of EventLog.
LEMMA PersistStep ==
  ASSUME OrderInv, OrderInv', log' = log, owner_pc' = owner_pc,
         owner_pc # "closed", faulty' \in {faulty, TRUE},
         \E more \in Seq(Event) : file' = Cat(file, more)
  PROVE  EventLog!Next
<1>1. file \in Seq(Event) /\ file' \in Seq(Event) /\ log \in Seq(Event)
  BY DEF OrderInv, IInv, TypeOK
<1>2. PICK rest \in Seq(Event) : Cat(file', rest) = log
  BY DEF OrderInv, PrefixInv, IsPrefixOfLog
<1>3. /\ file' = SubSeq(log, 1, Len(file'))
      /\ Len(file') \in Nat /\ Len(file') <= Len(log)
  BY <1>1, <1>2, PrefixIsSubSeq
<1>4. Len(file) \in Nat /\ Len(file) <= Len(file') /\ Len(log) \in Nat
  <2>1. PICK more \in Seq(Event) : file' = Cat(file, more)
    OBVIOUS
  <2>2. QED
    BY <1>1, <2>1, PrefixIsSubSeq, LenProperties
<1>5. Len(file') \in Len(file) .. Len(log)
  BY <1>3, <1>4
<1>6. EventLog!Persist(Len(file'))
  BY <1>3 DEF EventLog!Persist
<1>7. QED
  BY <1>5, <1>6 DEF EventLog!Next

\* A recorder that closes without a fault has written everything.
LEMMA NothingLeft ==
  ASSUME OrderInv, ~faulty, writer_pc = "exited"
  PROVE  file = log
<1>1. /\ pending_write_batches = <<>> /\ worker_pc = "exited"
      /\ write_batch = <<>> /\ Unformatted = 0
  BY DEF OrderInv, WriterInv, StopInv, WorkerInv, Enqueuing
<1>2. Unwritten = <<>>
  BY DEF Unwritten, OrderInv, IInv, WriterHandsInv
<1>3. TextOf(pending_write_batches) = <<>>
  BY <1>1, TextOfEmpty
<1>4. Rest = <<>>
  <2>1. RestIsLog
    BY RestInLog DEF OrderInv
  <2>2. QED
    BY <1>1, <2>1, EmptySeq DEF RestIsLog
<1>5. Cat(Cat(Delivered, write_batch), Rest) = log
  BY FlightIs DEF OrderInv
<1>6. file \in Seq(Event) /\ <<>> \in Seq(Event)
  BY FlightTypes DEF OrderInv
<1>7. Cat(Cat(Delivered, write_batch), Rest) = file
  BY <1>1, <1>2, <1>3, <1>4, <1>6, CatLaws DEF Delivered
<1>8. QED
  BY <1>5, <1>7

LEMMA InitMaps == Init => EventLog!Init
BY DEF Init, EventLog!Init

LEMMA StepMaps ==
  OrderInv /\ OrderInv' /\ [Next]_vars => [EventLog!Next]_(EventLog!vars)
<1> SUFFICES ASSUME OrderInv, OrderInv', [Next]_vars
             PROVE  [EventLog!Next]_(EventLog!vars)
  OBVIOUS
<1> DEFINE Stutters == UNCHANGED <<log, file, faulty>>
                       /\ (owner_pc' = "closed" <=> owner_pc = "closed")
<1>1. CASE Stutters
  BY <1>1 DEF EventLog!vars
<1>2. ASSUME NEW p \in Producers, Publish(p)  PROVE EventLog!Next
  <2>1. event[p] \in Event /\ owner_pc # "closed"
    BY <1>2 DEF Publish, OrderInv, IInv, PublishInv, StopInv
  <2>2. EventLog!Accept(event[p])
    BY <1>2, <2>1 DEF Publish, EventLog!Accept, writerVars, faultVars, stopVars
  <2>3. QED
    BY <2>1, <2>2 DEF EventLog!Next
<1>3. CASE WriteText
  <2>1. /\ writer_pc = "writing" /\ file' = Cat(file, current)
        /\ UNCHANGED <<log, owner_pc, faulty>> /\ current \in Seq(Event)
    BY <1>3, FlightTypes
       DEF WriteText, Cat, ringVars, stopVars, faultVars, OrderInv
  <2>2. owner_pc # "closed"
    BY <2>1 DEF OrderInv, StopInv
  <2>3. QED
    BY <2>1, <2>2, PersistStep
<1>4. CASE WriterAborts
  <2>1. PICK n \in 0 .. Len(current) : file' = Cat(file, SubSeq(current, 1, n))
    BY <1>4 DEF WriterAborts, WriteFails, Cat
  <2>2. /\ writer_pc = "writing" /\ faulty' = TRUE
        /\ UNCHANGED <<log, owner_pc>>
    BY <1>4 DEF WriterAborts, WriteFails, ringVars
  <2>3. SubSeq(current, 1, n) \in Seq(Event)
    BY FlightTypes DEF OrderInv
  <2>4. owner_pc # "closed"
    BY <2>2 DEF OrderInv, StopInv
  <2>5. QED
    BY <2>1, <2>2, <2>3, <2>4, PersistStep
<1>5. CASE FormatThrows
  <2>1. /\ worker_pc = "format" /\ faulty' = TRUE
        /\ UNCHANGED <<log, owner_pc, file>>
    BY <1>5 DEF FormatThrows, ringVars, writerVars
  <2>2. owner_pc # "closed"
    BY <2>1 DEF OrderInv, StopInv
  <2>3. <<>> \in Seq(Event) /\ file' = Cat(file, <<>>)
    BY <2>1, FlightTypes, CatLaws DEF OrderInv
  <2>4. QED
    BY <2>1, <2>2, <2>3, PersistStep
<1>6. CASE CloseFile
  <2>1. /\ writer_pc = "exited" /\ owner_pc' = "closed"
        /\ UNCHANGED <<log, file, faulty>>
    BY <1>6 DEF CloseFile, ringVars, writerVars, faultVars
  <2>2. faulty \/ file = log
    BY <2>1, NothingLeft
  <2>3. EventLog!Close
    BY <2>1, <2>2 DEF EventLog!Close
  <2>4. QED
    BY <2>3 DEF EventLog!Next
<1>7. ASSUME ProducerNext, \A p \in Producers : ~Publish(p)  PROVE Stutters
  BY <1>7 DEF ProducerNext, Offer, ProducerStep, StoreSlot, ProducerPark,
     ProducerSleep, GiveUp, ProducerSpuriousWake, ringVars, writerVars,
     faultVars, stopVars
<1>8. ASSUME WorkerStep  PROVE Stutters
  BY <1>8 DEF WorkerStep, WorkerWake, WorkerSleep, Snapshot, FormatRun, Flush,
     EndDrain, Retire, CheckStop, PushBatch, DropBatch, Throttle,
     ThrottleSleep, ringVars, writerVars, faultVars, stopVars
<1>9. ASSUME WriterStep, ~WriteText  PROVE Stutters
  BY <1>9 DEF WriterStep, PopBatch, WriterIdle, WriterSleep, BeginWrite,
     CountWritten, ringVars, faultVars, stopVars
<1>10. ASSUME WorkerSpuriousWake \/ StopWorker \/ StopWriter \/ UNCHANGED vars
       PROVE  Stutters
  BY <1>10 DEF WorkerSpuriousWake, StopWorker, StopWriter, vars, ringVars,
     writerVars, faultVars, stopVars
<1>11. QED
  BY <1>1, <1>2, <1>3, <1>4, <1>5, <1>6, <1>7, <1>8, <1>9, <1>10 DEF Next

\* The recorder implements the log it promises to be: Publish accepts an event,
\* WriteText and a failing write let the file grow by the events accepted next,
\* the end of the destructor closes it, with the whole log in the file unless
\* something has failed, and no other step can be seen.
THEOREM Implementation == Spec => ImplementsEventLog
BY OrderInvariance, InitMaps, StepMaps, PTL
   DEF Spec, ImplementsEventLog, EventLog!Spec
===============================================================================
