-------------------------- MODULE RecorderPipeline --------------------------
(***************************************************************************)
(* The asynchronous trace recorder (src/core/recorder): traced threads put *)
(* step events into a preallocated ring from their exception handlers, one *)
(* worker thread formats them into batches of text, one writer thread      *)
(* writes the batches, and the owner of the recorder stops both.           *)
(*                                                                         *)
(* A step of the model is what a thread does between two accesses to       *)
(* shared state that another thread can tell apart.  A wait on a condition *)
(* variable is two steps: the predicate is evaluated under the mutex       *)
(* ("parking"), then the thread joins the waiters and releases the mutex   *)
(* ("asleep").  A notification reaches only the threads already asleep.    *)
(*                                                                         *)
(* An event is its number and the key its outside-other run is merged by   *)
(* (thread and call depth); events of key Plain are never merged.  Text is *)
(* the sequence of events it describes and a size in bytes.                *)
(***************************************************************************)
EXTENDS Integers, Sequences

CONSTANTS
  Producers,       \* the traced threads that call OnStep
  Keys,            \* merge keys of summarizable events
  Plain,           \* the key of every other event
  MaxEvents,       \* bound: events offered to the recorder
  RingCapacity,    \* kRecorderRingCapacity, 655360 slots
  FlushBytes,      \* 64 KiB: a batch this long is handed to the writer
  MaxPendingBytes, \* kMaxPendingWriteBytes, 16 MiB
  LineBytes,       \* sizes the text of one formatted run may have
  Faults,          \* which of AllFaults may happen
  SpuriousWakes    \* may wait() return without a notification?

AllFaults == {"write", "report", "format"}

ASSUME RingAssumption == RingCapacity \in Nat /\ RingCapacity >= 2
ASSUME BytesAssumption ==
  /\ FlushBytes \in Nat \ {0}
  /\ MaxPendingBytes \in Nat
  /\ LineBytes \subseteq Nat \ {0}
ASSUME EventsAssumption == MaxEvents \in Nat /\ Plain \notin Keys
ASSUME FaultsAssumption == Faults \subseteq AllFaults /\ SpuriousWakes \in BOOLEAN

VARIABLES
  offered,         \* number of OnStep calls so far
  event,           \* per producer: the event it is enqueuing
  producer_pc,
  saw_empty,       \* Enqueue's write == read, of the producer holding wake_lock
  ring, read_index, write_index,
  stop_requested,
  worker_pc, worker_active,
  local_read, local_write,
  write_batch, write_batch_bytes,
  pending_write_batches, pending_write_bytes, pending_write_event_count,
  writer_stop_requested,
  writer_pc, writer_active,
  current,         \* events of the batch the writer has popped
  written_event_count, total_dropped_write_event_count,
  file,            \* events whose text is in the output file
  owner_pc,
  log,             \* history: every event published in the ring
  lost,            \* history: events a fault took out of every counter
  faulty           \* history: has a fault happened?

producerVars == <<offered, event, producer_pc, saw_empty>>
ringVars == <<ring, read_index, write_index, log>>
workerVars == <<worker_pc, worker_active, local_read, local_write,
                write_batch, write_batch_bytes>>
queueVars == <<pending_write_batches, pending_write_bytes,
               pending_write_event_count>>
writerVars == <<writer_pc, writer_active, current, written_event_count, file>>
stopVars == <<stop_requested, writer_stop_requested, owner_pc>>
faultVars == <<total_dropped_write_event_count, lost, faulty>>
vars == <<producerVars, ringVars, workerVars, queueVars, writerVars, stopVars,
          faultVars>>

Slots == 0 .. RingCapacity - 1
Event == [seq : 1 .. MaxEvents, key : Keys \cup {Plain}]
NoEvent == [seq |-> 0, key |-> Plain]  \* a slot as make_unique leaves it

-----------------------------------------------------------------------------
(* The ring's index arithmetic.                                            *)

Mutant_NextSlotNoWrap(i) == i + 1
NextSlot(i) == (i + 1) % RingCapacity

\* How many slots from index r up to index w, going round the ring.
RingDistance(r, w) == IF w >= r THEN w - r ELSE (RingCapacity - r) + w

PendingEventCount == RingDistance(read_index, write_index)

Mutant_RingFullNoWrap == write_index + 1 = read_index
RingFull == NextSlot(write_index) = read_index

\* What the producers' wait predicate asks for.
HasRoom == PendingEventCount < RingCapacity - 1

IsWriting ==
  \/ worker_active
  \/ writer_active
  \/ PendingEventCount # 0
  \/ pending_write_bytes # 0

-----------------------------------------------------------------------------
(* Notifications: only a thread that is already asleep is woken.           *)

Notified(pc) == IF pc = "asleep" THEN "woken" ELSE pc

AllProducersNotified == [p \in Producers |-> Notified(producer_pc[p])]

\* The worker sleeps on worker_cv in "asleep", on write_queue_cv in "throttled".
QueueNotified(pc) == IF pc = "throttled" THEN "unthrottled" ELSE pc

WakeLockFree ==
  /\ worker_pc # "parking"
  /\ \A p \in Producers : producer_pc[p] \notin {"publish", "parking"}

WriteQueueLockFree == worker_pc # "throttling" /\ writer_pc # "parking"

-----------------------------------------------------------------------------
Init ==
  /\ offered = 0
  /\ event = [p \in Producers |-> NoEvent]
  /\ producer_pc = [p \in Producers |-> "idle"]
  /\ saw_empty = FALSE
  /\ ring = [i \in Slots |-> NoEvent]
  /\ read_index = 0 /\ write_index = 0
  /\ log = <<>>
  /\ worker_pc = "wait" /\ worker_active = FALSE
  /\ local_read = 0 /\ local_write = 0
  /\ write_batch = <<>> /\ write_batch_bytes = 0
  /\ pending_write_batches = <<>>
  /\ pending_write_bytes = 0 /\ pending_write_event_count = 0
  /\ writer_pc = "wait" /\ writer_active = FALSE
  /\ current = <<>> /\ written_event_count = 0 /\ file = <<>>
  /\ stop_requested = FALSE /\ writer_stop_requested = FALSE
  /\ owner_pc = "open"
  /\ total_dropped_write_event_count = 0 /\ lost = 0 /\ faulty = FALSE

-----------------------------------------------------------------------------
(* Producers: Enqueue.                                                     *)

\* OnStep passes Enqueue's unlocked check.
Offer(p, key) ==
  /\ owner_pc = "open"
  /\ producer_pc[p] = "idle"
  /\ ~stop_requested
  /\ offered < MaxEvents
  /\ offered' = offered + 1
  /\ event' = [event EXCEPT ![p] = [seq |-> offered + 1, key |-> key]]
  /\ producer_pc' = [producer_pc EXCEPT ![p] = "enqueue"]
  /\ UNCHANGED <<saw_empty, ringVars, workerVars, queueVars, writerVars,
                 stopVars, faultVars>>

\* The producer can take wake_lock, for the first time or after a wait.
CanLock(p) == producer_pc[p] \in {"enqueue", "woken"} /\ WakeLockFree

\* The slot written; the mutant writes the slot Publish will move on to.
Mutant_NextSlotStored == NextSlot(write_index)
StoredSlot == write_index

\* Only a producer that saw an empty ring wakes the worker.
Mutant_SeesFull == NextSlot(write_index) = read_index
SeesEmpty == write_index = read_index

\* The slot is filled before the event is published.
StoreSlot(p) ==
  /\ CanLock(p)
  /\ ~RingFull
  /\ producer_pc[p] = "woken" => ~stop_requested
  /\ ring' = [ring EXCEPT ![StoredSlot] = event[p]]
  /\ saw_empty' = SeesEmpty
  /\ producer_pc' = [producer_pc EXCEPT ![p] = "publish"]
  /\ UNCHANGED <<offered, event, read_index, write_index, log, workerVars,
                 queueVars, writerVars, stopVars, faultVars>>

Publish(p) ==
  /\ producer_pc[p] = "publish"
  /\ write_index' = NextSlot(write_index)
  /\ log' = Append(log, event[p])
  /\ worker_pc' = IF saw_empty THEN Notified(worker_pc) ELSE worker_pc
  /\ producer_pc' = [producer_pc EXCEPT ![p] = "idle"]
  /\ UNCHANGED <<offered, event, saw_empty, ring, read_index, worker_active,
                 local_read, local_write, write_batch, write_batch_bytes,
                 queueVars, writerVars, stopVars, faultVars>>

\* The wait predicate is false: the producer will sleep, and holds wake_lock.
ProducerPark(p) ==
  /\ CanLock(p)
  /\ RingFull /\ ~HasRoom
  /\ ~stop_requested
  /\ producer_pc' = [producer_pc EXCEPT ![p] = "parking"]
  /\ UNCHANGED <<offered, event, saw_empty, ringVars, workerVars, queueVars,
                 writerVars, stopVars, faultVars>>

ProducerSleep(p) ==
  /\ producer_pc[p] = "parking"
  /\ producer_pc' = [producer_pc EXCEPT ![p] = "asleep"]
  /\ UNCHANGED <<offered, event, saw_empty, ringVars, workerVars, queueVars,
                 writerVars, stopVars, faultVars>>

\* A producer that has waited, or would have to, returns without its event.
GiveUp(p) ==
  /\ CanLock(p)
  /\ stop_requested
  /\ RingFull \/ producer_pc[p] = "woken"
  /\ producer_pc' = [producer_pc EXCEPT ![p] = "idle"]
  /\ UNCHANGED <<offered, event, saw_empty, ringVars, workerVars, queueVars,
                 writerVars, stopVars, faultVars>>

\* wait() may return without a notification; the predicate is then tried again.
ProducerSpuriousWake(p) ==
  /\ SpuriousWakes
  /\ producer_pc[p] = "asleep"
  /\ producer_pc' = [producer_pc EXCEPT ![p] = "woken"]
  /\ UNCHANGED <<offered, event, saw_empty, ringVars, workerVars, queueVars,
                 writerVars, stopVars, faultVars>>

ProducerStep(p) ==
  \/ StoreSlot(p) \/ Publish(p)
  \/ ProducerPark(p) \/ ProducerSleep(p) \/ GiveUp(p)

-----------------------------------------------------------------------------
(* The worker: WorkerLoop, and EnqueueWrite, which only it calls.          *)

workerRest == <<worker_active, local_read, local_write, write_batch,
                write_batch_bytes>>

WorkerHasWork == stop_requested \/ read_index # write_index

WorkerWake ==
  /\ worker_pc \in {"wait", "woken"}
  /\ WakeLockFree
  /\ worker_pc' = IF WorkerHasWork THEN "snapshot" ELSE "parking"
  /\ UNCHANGED <<workerRest, producerVars, ringVars, queueVars, writerVars,
                 stopVars, faultVars>>

WorkerSleep ==
  /\ worker_pc = "parking"
  /\ worker_pc' = "asleep"
  /\ UNCHANGED <<workerRest, producerVars, ringVars, queueVars, writerVars,
                 stopVars, faultVars>>

WorkerSpuriousWake ==
  /\ SpuriousWakes
  /\ worker_pc = "asleep"
  /\ worker_pc' = "woken"
  /\ UNCHANGED <<workerRest, producerVars, ringVars, queueVars, writerVars,
                 stopVars, faultVars>>

\* The worker drains up to the write index it sees now, not later ones.
Snapshot ==
  /\ worker_pc = "snapshot"
  /\ local_read' = read_index
  /\ local_write' = write_index
  /\ worker_active' = (read_index # write_index)
  /\ worker_pc' = "format"
  /\ UNCHANGED <<write_batch, write_batch_bytes, producerVars, ringVars,
                 queueVars, writerVars, stopVars, faultVars>>

\* The next text describes n slots: one event, or a run of summarizable events
\* with one key that ends where the drain does or another event follows.
RunOf(n) == [k \in 1 .. n |-> ring[(local_read + k - 1) % RingCapacity]]

OneKey(run) == \A k \in DOMAIN run : run[k].key = run[1].key /\ run[k].key # Plain

IsRun(n) ==
  /\ n = 1 \/ OneKey(RunOf(n))
  /\ n = RingDistance(local_read, local_write) \/ ~OneKey(RunOf(n + 1))

Mutant_AfterOne(n) == NextSlot(local_read)
AfterRun(n) == (local_read + n) % RingCapacity

FormatRun ==
  /\ worker_pc = "format"
  /\ write_batch_bytes < FlushBytes
  /\ \E n \in 1 .. RingDistance(local_read, local_write) :
       /\ IsRun(n)
       /\ write_batch' = write_batch \o RunOf(n)
       /\ local_read' = AfterRun(n)
  /\ \E bytes \in LineBytes : write_batch_bytes' = write_batch_bytes + bytes
  /\ UNCHANGED <<worker_pc, worker_active, local_write, producerVars,
                 ringVars, queueVars, writerVars, stopVars, faultVars>>

\* flush_write_batch: inside the drain when the batch is long, and after it.
Flush ==
  /\ worker_pc = "format"
  /\ write_batch # <<>>
  /\ write_batch_bytes >= FlushBytes \/ local_read = local_write
  /\ worker_pc' = "enqueue_write"
  /\ UNCHANGED <<workerRest, producerVars, ringVars, queueVars, writerVars,
                 stopVars, faultVars>>

EndDrain ==
  /\ worker_pc = "format"
  /\ write_batch = <<>>
  /\ local_read = local_write
  /\ worker_active' = FALSE
  /\ worker_pc' = "retire"
  /\ UNCHANGED <<local_read, local_write, write_batch, write_batch_bytes,
                 producerVars, ringVars, queueVars, writerVars, stopVars,
                 faultVars>>

\* The drained slots are given back, and the producers told, without wake_lock.
Retire ==
  /\ worker_pc = "retire"
  /\ read_index' = local_read
  /\ producer_pc' = IF local_read # read_index THEN AllProducersNotified
                                               ELSE producer_pc
  /\ worker_pc' = "check_stop"
  /\ UNCHANGED <<workerRest, offered, event, saw_empty, ring, write_index,
                 log, queueVars, writerVars, stopVars, faultVars>>

Mutant_ExitAtOnce == stop_requested
WorkerMayExit == stop_requested /\ local_read = write_index

CheckStop ==
  /\ worker_pc = "check_stop"
  /\ worker_pc' = IF WorkerMayExit THEN "exited" ELSE "wait"
  /\ UNCHANGED <<workerRest, producerVars, ringVars, queueVars, writerVars,
                 stopVars, faultVars>>

\* Formatting throws: what was formatted and not flushed is gone, the slots
\* stay unread, and an error line without events goes to the writer.
FormatThrows ==
  /\ "format" \in Faults
  /\ worker_pc = "format"
  /\ local_read # local_write
  /\ stop_requested' = TRUE
  /\ producer_pc' = AllProducersNotified
  /\ lost' = lost + Len(write_batch)
  /\ faulty' = TRUE
  /\ write_batch' = <<>>
  /\ \E bytes \in LineBytes : write_batch_bytes' = bytes
  /\ worker_pc' = "enqueue_write"
  /\ UNCHANGED <<worker_active, local_read, local_write, offered, event,
                 saw_empty, ringVars, queueVars, writerVars,
                 writer_stop_requested, owner_pc,
                 total_dropped_write_event_count>>

\* Where WorkerLoop goes on after EnqueueWrite; only the error line has no events.
AfterEnqueueWrite == IF write_batch = <<>> THEN "exited" ELSE "format"

CanEnqueueWrite ==
  /\ worker_pc \in {"enqueue_write", "unthrottled"}
  /\ WriteQueueLockFree

Mutant_FitsIgnoringBatch == pending_write_bytes <= MaxPendingBytes
Fits ==
  \/ pending_write_bytes = 0
  \/ /\ write_batch_bytes <= MaxPendingBytes
     /\ pending_write_bytes <= MaxPendingBytes - write_batch_bytes

PushBatch ==
  /\ CanEnqueueWrite
  /\ ~writer_stop_requested
  /\ Fits
  /\ pending_write_batches' =
       Append(pending_write_batches,
              [events |-> write_batch, bytes |-> write_batch_bytes])
  /\ pending_write_bytes' = pending_write_bytes + write_batch_bytes
  /\ pending_write_event_count' = pending_write_event_count + Len(write_batch)
  /\ write_batch' = <<>> /\ write_batch_bytes' = 0
  /\ worker_pc' = AfterEnqueueWrite
  /\ writer_pc' = Notified(writer_pc)
  /\ UNCHANGED <<worker_active, local_read, local_write, producerVars,
                 ringVars, writer_active, current, written_event_count, file,
                 stopVars, faultVars>>

\* EnqueueWrite after the writer has stopped, before or after the wait.
DropBatch ==
  /\ CanEnqueueWrite
  /\ writer_stop_requested
  /\ total_dropped_write_event_count' =
       total_dropped_write_event_count + Len(write_batch)
  /\ write_batch' = <<>> /\ write_batch_bytes' = 0
  /\ worker_pc' = AfterEnqueueWrite
  /\ UNCHANGED <<worker_active, local_read, local_write, producerVars,
                 ringVars, queueVars, writerVars, stopVars, lost, faulty>>

Throttle ==
  /\ CanEnqueueWrite
  /\ ~writer_stop_requested
  /\ ~Fits
  /\ worker_pc' = "throttling"
  /\ UNCHANGED <<workerRest, producerVars, ringVars, queueVars, writerVars,
                 stopVars, faultVars>>

ThrottleSleep ==
  /\ worker_pc = "throttling"
  /\ worker_pc' = "throttled"
  /\ UNCHANGED <<workerRest, producerVars, ringVars, queueVars, writerVars,
                 stopVars, faultVars>>

WorkerStep ==
  \/ WorkerWake \/ WorkerSleep \/ Snapshot \/ FormatRun \/ Flush \/ EndDrain
  \/ Retire \/ CheckStop \/ PushBatch \/ DropBatch \/ Throttle \/ ThrottleSleep

-----------------------------------------------------------------------------
(* The writer: WriterLoop.                                                 *)

PopBatch ==
  /\ writer_pc \in {"wait", "woken"}
  /\ WriteQueueLockFree
  /\ pending_write_batches # <<>>
  /\ LET batch == Head(pending_write_batches) IN
       /\ current' = batch.events
       /\ pending_write_bytes' = pending_write_bytes - batch.bytes
       /\ pending_write_event_count' =
            pending_write_event_count - Len(batch.events)
  /\ pending_write_batches' = Tail(pending_write_batches)
  /\ worker_pc' = QueueNotified(worker_pc)
  /\ writer_pc' = "popped"
  /\ UNCHANGED <<workerRest, producerVars, ringVars, writer_active,
                 written_event_count, file, stopVars, faultVars>>

\* Nothing is queued: the writer leaves when it was told to, or waits.
WriterIdle ==
  /\ writer_pc \in {"wait", "woken"}
  /\ WriteQueueLockFree
  /\ pending_write_batches = <<>>
  /\ writer_pc' = IF writer_stop_requested THEN "exited" ELSE "parking"
  /\ UNCHANGED <<writer_active, current, written_event_count, file,
                 workerVars, producerVars, ringVars, queueVars, stopVars,
                 faultVars>>

WriterSleep ==
  /\ writer_pc = "parking"
  /\ writer_pc' = "asleep"
  /\ UNCHANGED <<writer_active, current, written_event_count, file,
                 workerVars, producerVars, ringVars, queueVars, stopVars,
                 faultVars>>

BeginWrite ==
  /\ writer_pc = "popped"
  /\ writer_active' = TRUE
  /\ writer_pc' = "writing"
  /\ UNCHANGED <<current, written_event_count, file, workerVars, producerVars,
                 ringVars, queueVars, stopVars, faultVars>>

WriteText ==
  /\ writer_pc = "writing"
  /\ file' = file \o current
  /\ writer_active' = FALSE
  /\ writer_pc' = "written"
  /\ UNCHANGED <<current, written_event_count, workerVars, producerVars,
                 ringVars, queueVars, stopVars, faultVars>>

CountWritten ==
  /\ writer_pc = "written"
  /\ written_event_count' = written_event_count + Len(current)
  /\ current' = <<>>
  /\ writer_pc' = "wait"
  /\ UNCHANGED <<writer_active, file, workerVars, producerVars, ringVars,
                 queueVars, stopVars, faultVars>>

\* WriteFile fails, perhaps after a part of the text: SignalWriterStop(dropped).
\* When reporting the error throws as well, the handler signals with no events.
WriteFails(dropped) ==
  /\ writer_pc = "writing"
  /\ \E n \in 0 .. Len(current) : file' = file \o SubSeq(current, 1, n)
  /\ total_dropped_write_event_count' =
       total_dropped_write_event_count + dropped
  /\ lost' = lost + Len(current) - dropped
  /\ faulty' = TRUE
  /\ current' = <<>>
  /\ writer_active' = FALSE
  /\ stop_requested' = TRUE
  /\ writer_stop_requested' = TRUE
  /\ worker_pc' = QueueNotified(Notified(worker_pc))
  /\ producer_pc' = AllProducersNotified
  /\ writer_pc' = "exited"
  /\ UNCHANGED <<written_event_count, workerRest, offered, event, saw_empty,
                 ringVars, queueVars, owner_pc>>

WriterAborts ==
  \/ "write" \in Faults /\ WriteFails(Len(current))
  \/ "report" \in Faults /\ WriteFails(0)

WriterStep ==
  \/ PopBatch \/ WriterIdle \/ WriterSleep
  \/ BeginWrite \/ WriteText \/ CountWritten

-----------------------------------------------------------------------------
(* The owner: the recorder's destructor.  Session::Stop has waited for the *)
(* handlers in flight, so no producer is inside Enqueue.                   *)

StopWorker ==
  /\ owner_pc = "open"
  /\ \A p \in Producers : producer_pc[p] = "idle"
  /\ stop_requested' = TRUE
  /\ worker_pc' = Notified(worker_pc)
  /\ owner_pc' = "join_worker"
  /\ UNCHANGED <<writer_stop_requested, workerRest, producerVars, ringVars,
                 queueVars, writerVars, faultVars>>

StopWriter ==
  /\ owner_pc = "join_worker"
  /\ worker_pc = "exited"
  /\ writer_stop_requested' = TRUE
  /\ writer_pc' = Notified(writer_pc)
  /\ owner_pc' = "join_writer"
  /\ UNCHANGED <<stop_requested, writer_active, current, written_event_count,
                 file, workerVars, producerVars, ringVars, queueVars,
                 faultVars>>

CloseFile ==
  /\ owner_pc = "join_writer"
  /\ writer_pc = "exited"
  /\ owner_pc' = "closed"
  /\ UNCHANGED <<stop_requested, writer_stop_requested, workerVars,
                 producerVars, ringVars, queueVars, writerVars, faultVars>>

-----------------------------------------------------------------------------
ProducerNext ==
  \E p \in Producers :
    \/ \E key \in Keys \cup {Plain} : Offer(p, key)
    \/ ProducerStep(p)
    \/ ProducerSpuriousWake(p)

Next ==
  \/ ProducerNext
  \/ WorkerStep \/ WorkerSpuriousWake \/ FormatThrows
  \/ WriterStep \/ WriterAborts
  \/ StopWorker \/ StopWriter \/ CloseFile

Spec == Init /\ [][Next]_vars

\* The operating system schedules every thread; nothing makes a thread call
\* OnStep, wake without cause, fail, or stop the recorder.
Fairness ==
  /\ \A p \in Producers : WF_vars(ProducerStep(p))
  /\ WF_vars(WorkerStep)
  /\ WF_vars(WriterStep)
  /\ WF_vars(StopWriter \/ CloseFile)

FairSpec == Spec /\ Fairness
-----------------------------------------------------------------------------
(* Properties.                                                             *)

Batch == [events : Seq(Event), bytes : Nat]

TypeOK ==
  /\ offered \in 0 .. MaxEvents
  /\ event \in [Producers -> Event \cup {NoEvent}]
  /\ producer_pc \in [Producers -> {"idle", "enqueue", "publish", "parking",
                                    "asleep", "woken"}]
  /\ saw_empty \in BOOLEAN
  /\ ring \in [Slots -> Event \cup {NoEvent}]
  /\ read_index \in Slots /\ write_index \in Slots
  /\ log \in Seq(Event)
  /\ worker_pc \in {"wait", "parking", "asleep", "woken", "snapshot", "format",
                    "enqueue_write", "throttling", "throttled", "unthrottled",
                    "retire", "check_stop", "exited"}
  /\ worker_active \in BOOLEAN
  /\ local_read \in Slots /\ local_write \in Slots
  /\ write_batch \in Seq(Event) /\ write_batch_bytes \in Nat
  /\ pending_write_batches \in Seq(Batch)
  /\ pending_write_bytes \in Int /\ pending_write_event_count \in Int
  /\ writer_pc \in {"wait", "parking", "asleep", "woken", "popped", "writing",
                    "written", "exited"}
  /\ writer_active \in BOOLEAN
  /\ current \in Seq(Event) /\ file \in Seq(Event)
  /\ written_event_count \in Nat /\ total_dropped_write_event_count \in Nat
  /\ stop_requested \in BOOLEAN /\ writer_stop_requested \in BOOLEAN
  /\ owner_pc \in {"open", "join_worker", "join_writer", "closed"}
  /\ lost \in Nat /\ faulty \in BOOLEAN

\* Every slot the worker has not given back still holds the event published in
\* it, in order: a producer never overwrites what the worker may be formatting.
RingHoldsUnread ==
  LET pending == PendingEventCount IN
  /\ pending <= Len(log)
  /\ \A k \in 1 .. pending :
       ring[(read_index + k - 1) % RingCapacity] = log[Len(log) - pending + k]

\* Published events not yet formatted.
Unformatted == RingDistance(local_read, write_index)

\* Every published event is in exactly one place: unformatted in the ring, in
\* the worker's batch, queued, in the writer's hands, written, counted as
\* dropped, or taken by a fault.  State::Status computes event_gap from the
\* counters on the assumption that no event leaves them.
EveryEventCounted ==
  Len(log) = Unformatted + Len(write_batch) + pending_write_event_count
             + Len(current) + written_event_count
             + total_dropped_write_event_count + lost

\* The bytes and the events of a queue of batches, oldest batch first.
BytesOf(batches) ==
  LET bytes[n \in 0 .. Len(batches)] ==
        IF n = 0 THEN 0 ELSE bytes[n - 1] + batches[n].bytes
  IN  bytes[Len(batches)]

TextOf(batches) ==
  LET text[n \in 0 .. Len(batches)] ==
        IF n = 0 THEN <<>> ELSE text[n - 1] \o batches[n].events
  IN  text[Len(batches)]

\* The counters EnqueueWrite's back-pressure and State::Status read agree with
\* the queue, and more bytes than the limit are queued only as a lone batch.
QueueBounded ==
  /\ pending_write_bytes = BytesOf(pending_write_batches)
  /\ pending_write_event_count = Len(TextOf(pending_write_batches))
  /\ pending_write_bytes > MaxPendingBytes => Len(pending_write_batches) = 1

\* What the writer has popped and not yet written.
Unwritten == IF writer_pc = "written" THEN <<>> ELSE current

\* Text in flight is in order: what is written, being written, queued, batched
\* and not yet formatted is the log, as long as nothing has failed.
InFlightInOrder ==
  ~faulty =>
    file \o Unwritten \o TextOf(pending_write_batches) \o write_batch
      \o RunOf(Unformatted) = log

EventLog == INSTANCE EventLog WITH closed <- owner_pc = "closed"

\* The recorder is a log copied to a file: order of acceptance, no event twice,
\* no gap before a later event whatever fails, and nothing missing when a
\* recorder without a fault closes.
ImplementsEventLog == EventLog!Spec

=============================================================================
