-------------------------- MODULE AsyncFileAppender ---------------------------
(***************************************************************************)
(* The asynchronous appender of fslog (AsyncFileAppender.cc): output()     *)
(* appends a line to logQueue_ under queueMutex_; a worker thread swaps    *)
(* the queue for an empty one and writes what it holds, until stop()       *)
(* clears asyncRunning_ and joins it, whereupon it empties the queue once  *)
(* more.  The worker calls logQueue_.reserve() without the mutex.          *)
(*                                                                         *)
(* Lines are numbered in the order in which output() locks queueMutex_;    *)
(* which thread logs a line makes no difference here.  The first MaxMsgs   *)
(* are followed one by one; of those behind them, which never end, only    *)
(* the number is kept that is in each place.                               *)
(***************************************************************************)
EXTENDS Integers, Sequences

CONSTANTS
    Faults,             \* the faults that may happen
    LineSize,           \* the bytes of a line
    MaxMsgs, MaxStarts, \* bounds of the model: the lines followed, the calls of start()
    MaxMore             \* and the lines behind them that wait in logQueue_

FaultKinds == {"write", "thread"}

ASSUME FaultsAssumption == Faults \subseteq FaultKinds
ASSUME BoundsAssumption == {MaxMsgs, MaxStarts, MaxMore} \subseteq Nat
ASSUME LineAssumption == LineSize \in Nat \ {0}

Msgs == 1..MaxMsgs
Bytes == 1..LineSize
Pieces == [line : Msgs, from : Bytes, to : Bytes]

VARIABLES
    accepted,   \* the number of calls of output() so far, up to MaxMsgs
    queue,      \* logQueue_
    running,    \* asyncRunning_
    joining,    \* stop() holds runMutex_ and joins the worker
    worker,     \* what the worker does next, "none" without a thread
    snapshot,   \* what reserve() has copied of logQueue_
    batch,      \* the part of tmpQueue still to be written
    file,       \* the lines written, in order
    failed,     \* the lines whose write() failed
    pieces,     \* what each write() has put into the file: bytes of a line
    sent,       \* how many bytes of the line that is being written are there
    vanished,   \* the lines that fell out of logQueue_ during reserve()
    moreQueued, moreCopied, moreTaken,  \* the lines not followed: in logQueue_, behind
                \* snapshot, and in tmpQueue
    asked,      \* accepted when stop() was last called
    mark,       \* accepted when stop() last found asyncRunning_ set
    starts,     \* the calls of start() so far
    aborted     \* the process has crashed

more == <<moreQueued, moreCopied, moreTaken>>
queues == <<queue, snapshot, batch, more>>
content == <<pieces, sent>>
outcome == <<file, failed, vanished, content>>
control == <<running, joining, asked, mark, starts>>
vars == <<accepted, queues, outcome, control, worker, aborted>>

WorkerSteps == {"none", "loop", "reserve", "install", "swap", "write", "dump", "drain", "exit"}

Elems(s) == {s[k] : k \in DOMAIN s}
Settled == Elems(file) \cup failed \cup vanished

Init ==
    /\ accepted = 0 /\ queue = <<>> /\ snapshot = <<>> /\ batch = <<>>
    /\ file = <<>> /\ failed = {} /\ vanished = {} /\ pieces = <<>> /\ sent = 0
    /\ moreQueued = 0 /\ moreCopied = 0 /\ moreTaken = 0
    /\ running = FALSE /\ joining = FALSE /\ asked = 0 /\ mark = 0 /\ starts = 0
    /\ worker = "none" /\ aborted = FALSE

(* output(): the critical section of queueMutex_.  It excludes the worker's
   swaps but not its reserve(). *)
Push ==
    /\ accepted < MaxMsgs
    /\ accepted' = accepted + 1
    /\ queue' = Append(queue, accepted + 1)
    /\ UNCHANGED <<snapshot, batch, more, outcome, control, worker, aborted>>

(* The same of a line that is not followed. *)
PushMore ==
    /\ accepted = MaxMsgs
    /\ moreQueued < MaxMore /\ moreQueued' = moreQueued + 1
    /\ UNCHANGED <<accepted, queue, snapshot, batch, moreCopied, moreTaken, outcome, control,
                   worker, aborted>>

-----------------------------------------------------------------------------
(* start() and stop(), which exclude each other with runMutex_. *)

\* Faulty variant: start() does not wait for the stop() in progress.
StartDuringStop ==
    /\ ~running
    /\ starts < MaxStarts /\ starts' = starts + 1
    /\ running' = TRUE
    /\ \/ worker' = "loop"
       \/ "thread" \in Faults /\ UNCHANGED worker
    /\ UNCHANGED <<accepted, queues, outcome, joining, asked, mark, aborted>>

(* The constructor of boost::thread throws when no thread can be created, and
   the exception leaves start() with asyncRunning_ set. *)
Start ==
    /\ ~joining /\ ~running
    /\ starts < MaxStarts /\ starts' = starts + 1
    /\ running' = TRUE
    /\ \/ worker' = "loop"
       \/ "thread" \in Faults /\ UNCHANGED worker
    /\ UNCHANGED <<accepted, queues, outcome, joining, asked, mark, aborted>>

(* Without a thread there is nothing to join, and dereferencing thread_ ends
   the process. *)
StopBegins ==
    /\ ~joining /\ running
    /\ running' = FALSE /\ asked' = accepted
    /\ \/ /\ worker # "none"
          /\ joining' = TRUE /\ mark' = accepted
          /\ UNCHANGED aborted
       \/ /\ worker = "none"
          /\ aborted' = TRUE
          /\ UNCHANGED <<joining, mark>>
    /\ UNCHANGED <<accepted, queues, outcome, starts, worker>>

(* A stop() that finds asyncRunning_ cleared already returns at once. *)
StopFindsNone ==
    /\ ~joining /\ ~running
    /\ asked' = accepted
    /\ UNCHANGED <<accepted, queues, outcome, running, joining, mark, starts, worker, aborted>>

StopReturns ==
    /\ joining /\ worker = "exit"
    /\ joining' = FALSE
    /\ worker' = "none"
    /\ UNCHANGED <<accepted, queues, outcome, running, asked, mark, starts, aborted>>

-----------------------------------------------------------------------------
(* threadFunc() *)

Goto(from, to) == worker = from /\ worker' = to

\* Faulty variant: the cleanup handler is not run when the loop ends.
LoopTestWithoutDump ==
    /\ \/ running /\ Goto("loop", "reserve")
       \/ ~running /\ Goto("loop", "exit")
    /\ UNCHANGED <<accepted, queues, outcome, control, aborted>>

LoopTest ==
    /\ \/ running /\ Goto("loop", "reserve")
       \/ ~running /\ Goto("loop", "dump")
    /\ UNCHANGED <<accepted, queues, outcome, control, aborted>>

(* logQueue_.reserve(5120000) always reallocates, since every swap leaves a
   vector without capacity: it copies the elements to a new block ... *)
ReserveCopies ==
    /\ Goto("reserve", "install")
    /\ snapshot' = queue /\ moreCopied' = moreQueued
    /\ UNCHANGED <<accepted, queue, batch, moreQueued, moreTaken, outcome, control, aborted>>

(* ... and installs the block.  What output() pushed in between is lost with
   the old block, or the two corrupt the heap and the process ends. *)
ReserveInstalls ==
    /\ Goto("install", "swap")
    /\ \/ /\ queue' = snapshot /\ moreQueued' = moreCopied
          /\ vanished' = vanished \cup (Elems(queue) \ Elems(snapshot))
          /\ UNCHANGED aborted
       \/ /\ <<queue, moreQueued>> # <<snapshot, moreCopied>>
          /\ aborted' = TRUE
          /\ UNCHANGED <<queue, moreQueued, vanished>>
    /\ snapshot' = <<>> /\ moreCopied' = 0
    /\ UNCHANGED <<accepted, batch, moreTaken, file, failed, content, control>>

\* Faulty variant: the queue is copied instead of swapped.
TakeQueueCopying(from, to) ==
    /\ Goto(from, to)
    /\ batch' = queue /\ moreTaken' = moreQueued
    /\ UNCHANGED <<accepted, queue, snapshot, moreQueued, moreCopied, outcome, control, aborted>>

(* tmpQueue.swap(logQueue_) under queueMutex_, tmpQueue being empty. *)
TakeQueue(from, to) ==
    /\ Goto(from, to)
    /\ batch' = queue /\ moreTaken' = moreQueued
    /\ queue' = <<>> /\ moreQueued' = 0
    /\ UNCHANGED <<accepted, snapshot, moreCopied, outcome, control, aborted>>

Swap == TakeQueue("swap", "write")
Dump == TakeQueue("dump", "drain")

(* outputWithoutLock(): a write() puts the next bytes of a line into the file. *)
Put(m, to) == pieces' = Append(pieces, [line |-> m, from |-> sent + 1, to |-> to])

(* A write() that writes some of the bytes that are left: the loop goes on. *)
WriteShort ==
    /\ worker \in {"write", "drain"} /\ batch # <<>>
    /\ \E n \in sent + 1 .. LineSize - 1 : Put(Head(batch), n) /\ sent' = n
    /\ UNCHANGED <<accepted, queues, file, failed, vanished, control, worker, aborted>>

\* Faulty variant: the batch is written from its end.
WriteLastItem ==
    /\ worker \in {"write", "drain"} /\ batch # <<>>
    /\ batch' = SubSeq(batch, 1, Len(batch) - 1) /\ sent' = 0
    /\ \/ file' = Append(file, batch[Len(batch)]) /\ Put(batch[Len(batch)], LineSize) /\ UNCHANGED failed
       \/ "write" \in Faults /\ failed' = failed \cup {batch[Len(batch)]} /\ UNCHANGED <<file, pieces>>
    /\ UNCHANGED <<accepted, queue, snapshot, more, vanished, control, worker, aborted>>

\* Faulty variant: a failed write ends the batch.
WriteItemGivingUp ==
    /\ worker \in {"write", "drain"} /\ batch # <<>>
    /\ sent' = 0
    /\ \/ /\ file' = Append(file, Head(batch)) /\ Put(Head(batch), LineSize)
          /\ batch' = Tail(batch)
          /\ UNCHANGED failed
       \/ /\ "write" \in Faults
          /\ failed' = failed \cup {Head(batch)}
          /\ batch' = <<>>
          /\ UNCHANGED <<file, pieces>>
    /\ UNCHANGED <<accepted, queue, snapshot, more, vanished, control, worker, aborted>>

\* Faulty variant: after a short write the line is written from its beginning.
WriteItemAgain ==
    /\ worker \in {"write", "drain"} /\ batch # <<>>
    /\ batch' = Tail(batch) /\ sent' = 0
    /\ file' = Append(file, Head(batch))
    /\ pieces' = Append(pieces, [line |-> Head(batch), from |-> 1, to |-> LineSize])
    /\ UNCHANGED <<accepted, queue, snapshot, more, failed, vanished, control, worker, aborted>>

(* inThreadOutput() of the next item ends: a write() writes all that is left, or one
   fails and the rest is given up; the item is freed either way. *)
WriteItem ==
    /\ worker \in {"write", "drain"} /\ batch # <<>>
    /\ batch' = Tail(batch) /\ sent' = 0
    /\ \/ file' = Append(file, Head(batch)) /\ Put(Head(batch), LineSize) /\ UNCHANGED failed
       \/ "write" \in Faults /\ failed' = failed \cup {Head(batch)} /\ UNCHANGED <<file, pieces>>
    /\ UNCHANGED <<accepted, queue, snapshot, more, vanished, control, worker, aborted>>

(* The lines that are not followed are behind the others. *)
WriteMore ==
    /\ worker \in {"write", "drain"} /\ batch = <<>>
    /\ moreTaken > 0 /\ moreTaken' = moreTaken - 1
    /\ UNCHANGED <<accepted, queue, snapshot, batch, moreQueued, moreCopied, outcome, control,
                   worker, aborted>>

\* Faulty variant: dumpQueue() goes on until it finds the queue empty.
BatchDoneWhenEmpty ==
    /\ batch = <<>> /\ moreTaken = 0
    /\ \/ Goto("write", "loop")
       \/ queue = <<>> /\ moreQueued = 0 /\ Goto("drain", "exit")
       \/ (queue # <<>> \/ moreQueued > 0) /\ Goto("drain", "dump")
    /\ UNCHANGED <<accepted, queues, outcome, control, aborted>>

BatchDone ==
    /\ batch = <<>> /\ moreTaken = 0
    /\ Goto("write", "loop") \/ Goto("drain", "exit")
    /\ UNCHANGED <<accepted, queues, outcome, control, aborted>>

WorkerStep ==
    \/ LoopTest \/ ReserveCopies \/ ReserveInstalls \/ Swap \/ Dump
    \/ WriteShort \/ WriteItem \/ WriteMore \/ BatchDone

Next ==
    /\ ~aborted
    /\ \/ Push \/ PushMore
       \/ Start \/ StopBegins \/ StopFindsNone \/ StopReturns
       \/ WorkerStep

Spec == Init /\ [][Next]_vars

(* The worker is scheduled and a join returns when the worker has ended.
   Nothing obliges the program to log, to start or to stop. *)
FairSpec ==
    /\ Spec
    /\ WF_vars(~aborted /\ WorkerStep)
    /\ WF_vars(~aborted /\ StopReturns)

-----------------------------------------------------------------------------
(* What the appender guarantees. *)

(* Every variable has its type; a stop() in progress has cleared asyncRunning_
   and has a worker to join. *)
TypeOK ==
    /\ accepted \in 0..MaxMsgs
    /\ queue \in Seq(Msgs) /\ snapshot \in Seq(Msgs) /\ batch \in Seq(Msgs)
    /\ file \in Seq(Msgs) /\ failed \subseteq Msgs /\ vanished \subseteq Msgs
    /\ pieces \in Seq(Pieces) /\ sent \in 0..LineSize - 1
    /\ running \in BOOLEAN /\ joining \in BOOLEAN /\ aborted \in BOOLEAN
    /\ {moreQueued, moreCopied, moreTaken} \subseteq 0..MaxMore
    /\ asked \in 0..accepted /\ mark \in 0..asked /\ starts \in 0..MaxStarts
    /\ worker \in WorkerSteps
    /\ joining => ~running /\ worker # "none"

Increasing(s) == \A j, k \in DOMAIN s : j < k => s[j] < s[k]
Precedes(s, u) == \A m \in Elems(s), n \in Elems(u) : m < n
Waiting == Elems(queue) \cup Elems(batch)

(* Every line is in exactly one place, and lines never overtake one another: no
   line is written twice, dropped or duplicated by a swap, or both written and
   reported as failed. *)
Conserved ==
    /\ Waiting \cup Settled = 1..accepted
    /\ Waiting \cap Settled = {}
    /\ Elems(file) \cap (failed \cup vanished) = {} /\ failed \cap vanished = {}
    /\ Increasing(file) /\ Increasing(batch) /\ Increasing(queue)
    /\ Precedes(file, batch) /\ Precedes(file, queue) /\ Precedes(batch, queue)

Ended(p) == p.to = LineSize \/ p.line \in failed

(* What the writes have put into the file are lines: a line begins where another has
   ended or was given up, its bytes follow each other, and a line that counts
   as written is there to its end. *)
LinesAreWhole ==
    /\ \A i \in DOMAIN pieces :
         IF pieces[i].from = 1 THEN i > 1 => Ended(pieces[i - 1])
         ELSE /\ i > 1
              /\ pieces[i - 1].line = pieces[i].line
              /\ pieces[i - 1].to + 1 = pieces[i].from
    /\ \A m \in Elems(file) : \E i \in DOMAIN pieces : pieces[i].line = m /\ pieces[i].to = LineSize

(* When a stop() has returned, every line accepted before it was called has been given
   to write(), or had fallen victim to reserve() - or it was logged when the appender
   had been stopped: that stop() left it in logQueue_ for the worker of the next
   start(), not in a batch that nobody writes. *)
DrainedWhenStopped ==
    ~joining /\ ~aborted =>
        \A m \in 1..asked : m \in Settled \/ (m > mark /\ (running \/ m \in Elems(queue)))

(* stop() returns: the worker notices, empties the queue once and ends, although
   logging goes on for ever. *)
StopEnds == joining ~> ~joining \/ aborted

(* A line in the queue of a running worker is written in the end, a stop()
   notwithstanding. *)
QueuedIsSettled ==
    \A m \in Msgs :
        running /\ worker # "none" /\ m \in Elems(queue) ~> m \in Settled \/ aborted

(* The appender is an ordered sink for its lines. *)
Sink == INSTANCE OrderedSink WITH delivered <- file, lost <- failed \cup vanished
SinkSpec == Sink!Spec

(* What AsyncFileAppender.cc:91 sets out to do: at exit all lines are written.
   The unlocked reserve() breaks it. *)
AllWrittenWhenStopped ==
    ~joining /\ ~aborted => \A m \in 1..mark : m \in Elems(file) \cup failed
===============================================================================
