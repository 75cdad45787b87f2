----------------------- MODULE AsyncFileAppenderProofs ------------------------
(***************************************************************************)
(* TLAPS proofs about AsyncFileAppender, for any number of lines and any   *)
(* number of starts and stops: the type invariant, that every line is in   *)
(* exactly one place and none overtakes another, that stop() returns with  *)
(* an empty backlog, and that the appender implements OrderedSink.         *)
(***************************************************************************)
EXTENDS AsyncFileAppender, TLAPS

(* What the operations on sequences do to the elements and to their order. *)

LEMMA EmptyIsSeq == <<>> \in Seq(Msgs)
  OBVIOUS

LEMMA ElemsOfEmpty == Elems(<<>>) = {}
  BY DEF Elems

LEMMA ElemsOfAppend ==
    ASSUME NEW S, NEW s \in Seq(S), NEW x \in S
    PROVE  Elems(Append(s, x)) = Elems(s) \cup {x}
  <1>1. /\ DOMAIN Append(s, x) = 1..(Len(s) + 1) /\ DOMAIN s = 1..Len(s) /\ Len(s) \in Nat
        /\ Append(s, x)[Len(s) + 1] = x
        /\ \A k \in 1..Len(s) : Append(s, x)[k] = s[k]
    OBVIOUS
  <1>2. 1..(Len(s) + 1) = 1..Len(s) \cup {Len(s) + 1}
    BY <1>1
  <1>3. QED BY <1>1, <1>2 DEF Elems

LEMMA ElemsOfTail ==
    ASSUME NEW S, NEW s \in Seq(S), s # <<>>
    PROVE  Elems(s) = {Head(s)} \cup Elems(Tail(s)) /\ Head(s) \in S /\ Tail(s) \in Seq(S)
  <1>1. /\ Len(s) \in Nat \ {0} /\ DOMAIN s = 1..Len(s) /\ Head(s) = s[1]
        /\ Tail(s) \in Seq(S) /\ DOMAIN Tail(s) = 1..(Len(s) - 1)
        /\ \A k \in 1..(Len(s) - 1) : Tail(s)[k] = s[k + 1]
    OBVIOUS
  <1>2. ASSUME NEW k \in 2..Len(s) PROVE s[k] \in Elems(Tail(s))
    <2>1. k - 1 \in 1..(Len(s) - 1) /\ Tail(s)[k - 1] = s[k]
      BY <1>1
    <2>2. QED BY <1>1, <2>1 DEF Elems
  <1>3. \A k \in DOMAIN s : k = 1 \/ k \in 2..Len(s)
    BY <1>1
  <1>4. Elems(s) \subseteq {Head(s)} \cup Elems(Tail(s))
    BY <1>1, <1>2, <1>3 DEF Elems
  <1>5. {Head(s)} \cup Elems(Tail(s)) \subseteq Elems(s)
    BY <1>1 DEF Elems
  <1>6. QED BY <1>1, <1>4, <1>5

LEMMA IncreasingAppend ==
    ASSUME NEW S, S \subseteq Int, NEW s \in Seq(S), NEW x \in S,
           Increasing(s), \A m \in Elems(s) : m < x
    PROVE  Increasing(Append(s, x))
  <1>1. /\ DOMAIN Append(s, x) = 1..(Len(s) + 1) /\ DOMAIN s = 1..Len(s) /\ Len(s) \in Nat
        /\ Append(s, x)[Len(s) + 1] = x
        /\ \A k \in 1..Len(s) : Append(s, x)[k] = s[k]
    OBVIOUS
  <1>2. \A k \in 1..Len(s) : s[k] < x
    BY <1>1 DEF Elems
  <1>3. ASSUME NEW j \in 1..(Len(s) + 1), NEW k \in 1..(Len(s) + 1), j < k
        PROVE  Append(s, x)[j] < Append(s, x)[k]
    <2>1. j \in 1..Len(s) /\ Append(s, x)[j] = s[j]
      BY <1>1, <1>3
    <2>2. CASE k \in 1..Len(s)
      BY <1>1, <1>3, <2>1, <2>2 DEF Increasing
    <2>3. CASE k = Len(s) + 1
      BY <1>1, <1>2, <2>1, <2>3
    <2>4. QED BY <1>1, <2>2, <2>3
  <1>4. QED BY <1>1, <1>3 DEF Increasing

LEMMA IncreasingTail ==
    ASSUME NEW S, S \subseteq Int, NEW s \in Seq(S), s # <<>>, Increasing(s)
    PROVE  Increasing(Tail(s)) /\ \A m \in Elems(Tail(s)) : Head(s) < m
  <1>1. /\ Len(s) \in Nat \ {0} /\ DOMAIN s = 1..Len(s) /\ Head(s) = s[1]
        /\ DOMAIN Tail(s) = 1..(Len(s) - 1)
        /\ \A k \in 1..(Len(s) - 1) : Tail(s)[k] = s[k + 1]
    OBVIOUS
  <1>2. ASSUME NEW j \in 1..(Len(s) - 1), NEW k \in 1..(Len(s) - 1), j < k
        PROVE  Tail(s)[j] < Tail(s)[k]
    <2>1. j + 1 \in 1..Len(s) /\ k + 1 \in 1..Len(s) /\ j + 1 < k + 1
      BY <1>1, <1>2
    <2>2. QED BY <1>1, <2>1 DEF Increasing
  <1>3. ASSUME NEW k \in 1..(Len(s) - 1) PROVE Head(s) < Tail(s)[k]
    <2>1. 1 \in 1..Len(s) /\ k + 1 \in 1..Len(s) /\ 1 < k + 1
      BY <1>1
    <2>2. QED BY <1>1, <2>1 DEF Increasing
  <1>4. QED BY <1>1, <1>2, <1>3 DEF Increasing, Elems

LEMMA ElemsInType ==
    ASSUME NEW S, NEW s \in Seq(S)
    PROVE  Elems(s) \subseteq S
  BY DEF Elems

-----------------------------------------------------------------------------
(* Type correctness, with the worker's place in the life of the appender. *)

LEMMA BoundsAreNat == MaxMsgs \in Nat /\ MaxStarts \in Nat /\ MaxMore \in Nat
  BY BoundsAssumption

LEMMA InitType == Init => TypeOK
  <1> SUFFICES ASSUME Init PROVE TypeOK
    OBVIOUS
  <1> USE DEF Init
  <1>1. /\ accepted \in 0..MaxMsgs /\ asked \in 0..accepted /\ mark \in 0..asked
        /\ starts \in 0..MaxStarts /\ {moreQueued, moreCopied, moreTaken} \subseteq 0..MaxMore
    BY BoundsAreNat
  <1>2. /\ queue \in Seq(Msgs) /\ snapshot \in Seq(Msgs) /\ batch \in Seq(Msgs)
        /\ file \in Seq(Msgs) /\ failed \subseteq Msgs /\ vanished \subseteq Msgs
        /\ worker \in WorkerSteps
    BY EmptyIsSeq DEF WorkerSteps
  <1>3. /\ running \in BOOLEAN /\ joining \in BOOLEAN /\ aborted \in BOOLEAN
        /\ joining => ~running /\ worker # "none"
    BY Zenon
  <1>4. pieces \in Seq(Pieces) /\ sent \in 0..LineSize - 1
    BY LineAssumption
  <1>5. QED BY <1>1, <1>2, <1>3, <1>4 DEF TypeOK

LEMMA PutType ==
    ASSUME NEW m \in Msgs, NEW to \in Bytes, sent \in 0..LineSize - 1, sent < to,
           pieces \in Seq(Pieces), Put(m, to)
    PROVE  pieces' \in Seq(Pieces)
  <1>1. sent + 1 \in Bytes
    BY LineAssumption DEF Bytes
  <1>2. [line |-> m, from |-> sent + 1, to |-> to] \in Pieces
    BY <1>1 DEF Pieces
  <1>3. QED BY <1>2 DEF Put

LEMMA NextType == TypeOK /\ [Next]_vars => TypeOK'
  <1> SUFFICES ASSUME TypeOK, [Next]_vars PROVE TypeOK'
    OBVIOUS
  <1> USE BoundsAreNat, EmptyIsSeq DEF TypeOK, WorkerSteps, queues, more, outcome, content, control
  <1>1. CASE Push
    <2>1. /\ accepted + 1 \in Msgs /\ accepted' \in 0..MaxMsgs
          /\ asked' \in 0..accepted' /\ mark' \in 0..asked'
      BY <1>1 DEF Push, Msgs
    <2>2. queue' \in Seq(Msgs)
      BY <1>1, <2>1 DEF Push
    <2>3. QED BY <1>1, <2>1, <2>2 DEF Push
  <1>2. CASE Start
    BY <1>2 DEF Start
  <1>3. CASE StopBegins
    <2>1. asked' \in 0..accepted' /\ mark' \in 0..asked'
      BY <1>3 DEF StopBegins
    <2>2. /\ accepted' = accepted /\ queue' = queue /\ snapshot' = snapshot /\ more' = more
          /\ batch' = batch /\ file' = file /\ failed' = failed /\ vanished' = vanished
          /\ starts' = starts /\ worker' = worker /\ pieces' = pieces /\ sent' = sent
      BY <1>3 DEF StopBegins
    <2>3. /\ ~running' /\ running' \in BOOLEAN
          /\ \/ joining' = TRUE /\ worker # "none" /\ aborted' = aborted
             \/ joining' = joining /\ ~joining /\ aborted' = TRUE
      BY <1>3, Zenon DEF StopBegins
    <2>4. /\ joining' \in BOOLEAN /\ aborted' \in BOOLEAN
          /\ joining' => ~running' /\ worker' # "none"
      <3>1. joining \in BOOLEAN /\ aborted \in BOOLEAN
        OBVIOUS
      <3>2. CASE joining' = TRUE /\ worker # "none" /\ aborted' = aborted
        BY ONLY <2>2, <2>3, <3>1, <3>2
      <3>3. CASE joining' = joining /\ ~joining /\ aborted' = TRUE
        BY ONLY <2>3, <3>1, <3>3
      <3>4. QED BY <2>3, <3>2, <3>3
    <2>5. QED BY <2>1, <2>2, <2>3, <2>4, Zenon
  <1>4. CASE StopReturns
    BY <1>4 DEF StopReturns
  <1>5. CASE LoopTest
    BY <1>5 DEF LoopTest, Goto
  <1>6. CASE ReserveCopies
    BY <1>6 DEF ReserveCopies, Goto
  <1>7. CASE ReserveInstalls
    <2>1. vanished' \subseteq Msgs
      BY <1>7, ElemsInType DEF ReserveInstalls
    <2>2. /\ queue' \in Seq(Msgs) /\ snapshot' \in Seq(Msgs) /\ worker' \in WorkerSteps
          /\ UNCHANGED <<accepted, batch, file, failed, content, control>>
      BY <1>7 DEF ReserveInstalls, Goto
    <2>3. {moreQueued, moreCopied, moreTaken}' \subseteq 0..MaxMore
      BY <1>7 DEF ReserveInstalls
    <2>4. aborted' \in BOOLEAN /\ (joining' => ~running' /\ worker' # "none")
      <3>1. joining' = joining /\ running' = running /\ worker' = "swap"
        BY <1>7 DEF ReserveInstalls, Goto
      <3>2. aborted' = aborted \/ aborted' = TRUE
        BY <1>7 DEF ReserveInstalls
      <3>3. QED BY <3>1, <3>2, Zenon
    <2>5. QED BY <2>1, <2>2, <2>3, <2>4
  <1>8. CASE Swap \/ Dump
    <2>1. queue' \in Seq(Msgs) /\ batch' \in Seq(Msgs) /\ worker' \in WorkerSteps \ {"none"}
      BY <1>8 DEF Swap, Dump, TakeQueue, Goto
    <2>2. /\ UNCHANGED <<accepted, snapshot, file, failed, vanished, content, control, aborted>>
          /\ {moreQueued, moreCopied, moreTaken}' \subseteq 0..MaxMore
      BY <1>8 DEF Swap, Dump, TakeQueue
    <2>3. QED BY <2>1, <2>2
  <1>9. CASE WriteItem
    <2>1. Head(batch) \in Msgs /\ Tail(batch) \in Seq(Msgs)
      BY <1>9, ElemsOfTail DEF WriteItem
    <2>2. Append(file, Head(batch)) \in Seq(Msgs) /\ failed \cup {Head(batch)} \subseteq Msgs
      BY <2>1
    <2>3. file' \in Seq(Msgs) /\ batch' \in Seq(Msgs) /\ failed' \subseteq Msgs
      BY <1>9, <2>1, <2>2, Zenon DEF WriteItem
    <2>4. pieces' \in Seq(Pieces) /\ sent' \in 0..LineSize - 1
      <3>1. sent < LineSize /\ LineSize \in Bytes /\ sent' = 0
        BY <1>9, LineAssumption DEF WriteItem, Bytes
      <3>2. Put(Head(batch), LineSize) => pieces' \in Seq(Pieces)
        BY <2>1, <3>1, PutType
      <3>3. QED BY <1>9, <3>1, <3>2, LineAssumption DEF WriteItem
    <2>5. /\ accepted' = accepted /\ queue' = queue /\ snapshot' = snapshot
          /\ vanished' = vanished /\ worker' = worker /\ aborted' = aborted
          /\ more' = more
          /\ running' = running /\ joining' = joining /\ asked' = asked /\ mark' = mark /\ starts' = starts
      BY <1>9 DEF WriteItem
    <2>6. QED BY <2>3, <2>4, <2>5
  <1>10. CASE BatchDone
    BY <1>10 DEF BatchDone, Goto
  <1>11. CASE UNCHANGED vars
    BY <1>11 DEF vars
  <1>12. CASE WriteShort
    <2>1. PICK n \in sent + 1 .. LineSize - 1 : Put(Head(batch), n) /\ sent' = n
      BY <1>12 DEF WriteShort
    <2>2. n \in Bytes /\ sent < n /\ n \in 0..LineSize - 1
      BY LineAssumption DEF Bytes
    <2>3. Head(batch) \in Msgs
      BY <1>12, ElemsOfTail DEF WriteShort
    <2>4. pieces' \in Seq(Pieces) /\ sent' \in 0..LineSize - 1
      BY <2>1, <2>2, <2>3, PutType
    <2>5. /\ accepted' = accepted /\ queue' = queue /\ snapshot' = snapshot /\ batch' = batch
          /\ file' = file /\ failed' = failed
          /\ vanished' = vanished /\ worker' = worker /\ aborted' = aborted
          /\ more' = more
          /\ running' = running /\ joining' = joining /\ asked' = asked /\ mark' = mark /\ starts' = starts
      BY <1>12 DEF WriteShort
    <2>6. QED BY <2>4, <2>5
  <1>13. CASE PushMore
    BY <1>13 DEF PushMore
  <1>14. CASE StopFindsNone
    BY <1>14 DEF StopFindsNone
  <1>15. CASE WriteMore
    BY <1>15 DEF WriteMore
  <1>16. QED
    BY <1>1, <1>2, <1>3, <1>4, <1>5, <1>6, <1>7, <1>8, <1>9, <1>10, <1>11, <1>12, <1>13, <1>14,
       <1>15
    DEF Next, WorkerStep

(* Every variable keeps its type. *)
THEOREM TypeCorrect == Spec => []TypeOK
  BY InitType, NextType, PTL DEF Spec

-----------------------------------------------------------------------------
(* The life of the worker: it runs for asyncRunning_ or for a stop() that joins
   it, and it empties the queue a last time only for a stop(). *)

Owned ==
    /\ worker # "none" => running \/ joining
    /\ worker \in {"dump", "drain", "exit"} => joining

LInv == TypeOK /\ Owned

LEMMA InitLInv == Init => LInv
  BY InitType DEF Init, LInv, Owned

LEMMA NextLInv == LInv /\ [Next]_vars => LInv'
  <1> SUFFICES ASSUME LInv, [Next]_vars PROVE Owned'
    BY NextType DEF LInv
  <1> USE DEF LInv, Owned, control
  <1>1. CASE Push \/ PushMore
    BY <1>1 DEF Push, PushMore
  <1>2. CASE Start
    BY <1>2 DEF Start
  <1>3. CASE StopBegins \/ StopFindsNone
    BY <1>3 DEF StopBegins, StopFindsNone
  <1>4. CASE StopReturns
    BY <1>4 DEF StopReturns
  <1>5. CASE LoopTest
    BY <1>5 DEF LoopTest, Goto
  <1>6. CASE ReserveCopies \/ ReserveInstalls
    BY <1>6 DEF ReserveCopies, ReserveInstalls, Goto
  <1>7. CASE Swap \/ Dump
    BY <1>7 DEF Swap, Dump, TakeQueue, Goto
  <1>8. CASE WriteShort \/ WriteItem \/ WriteMore \/ BatchDone
    BY <1>8 DEF WriteShort, WriteItem, WriteMore, BatchDone, Goto
  <1>9. CASE UNCHANGED vars
    BY <1>9 DEF vars
  <1>10. QED
    BY <1>1, <1>2, <1>3, <1>4, <1>5, <1>6, <1>7, <1>8, <1>9 DEF Next, WorkerStep

-----------------------------------------------------------------------------
(* Every line is in one place.  Conserved becomes inductive with what the worker
   holds: between the two halves of reserve() a part of the queue, and nothing
   in tmpQueue except while it writes. *)

SnapshotOfQueue ==
    worker = "install" => Elems(snapshot) \subseteq Elems(queue) /\ Increasing(snapshot)

BatchOnlyWhileWriting == worker \notin {"write", "drain"} => batch = <<>>

CInv == TypeOK /\ Conserved /\ SnapshotOfQueue /\ BatchOnlyWhileWriting

LEMMA InitCInv == Init => CInv
  <1> SUFFICES ASSUME Init PROVE CInv
    OBVIOUS
  <1>1. Increasing(<<>>)
    BY DEF Increasing
  <1>2. /\ accepted = 0 /\ queue = <<>> /\ batch = <<>> /\ file = <<>>
        /\ failed = {} /\ vanished = {} /\ worker = "none"
    BY DEF Init
  <1>3. Conserved
    BY <1>1, <1>2, ElemsOfEmpty DEF Conserved, Waiting, Settled, Precedes
  <1>4. QED
    BY <1>2, <1>3, InitType DEF CInv, SnapshotOfQueue, BatchOnlyWhileWriting

LEMMA MsgsAreNumbers == Msgs \subseteq Int
  BY DEF Msgs

LEMMA PushCInv ==
    ASSUME CInv, TypeOK', Push
    PROVE  CInv'
  <1> DEFINE n == accepted + 1
  <1>1. /\ accepted \in Nat /\ accepted' = n /\ n \in Msgs /\ n \in Int
        /\ queue \in Seq(Msgs) /\ queue' = Append(queue, n)
        /\ snapshot' = snapshot /\ batch' = batch /\ worker' = worker
        /\ file' = file /\ failed' = failed /\ vanished' = vanished
    BY BoundsAreNat DEF CInv, TypeOK, Push, queues, outcome, Msgs
  <1>2. Elems(queue') = Elems(queue) \cup {n}
    BY <1>1, ElemsOfAppend
  <1>3. Waiting \cup Settled = 1..accepted /\ Waiting \cap Settled = {}
    BY DEF CInv, Conserved
  <1>4. \A m \in Waiting \cup Settled : m \in Int /\ m < n
    BY <1>1, <1>3
  <1>5. Increasing(queue')
    BY <1>1, <1>4, IncreasingAppend, MsgsAreNumbers DEF CInv, Conserved, Waiting
  <1>6. Waiting' = Waiting \cup {n} /\ Settled' = Settled /\ 1..accepted' = 1..accepted \cup {n}
    BY <1>1, <1>2 DEF Waiting, Settled
  <1>7. Precedes(file, queue)' /\ Precedes(batch, queue)'
    BY <1>1, <1>2, <1>4 DEF CInv, Conserved, Precedes, Waiting, Settled
  <1>8. Waiting' \cup Settled' = 1..accepted' /\ Waiting' \cap Settled' = {}
    BY <1>3, <1>4, <1>6
  <1>9. Conserved'
    BY <1>1, <1>5, <1>7, <1>8 DEF CInv, Conserved, Precedes
  <1>10. QED
    BY <1>1, <1>2, <1>9 DEF CInv, SnapshotOfQueue, BatchOnlyWhileWriting

LEMMA InstallCInv ==
    ASSUME CInv, TypeOK', ReserveInstalls
    PROVE  CInv'
  <1>1. /\ accepted' = accepted /\ batch' = batch /\ file' = file /\ failed' = failed
        /\ worker = "install" /\ worker' = "swap"
    BY DEF ReserveInstalls, Goto
  <1>2. CASE queue' = queue /\ vanished' = vanished
    BY <1>1, <1>2 DEF CInv, Conserved, Waiting, Settled, Precedes, SnapshotOfQueue,
                      BatchOnlyWhileWriting
  <1>3. CASE /\ queue' = snapshot
             /\ vanished' = vanished \cup (Elems(queue) \ Elems(snapshot))
    <2>1. Elems(snapshot) \subseteq Elems(queue) /\ Increasing(snapshot)
      BY <1>1 DEF CInv, SnapshotOfQueue
    <2>2. Conserved'
      BY <1>1, <1>3, <2>1 DEF CInv, Conserved, Waiting, Settled, Precedes
    <2>3. QED BY <1>1, <2>2 DEF CInv, SnapshotOfQueue, BatchOnlyWhileWriting
  <1>4. QED BY <1>2, <1>3 DEF ReserveInstalls

LEMMA TakeQueueCInv ==
    ASSUME CInv, TypeOK', Swap \/ Dump
    PROVE  CInv'
  <1>1. /\ accepted' = accepted /\ batch' = queue /\ queue' = <<>> /\ file' = file
        /\ failed' = failed /\ vanished' = vanished /\ batch = <<>>
        /\ worker' \in {"write", "drain"}
    BY DEF Swap, Dump, TakeQueue, Goto, outcome, CInv, BatchOnlyWhileWriting
  <1>2. Increasing(<<>>)
    BY DEF Increasing
  <1>3. Conserved'
    BY <1>1, <1>2, ElemsOfEmpty DEF CInv, Conserved, Waiting, Settled, Precedes
  <1>4. QED BY <1>1, <1>3 DEF CInv, SnapshotOfQueue, BatchOnlyWhileWriting

LEMMA WriteItemCInv ==
    ASSUME CInv, TypeOK', WriteItem
    PROVE  CInv'
  <1> DEFINE h == Head(batch)
  <1>1. /\ accepted' = accepted /\ batch' = Tail(batch) /\ queue' = queue
        /\ vanished' = vanished /\ worker' = worker /\ worker \in {"write", "drain"}
        /\ batch # <<>> /\ batch \in Seq(Msgs) /\ file \in Seq(Msgs)
    BY DEF WriteItem, CInv, TypeOK
  <1>2. Elems(batch) = {h} \cup Elems(batch') /\ h \in Msgs /\ h \in Int
    <2>1. Elems(batch) = {h} \cup Elems(Tail(batch)) /\ h \in Msgs
      BY <1>1, ElemsOfTail
    <2>2. QED BY <1>1, <2>1 DEF Msgs
  <1>3. Increasing(batch') /\ \A m \in Elems(batch') : h < m
    BY <1>1, IncreasingTail, MsgsAreNumbers DEF CInv, Conserved
  <1>4. h \notin Elems(batch') /\ h \notin Elems(queue)
    BY <1>1, <1>2, <1>3 DEF CInv, Conserved, Precedes
  <1>5. CASE file' = Append(file, h) /\ failed' = failed
    <2>1. Elems(file') = Elems(file) \cup {h}
      BY <1>1, <1>2, <1>5, ElemsOfAppend
    <2>2. Increasing(file')
      BY <1>1, <1>2, <1>5, IncreasingAppend, MsgsAreNumbers DEF CInv, Conserved, Precedes
    <2>3. Precedes(file, batch)' /\ Precedes(file, queue)' /\ Precedes(batch, queue)'
      BY <1>1, <1>2, <1>3, <2>1 DEF CInv, Conserved, Precedes
    <2>4. h \notin Settled /\ h \in 1..accepted
      BY <1>2 DEF CInv, Conserved, Waiting
    <2>5. Conserved'
      BY <1>1, <1>2, <1>3, <1>4, <1>5, <2>1, <2>2, <2>3, <2>4
      DEF CInv, Conserved, Waiting, Settled
    <2>6. QED BY <1>1, <2>5 DEF CInv, SnapshotOfQueue, BatchOnlyWhileWriting
  <1>6. CASE file' = file /\ failed' = failed \cup {h}
    <2>1. Precedes(file, batch)' /\ Precedes(file, queue)' /\ Precedes(batch, queue)'
      BY <1>1, <1>2, <1>6 DEF CInv, Conserved, Precedes
    <2>2. h \notin Settled /\ h \in 1..accepted
      BY <1>2 DEF CInv, Conserved, Waiting
    <2>3. Conserved'
      BY <1>1, <1>2, <1>3, <1>4, <1>6, <2>1, <2>2 DEF CInv, Conserved, Waiting, Settled
    <2>4. QED BY <1>1, <2>3 DEF CInv, SnapshotOfQueue, BatchOnlyWhileWriting
  <1>7. QED BY <1>5, <1>6 DEF WriteItem

(* The other steps move no line. *)
LEMMA NoLineMoves ==
    ASSUME CInv, TypeOK', UNCHANGED <<accepted, queue, batch, file, failed, vanished>>,
           SnapshotOfQueue', BatchOnlyWhileWriting'
    PROVE  CInv'
  BY DEF CInv, Conserved, Waiting, Settled, Precedes, Increasing, Elems

LEMMA NextCInv == LInv /\ CInv /\ [Next]_vars => CInv'
  <1> SUFFICES ASSUME LInv, CInv, [Next]_vars PROVE CInv'
    OBVIOUS
  <1>0. TypeOK'
    BY NextType DEF CInv
  <1> USE DEF SnapshotOfQueue, BatchOnlyWhileWriting, queues, outcome
  <1>1. CASE Push
    BY <1>0, <1>1, PushCInv
  <1>2. CASE Start \/ StopBegins \/ StopFindsNone \/ StopReturns
    <2>1. Start => worker = "none"
      BY DEF LInv, Owned, Start
    <2>2. /\ worker' = worker \/ (worker = "none" /\ worker' = "loop")
             \/ (worker = "exit" /\ worker' = "none")
          /\ UNCHANGED <<accepted, queues, outcome>>
      BY <1>2, <2>1 DEF Start, StopBegins, StopFindsNone, StopReturns
    <2>3. QED BY <1>0, <2>2, NoLineMoves DEF CInv
  <1>3. CASE LoopTest \/ BatchDone
    BY <1>0, <1>3, NoLineMoves DEF LoopTest, BatchDone, Goto, CInv
  <1>4. CASE ReserveCopies
    BY <1>0, <1>4, NoLineMoves DEF ReserveCopies, Goto, CInv, Conserved
  <1>5. CASE ReserveInstalls
    BY <1>0, <1>5, InstallCInv
  <1>6. CASE Swap \/ Dump
    BY <1>0, <1>6, TakeQueueCInv
  <1>7. CASE WriteItem
    BY <1>0, <1>7, WriteItemCInv
  <1>8. CASE PushMore \/ WriteShort \/ WriteMore \/ UNCHANGED vars
    BY <1>0, <1>8, NoLineMoves DEF PushMore, WriteShort, WriteMore, vars, CInv
  <1>9. QED
    BY <1>1, <1>2, <1>3, <1>4, <1>5, <1>6, <1>7, <1>8 DEF Next, WorkerStep

(* No line is written twice, none overtakes another, and none disappears
   without being accounted for. *)
THEOREM EveryLineInOnePlace == Spec => []Conserved
  <1>1. CInv => Conserved
    BY DEF CInv
  <1>2. QED BY InitLInv, NextLInv, InitCInv, NextCInv, <1>1, PTL DEF Spec

-----------------------------------------------------------------------------
(* stop() returns with an empty backlog: a line accepted before stop() waits only
   while stop() joins the worker, in the queue only until the last swap. *)

Backlog ==
    \A m \in Waiting :
        m <= mark => /\ joining /\ worker # "exit"
                     /\ worker = "drain" => m \notin Elems(queue)

DInv == LInv /\ CInv /\ Backlog

LEMMA InitDInv == Init => DInv
  BY InitLInv, InitCInv, ElemsOfEmpty DEF Init, DInv, Backlog, Waiting

(* Waiting lines may become fewer, and the worker move before its last swap. *)
LEMMA BacklogShrinks ==
    ASSUME DInv, Waiting' \subseteq Waiting, mark' = mark, joining' = joining,
           \/ worker' = worker /\ Elems(queue') \subseteq Elems(queue)
           \/ worker' \notin {"drain", "exit"}
    PROVE  Backlog'
  BY DEF DInv, Backlog, Waiting

LEMMA NextDInv == DInv /\ [Next]_vars => DInv'
  <1> SUFFICES ASSUME DInv, [Next]_vars PROVE Backlog'
    BY NextLInv, NextCInv DEF DInv
  <1>0. LInv /\ CInv /\ Conserved /\ TypeOK
    BY DEF DInv, CInv
  <1>1. CASE Push
    <2>1. /\ accepted \in Nat /\ mark \in Nat /\ mark <= accepted /\ queue \in Seq(Msgs)
          /\ accepted + 1 \in Msgs /\ queue' = Append(queue, accepted + 1)
          /\ batch' = batch /\ mark' = mark /\ joining' = joining /\ worker' = worker
      BY <1>0, <1>1, BoundsAreNat DEF Push, TypeOK, control, Msgs
    <2>2. Elems(queue') = Elems(queue) \cup {accepted + 1}
      BY <2>1, ElemsOfAppend
    <2>3. Waiting' = Waiting \cup {accepted + 1} /\ ~(accepted + 1 <= mark)
      BY <2>1, <2>2 DEF Waiting
    <2>4. QED BY <2>1, <2>2, <2>3 DEF DInv, Backlog
  <1>2. CASE Start
    BY <1>2 DEF Start, DInv, Backlog, Waiting, queues
  <1>3. CASE StopBegins
    <2>1. worker \notin {"drain", "exit"}
      BY <1>0, <1>3 DEF StopBegins, LInv, Owned
    <2>2. worker' = worker /\ queue' = queue /\ batch' = batch
      BY <1>3 DEF StopBegins, queues
    <2>3. CASE joining'
      BY <2>1, <2>2, <2>3 DEF Backlog
    <2>4. CASE ~joining'
      BY <1>3, <2>2, <2>4 DEF StopBegins, DInv, Backlog, Waiting
    <2>5. QED BY <2>3, <2>4
  <1>4. CASE StopReturns
    BY <1>4 DEF StopReturns, DInv, Backlog, Waiting, queues
  <1>5. CASE LoopTest \/ ReserveCopies
    BY <1>5, BacklogShrinks DEF LoopTest, ReserveCopies, Goto, Waiting, queues, control
  <1>6. CASE ReserveInstalls
    <2>1. Elems(snapshot) \subseteq Elems(queue)
      BY <1>0, <1>6 DEF CInv, SnapshotOfQueue, ReserveInstalls, Goto
    <2>2. QED
      BY <1>6, <2>1, BacklogShrinks DEF ReserveInstalls, Goto, Waiting, control
  <1>7. CASE Swap \/ Dump
    <2>1. /\ batch = <<>> /\ batch' = queue /\ queue' = <<>>
          /\ mark' = mark /\ joining' = joining /\ worker' # "exit"
      BY <1>0, <1>7 DEF CInv, BatchOnlyWhileWriting, Swap, Dump, TakeQueue, Goto, control
    <2>2. Waiting' = Waiting /\ Waiting' = Elems(batch')
      BY <2>1, ElemsOfEmpty DEF Waiting
    <2>3. QED BY <2>1, <2>2, ElemsOfEmpty DEF DInv, Backlog
  <1>8. CASE WriteItem
    <2>1. /\ batch # <<>> /\ batch \in Seq(Msgs) /\ batch' = Tail(batch) /\ queue' = queue
          /\ worker' = worker /\ mark' = mark /\ joining' = joining
      BY <1>0, <1>8 DEF WriteItem, TypeOK, control
    <2>2. Elems(batch) = {Head(batch)} \cup Elems(batch')
      BY <2>1, ElemsOfTail
    <2>3. Waiting' \subseteq Waiting
      BY <2>1, <2>2 DEF Waiting
    <2>4. QED BY <2>1, <2>3, BacklogShrinks
  <1>9. CASE BatchDone
    <2>1. batch = <<>> /\ UNCHANGED <<queue, batch, mark, joining>>
      BY <1>9 DEF BatchDone, queues, control
    <2>2. CASE worker = "drain"
      BY <2>1, <2>2, ElemsOfEmpty DEF DInv, Backlog, Waiting
    <2>3. CASE worker # "drain"
      BY <1>9, <2>1, <2>3, BacklogShrinks DEF BatchDone, Goto, Waiting
    <2>4. QED BY <2>2, <2>3
  <1>10. CASE PushMore \/ StopFindsNone \/ WriteShort \/ WriteMore \/ UNCHANGED vars
    BY <1>10, BacklogShrinks
    DEF PushMore, StopFindsNone, WriteShort, WriteMore, vars, queues, control, Waiting
  <1>11. QED
    BY <1>1, <1>2, <1>3, <1>4, <1>5, <1>6, <1>7, <1>8, <1>9, <1>10 DEF Next, WorkerStep

(* Once stop() has returned, every line accepted before it was called has met its fate,
   but for those that a stopped appender took: they are in logQueue_ for the worker of
   the next start(). *)
THEOREM StopDrains == Spec => []DrainedWhenStopped
  <1>1. DInv => DrainedWhenStopped
    <2> SUFFICES ASSUME DInv, ~joining, NEW m \in 1..asked, m \notin Settled
                 PROVE  m > mark /\ (running \/ m \in Elems(queue))
      BY DEF DrainedWhenStopped
    <2>1. m \in 1..accepted /\ m \in Int /\ mark \in Int
      BY BoundsAreNat DEF DInv, CInv, TypeOK
    <2>2. m \in Waiting
      BY <2>1 DEF DInv, CInv, Conserved
    <2>3. m > mark
      BY <2>1, <2>2 DEF DInv, Backlog
    <2>4. ASSUME ~running PROVE m \in Elems(queue)
      <3>1. batch = <<>>
        BY <2>4 DEF DInv, LInv, Owned, CInv, BatchOnlyWhileWriting
      <3>2. QED BY <2>2, <3>1, ElemsOfEmpty DEF Waiting
    <2>5. QED BY <2>3, <2>4
  <1>2. QED BY InitDInv, NextDInv, <1>1, PTL DEF Spec

-----------------------------------------------------------------------------
(* Refinement.  What OrderedSink calls pending is what waits in logQueue_ and
   tmpQueue, and the head of tmpQueue is the oldest of it. *)

LEMMA PendingIsWaiting == CInv => Sink!Pending = Waiting
  <1> SUFFICES ASSUME CInv PROVE Sink!Pending = Waiting
    OBVIOUS
  <1>1. Waiting \cup Settled = 1..accepted /\ Waiting \cap Settled = {}
    BY DEF CInv, Conserved
  <1>2. \A m : m \in Settled <=>
          m \in failed \cup vanished \/ \E k \in DOMAIN file : file[k] = m
    BY DEF Settled, Elems
  <1>3. QED BY <1>1, <1>2 DEF Sink!Pending

LEMMA InitSink == Init => Sink!Init
  BY DEF Init, Sink!Init

LEMMA NextSink == CInv /\ [Next]_vars => [Sink!Next]_Sink!svars
  <1> SUFFICES ASSUME CInv, [Next]_vars PROVE [Sink!Next]_Sink!svars
    OBVIOUS
  <1> USE DEF Sink!svars
  <1>0. Sink!Pending = Waiting
    BY PendingIsWaiting
  <1>1. CASE Push
    BY <1>1 DEF Push, outcome, Sink!Next, Sink!Accept
  <1>2. CASE ReserveInstalls
    <2>1. accepted' = accepted /\ file' = file /\ failed' = failed
      BY <1>2 DEF ReserveInstalls
    <2>2. CASE vanished' = vanished
      BY <2>1, <2>2
    <2>3. CASE vanished' = vanished \cup (Elems(queue) \ Elems(snapshot))
                 /\ vanished' # vanished
      <3> DEFINE S == Elems(queue) \ Elems(snapshot)
      <3>1. S \in SUBSET Sink!Pending /\ S # {}
        BY <1>0, <2>3 DEF Waiting
      <3>2. (failed \cup vanished)' = (failed \cup vanished) \cup S
        BY <2>1, <2>3
      <3>3. Sink!Lose
        BY <2>1, <3>1, <3>2 DEF Sink!Lose
      <3>4. QED BY <3>3 DEF Sink!Next
    <2>4. QED BY <1>2, <2>2, <2>3 DEF ReserveInstalls
  <1>3. CASE WriteItem
    <2> DEFINE h == Head(batch)
    <2>1. /\ batch # <<>> /\ batch \in Seq(Msgs) /\ accepted' = accepted
          /\ vanished' = vanished
      BY <1>3 DEF WriteItem, CInv, TypeOK
    <2>2. /\ Elems(batch) = {h} \cup Elems(Tail(batch)) /\ h \in Msgs
          /\ \A m \in Elems(Tail(batch)) : h < m
      BY <2>1, ElemsOfTail, IncreasingTail, MsgsAreNumbers DEF CInv, Conserved
    <2>3. h \in Sink!Pending
      BY <1>0, <2>2 DEF Waiting
    <2>4. \A m \in Sink!Pending : h <= m
      <3>1. \A m \in Elems(queue) : h < m
        BY <2>2 DEF CInv, Conserved, Precedes
      <3>2. h \in Int
        BY <2>2, MsgsAreNumbers
      <3>3. ASSUME NEW m \in Waiting PROVE h <= m
        <4>1. m \in 1..accepted
          BY <3>3 DEF CInv, Conserved
        <4>2. m = h \/ h < m
          BY <2>2, <3>1, <3>3 DEF Waiting
        <4>3. QED BY <3>2, <4>1, <4>2
      <3>4. QED BY <1>0, <3>3
    <2>5. CASE file' = Append(file, h) /\ failed' = failed
      BY <2>1, <2>3, <2>4, <2>5 DEF Sink!Next, Sink!Deliver
    <2>6. CASE file' = file /\ failed' = failed \cup {h}
      <3>1. (failed \cup vanished)' = (failed \cup vanished) \cup {h}
        BY <2>1, <2>6
      <3>2. Sink!Lose
        BY <2>1, <2>3, <2>6, <3>1 DEF Sink!Lose
      <3>3. QED BY <3>2 DEF Sink!Next
    <2>7. QED BY <1>3, <2>5, <2>6 DEF WriteItem
  <1>4. CASE ~Push /\ ~ReserveInstalls /\ ~WriteItem
    BY <1>4 DEF Next, WorkerStep, PushMore, Start, StopBegins, StopFindsNone, StopReturns,
                LoopTest, ReserveCopies, Swap, Dump, TakeQueue, WriteShort, WriteMore, BatchDone,
                outcome, vars
  <1>5. QED BY <1>1, <1>2, <1>3, <1>4

(* The asynchronous appender, its data race included, implements the ordered
   sink: lines reach the file at most once and in the order of acceptance. *)
THEOREM ImplementsSink == Spec => SinkSpec
  BY InitLInv, NextLInv, InitCInv, NextCInv, InitSink, NextSink, PTL
  DEF Spec, SinkSpec, Sink!Spec

-----------------------------------------------------------------------------
(* The bytes of lines: the last write() has ended its line, or has left it at the
   byte where the next one goes on. *)

LastPiece == pieces[Len(pieces)]

GoesOn ==
    IF sent > 0
    THEN /\ worker \in {"write", "drain"} /\ batch # <<>>
         /\ pieces # <<>> /\ LastPiece.line = Head(batch) /\ LastPiece.to = sent
    ELSE pieces # <<>> => Ended(LastPiece)

WInv == LinesAreWhole /\ GoesOn

LEMMA InitWInv == Init => WInv
  BY ElemsOfEmpty DEF Init, WInv, LinesAreWhole, GoesOn

LEMMA NothingWritten ==
    ASSUME WInv, UNCHANGED <<file, failed, pieces, sent>>,
           sent = 0 \/ UNCHANGED <<batch, worker>>
    PROVE  WInv'
  BY DEF WInv, LinesAreWhole, GoesOn, LastPiece, Ended, Elems

(* One more piece of the line that is being written. *)
LEMMA PutWhole ==
    ASSUME WInv, TypeOK, batch # <<>>, failed' = failed,
           NEW to \in Bytes, sent < to, Put(Head(batch), to),
           \/ file' = file
           \/ file' = Append(file, Head(batch)) /\ to = LineSize
    PROVE  /\ LinesAreWhole'
           /\ pieces' # <<>> /\ LastPiece'.line = Head(batch) /\ LastPiece'.to = to
  <1> DEFINE h == Head(batch)  piece == [line |-> h, from |-> sent + 1, to |-> to]
  <1>1. /\ pieces \in Seq(Pieces) /\ Len(pieces) \in Nat /\ sent \in Nat
        /\ pieces' = Append(pieces, piece) /\ piece \in Pieces /\ h \in Msgs
        /\ file \in Seq(Msgs)
    <2>1. h \in Msgs /\ sent + 1 \in Bytes
      BY LineAssumption, ElemsOfTail DEF TypeOK, Bytes
    <2>2. QED BY <2>1, LineAssumption DEF TypeOK, Put, Pieces
  <1>2. /\ DOMAIN pieces = 1..Len(pieces) /\ DOMAIN pieces' = 1..(Len(pieces) + 1)
        /\ Len(pieces') = Len(pieces) + 1
        /\ \A i \in 1..Len(pieces) : pieces'[i] = pieces[i]
        /\ pieces'[Len(pieces) + 1] = piece
    BY <1>1
  <1>3. piece.line = h /\ piece.from = sent + 1 /\ piece.to = to
    OBVIOUS
  <1> HIDE DEF piece
  <1>4. ASSUME NEW i \in 1..(Len(pieces) + 1)
        PROVE  IF pieces'[i].from = 1 THEN i > 1 => Ended(pieces'[i - 1])
               ELSE /\ i > 1
                    /\ pieces'[i - 1].line = pieces'[i].line
                    /\ pieces'[i - 1].to + 1 = pieces'[i].from
    <2>1. CASE i \in 1..Len(pieces)
      <3>1. i > 1 => i - 1 \in 1..Len(pieces)
        BY <1>1, <2>1
      <3>2. i > 1 => pieces'[i - 1] = pieces[i - 1]
        BY <1>2, <3>1
      <3>3. pieces'[i] = pieces[i]
        BY <1>2, <2>1
      <3>4. IF pieces[i].from = 1 THEN i > 1 => Ended(pieces[i - 1])
            ELSE /\ i > 1
                 /\ pieces[i - 1].line = pieces[i].line
                 /\ pieces[i - 1].to + 1 = pieces[i].from
        BY <1>2, <2>1 DEF WInv, LinesAreWhole
      <3>5. QED BY <3>2, <3>3, <3>4
    <2>2. CASE i = Len(pieces) + 1 /\ sent > 0
      <3>1. /\ Len(pieces) > 0 /\ LastPiece.line = h /\ LastPiece.to = sent
        BY <1>1, <2>2 DEF WInv, GoesOn
      <3>2. pieces'[i - 1] = LastPiece /\ pieces'[i] = piece /\ i > 1
        <4>1. i - 1 = Len(pieces) /\ Len(pieces) \in 1..Len(pieces)
          BY <1>1, <2>2, <3>1
        <4>2. QED BY <1>2, <2>2, <4>1 DEF LastPiece
      <3>3. QED BY <1>1, <1>3, <2>2, <3>1, <3>2
    <2>3. CASE i = Len(pieces) + 1 /\ sent = 0
      <3>1. pieces'[i].from = 1
        BY <1>2, <1>3, <2>3
      <3>2. ASSUME i > 1 PROVE Ended(pieces'[i - 1])
        <4>1. Len(pieces) \in 1..Len(pieces) /\ i - 1 = Len(pieces)
          BY <1>1, <2>3, <3>2
        <4>2. pieces'[i - 1] = LastPiece /\ Ended(LastPiece)
          BY <1>1, <1>2, <2>3, <4>1 DEF LastPiece, WInv, GoesOn
        <4>3. QED BY <4>2
      <3>3. QED BY <3>1, <3>2
    <2>4. QED BY <1>1, <2>1, <2>2, <2>3
  <1>5. ASSUME NEW m \in Elems(file')
        PROVE  \E i \in DOMAIN pieces' : pieces'[i].line = m /\ pieces'[i].to = LineSize
    <2>1. CASE m \in Elems(file)
      <3>1. PICK i \in DOMAIN pieces : pieces[i].line = m /\ pieces[i].to = LineSize
        BY <2>1 DEF WInv, LinesAreWhole
      <3>2. i \in DOMAIN pieces' /\ pieces'[i] = pieces[i]
        BY <1>1, <1>2, <3>1
      <3>3. QED BY <3>1, <3>2
    <2>2. CASE m \notin Elems(file)
      <3>1. m = h /\ to = LineSize
        <4>1. file' = Append(file, h) /\ to = LineSize
          BY <1>5, <2>2
        <4>2. Elems(file') = Elems(file) \cup {h}
          BY <1>1, <4>1, ElemsOfAppend
        <4>3. QED BY <1>5, <2>2, <4>1, <4>2
      <3>2. Len(pieces) + 1 \in DOMAIN pieces'
        BY <1>1, <1>2
      <3>3. QED BY <1>2, <1>3, <3>1, <3>2
    <2>3. QED BY <2>1, <2>2
  <1>6. LinesAreWhole'
    BY <1>2, <1>4, <1>5, Zenon DEF LinesAreWhole, Ended
  <1>7. QED BY <1>1, <1>2, <1>3, <1>6 DEF LastPiece

LEMMA NextWInv == LInv /\ CInv /\ WInv /\ [Next]_vars => WInv'
  <1> SUFFICES ASSUME LInv, CInv, WInv, [Next]_vars PROVE WInv'
    OBVIOUS
  <1>0. TypeOK /\ (worker \notin {"write", "drain"} \/ batch = <<>> => sent = 0)
    <2>1. TypeOK /\ sent \in 0..LineSize - 1
      BY DEF CInv, TypeOK
    <2>2. QED BY <2>1, LineAssumption DEF WInv, GoesOn
  <1>1. CASE WriteShort
    <2>1. PICK n \in sent + 1 .. LineSize - 1 : Put(Head(batch), n) /\ sent' = n
      BY <1>1 DEF WriteShort
    <2>2. n \in Bytes /\ sent < n /\ n > 0
      BY <1>0, LineAssumption DEF Bytes, TypeOK
    <2>3. /\ batch # <<>> /\ batch' = batch /\ worker \in {"write", "drain"} /\ worker' = worker
          /\ file' = file /\ failed' = failed
      BY <1>1 DEF WriteShort, queues
    <2>4. /\ LinesAreWhole'
          /\ pieces' # <<>> /\ LastPiece'.line = Head(batch) /\ LastPiece'.to = n
      BY <1>0, <2>1, <2>2, <2>3, PutWhole
    <2>5. QED BY <2>1, <2>2, <2>3, <2>4 DEF WInv, GoesOn
  <1>2. CASE WriteItem /\ file' = Append(file, Head(batch)) /\ Put(Head(batch), LineSize)
                       /\ UNCHANGED failed
    <2>1. batch # <<>> /\ sent' = 0 /\ LineSize \in Bytes /\ sent < LineSize
      BY <1>0, <1>2, LineAssumption DEF WriteItem, TypeOK, Bytes
    <2>2. LinesAreWhole' /\ pieces' # <<>> /\ LastPiece'.to = LineSize
      BY <1>0, <1>2, <2>1, PutWhole
    <2>3. QED BY <2>1, <2>2 DEF WInv, GoesOn, Ended
  <1>3. CASE WriteItem /\ failed' = failed \cup {Head(batch)} /\ UNCHANGED <<file, pieces>>
    <2>1. sent' = 0 /\ \A p : Ended(p) => Ended(p)'
      BY <1>3 DEF WriteItem, Ended
    <2>2. LinesAreWhole'
      BY <1>3, <2>1 DEF WInv, LinesAreWhole, Ended
    <2>3. pieces # <<>> => LastPiece.to = LineSize \/ LastPiece.line \in failed'
      <3>1. CASE sent > 0
        BY <1>3, <3>1 DEF WInv, GoesOn, Ended
      <3>2. CASE ~(sent > 0)
        BY <1>3, <3>2 DEF WInv, GoesOn, Ended
      <3>3. QED BY <3>1, <3>2
    <2>4. LastPiece' = LastPiece
      BY <1>3 DEF LastPiece
    <2>5. QED BY <1>3, <2>1, <2>2, <2>3, <2>4 DEF WInv, GoesOn, Ended
  <1>4. CASE Swap \/ Dump \/ BatchDone \/ LoopTest \/ ReserveCopies \/ ReserveInstalls
    <2>1. sent = 0
      BY <1>0, <1>4 DEF Swap, Dump, TakeQueue, BatchDone, LoopTest, ReserveCopies,
                        ReserveInstalls, Goto
    <2>2. UNCHANGED <<file, failed, pieces, sent>>
      BY <1>4 DEF Swap, Dump, TakeQueue, BatchDone, LoopTest, ReserveCopies,
                  ReserveInstalls, outcome, content
    <2>3. QED BY <2>1, <2>2, NothingWritten
  <1>5. CASE Push \/ PushMore \/ StopBegins \/ StopFindsNone \/ WriteMore \/ UNCHANGED vars
    BY <1>5, NothingWritten
    DEF Push, PushMore, StopBegins, StopFindsNone, WriteMore, vars, queues, outcome, content
  <1>6. CASE StopReturns
    BY <1>0, <1>6, NothingWritten DEF StopReturns, outcome, content
  <1>7. CASE Start
    <2>1. UNCHANGED <<file, failed, pieces, sent, batch>>
      BY <1>7 DEF Start, outcome, content, queues
    <2>2. worker' = worker \/ worker = "none"
      BY <1>7 DEF Start, LInv, Owned
    <2>3. QED BY <1>0, <2>1, <2>2, NothingWritten
  <1>8. QED
    BY <1>1, <1>2, <1>3, <1>4, <1>5, <1>6, <1>7 DEF Next, WorkerStep, WriteItem

(* However write() divides the lines, the file is made of whole lines, one behind the
   other, but for the beginnings of those whose write() failed. *)
THEOREM WritesWholeLines == Spec => []LinesAreWhole
  <1>1. WInv => LinesAreWhole
    BY DEF WInv
  <1>2. QED
    BY InitLInv, NextLInv, InitCInv, NextCInv, InitWInv, NextWInv, <1>1, PTL DEF Spec
===============================================================================
