-------------------------- MODULE Pipeline_proofs --------------------------
(***************************************************************************)
(* Proofs about Pipeline for any finite, non-empty set of buffers.  The    *)
(* invariant IInv is shown inductive, action by action; the properties the *)
(* runs check of three buffers follow from it.                             *)
(***************************************************************************)
EXTENDS Pipeline, FiniteSetTheorems, SequenceTheorems, TLAPS

-----------------------------------------------------------------------------
(* The channel.                                                            *)

Operation == Buffers \cup {Gap}

LEMMA DepthIsPositive == QueueDepth \in Nat /\ QueueDepth > 0
  BY BuffersAssumption, FS_CardinalityType, FS_EmptySet DEF QueueDepth

LEMMA EmptyChannel ==
  /\ <<>> \in Seq(Operation)
  /\ Len(<<>>) = 0
  BY EmptySeq

(* Sending appends one operation and moves no other.                       *)
LEMMA Sending ==
  ASSUME chan \in Seq(Operation), NEW op \in Operation, chan' = Append(chan, op)
  PROVE  /\ Len(chan) \in Nat
         /\ chan' \in Seq(Operation)
         /\ Len(chan') = Len(chan) + 1
         /\ \A i \in 1..Len(chan) : chan'[i] = chan[i]
         /\ chan'[Len(chan) + 1] = op
         /\ InFlight' = InFlight \cup {op}
<1>1. Len(chan) \in Nat
  BY LenProperties
<1>2. /\ chan' \in Seq(Operation)
      /\ Len(chan') = Len(chan) + 1
      /\ \A i \in 1..Len(chan) : chan'[i] = chan[i]
      /\ chan'[Len(chan) + 1] = op
  BY AppendProperties
<1>3. 1..Len(chan') = 1..Len(chan) \cup {Len(chan) + 1}
  BY <1>1, <1>2
<1>4. InFlight' = {chan'[i] : i \in 1..Len(chan')}
  BY DEF InFlight
<1>5. InFlight' = InFlight \cup {op}
  BY <1>2, <1>3, <1>4 DEF InFlight
<1> QED
  BY <1>1, <1>2, <1>5

(* Receiving removes the oldest operation and shifts the others.           *)
LEMMA Receiving ==
  ASSUME chan \in Seq(Operation), chan # <<>>, chan' = Tail(chan)
  PROVE  /\ Len(chan) \in Nat \ {0}
         /\ Head(chan) = chan[1] /\ Head(chan) \in Operation
         /\ chan' \in Seq(Operation)
         /\ Len(chan') = Len(chan) - 1
         /\ \A i \in 1..Len(chan') : chan'[i] = chan[i + 1]
         /\ InFlight = InFlight' \cup {Head(chan)}
<1>1. Len(chan) \in Nat \ {0}
  BY EmptySeq
<1>2. /\ Head(chan) \in Operation
      /\ chan' \in Seq(Operation)
      /\ Len(chan') = Len(chan) - 1
      /\ \A i \in 1..Len(chan') : chan'[i] = chan[i + 1]
  BY HeadTailProperties
<1>3. Head(chan) = chan[1]
  BY <1>1
<1>4. InFlight' = {chan'[i] : i \in 1..Len(chan')}
  BY DEF InFlight
<1>5. ASSUME NEW op \in InFlight
      PROVE  op \in InFlight' \cup {Head(chan)}
  <2>1. PICK i \in 1..Len(chan) : op = chan[i]
    BY <1>5 DEF InFlight
  <2>2. CASE i = 1
    BY <2>1, <2>2, <1>3
  <2>3. CASE i # 1
    <3>1. i - 1 \in 1..Len(chan')
      BY <1>1, <1>2, <2>1, <2>3
    <3>2. chan'[i - 1] = chan[(i - 1) + 1]
      BY <3>1, <1>2
    <3>3. (i - 1) + 1 = i
      BY <2>1
    <3> QED
      BY <3>1, <3>2, <3>3, <2>1, <1>4
  <2> QED
    BY <2>2, <2>3
<1>6. ASSUME NEW op \in InFlight'
      PROVE  op \in InFlight
  <2>1. PICK i \in 1..Len(chan') : op = chan'[i]
    BY <1>4, <1>6
  <2>2. i + 1 \in 1..Len(chan) /\ op = chan[i + 1]
    BY <1>1, <1>2, <2>1
  <2> QED
    BY <2>2 DEF InFlight
<1>7. Head(chan) \in InFlight
  BY <1>1, <1>3 DEF InFlight
<1> QED
  BY <1>1, <1>2, <1>3, <1>5, <1>6, <1>7

-----------------------------------------------------------------------------
(* The invariant.                                                          *)

LEMMA InitEstablishes == Init => IInv
<1> SUFFICES ASSUME Init PROVE IInv
  OBVIOUS
<1> USE DEF Init
<1>1. TypeOK
  <2>1. chan \in Seq(Buffers \cup {Gap}) /\ Len(chan) = 0
    BY EmptyChannel DEF Operation
  <2>2. Len(chan) <= QueueDepth
    BY <2>1, DepthIsPositive
  <2> QED
    BY <2>1, <2>2 DEF TypeOK, ReaderAt
<1>2. Owned
  BY DEF Owned
<1>3. Once
  BY SentinelAssumption, EmptyChannel DEF Once
<1>4. Returns
  BY DEF Returns, ReaderRunning, Streaming
<1>5. BuffersConserved /\ WriterErrorWins
  BY DEF BuffersConserved, WriterErrorWins
<1> QED
  BY <1>1, <1>2, <1>3, <1>4, <1>5 DEF IInv

(* A step that changes nothing.                                            *)
LEMMA StutterPreserves == IInv /\ UNCHANGED vars => IInv'
  BY DEF IInv, TypeOK, Owned, Once, Returns, BuffersConserved, WriterErrorWins, vars,
         readerVars, writerVars, ReaderRunning, Streaming, InFlight, QueueDepth

LEMMA ReaderPreserves == IInv /\ Reader => IInv'
<1> SUFFICES ASSUME IInv, Reader PROVE IInv'
  OBVIOUS
<1> USE DEF IInv, readerVars, writerVars, ReaderRunning, Streaming
<1>0. chan \in Seq(Operation) /\ QueueDepth' = QueueDepth
  BY DEF TypeOK, Operation, QueueDepth
<1>1. CASE WantBuffer
  <2>1. TypeOK'
    BY <1>1, <1>0 DEF WantBuffer, TypeOK, ReaderAt
  <2>2. Owned' /\ Returns' /\ WriterErrorWins'
    BY <1>1 DEF WantBuffer, Owned, Returns, WriterErrorWins, TypeOK
  <2>3. Once' /\ BuffersConserved'
    BY <1>1 DEF WantBuffer, Once, BuffersConserved, InFlight
  <2> QED
    BY <2>1, <2>2, <2>3
<1>2. CASE TakeBuffer
  <2> PICK b \in pool : held' = b /\ pool' = pool \ {b}
    BY <1>2 DEF TakeBuffer
  <2>1. TypeOK'
    BY <1>2, <1>0 DEF TakeBuffer, TypeOK, ReaderAt
  <2>2. Owned' /\ Returns' /\ WriterErrorWins'
    BY <1>2, SentinelAssumption DEF TakeBuffer, Owned, Returns, WriterErrorWins, TypeOK
  <2>3. Once'
    BY <1>2 DEF TakeBuffer, Once
  <2>4. BuffersConserved'
    <3>1. held = NoBuffer /\ reader # "ended" /\ UNCHANGED <<chan, writer, cur>>
      BY <1>2 DEF TakeBuffer, Owned
    <3>2. InFlight' = InFlight
      BY <3>1 DEF InFlight
    <3>3. ASSUME Streaming, NEW c \in Buffers
          PROVE  c \in pool' \/ c = held' \/ c \in InFlight' \/ c = cur'
      BY <3>1, <3>2, <3>3, SentinelAssumption DEF BuffersConserved
    <3> QED
      BY <3>1, <3>3 DEF BuffersConserved
  <2> QED
    BY <2>1, <2>2, <2>3, <2>4
<1>3. ASSUME PoolClosed \/ SendBatchClosed \/ ReaderReturns
      PROVE  IInv'
  <2>1. /\ reader # "ended" /\ reader' = "ended" /\ read' \in {"ok", "err", "panic"}
        /\ held' = NoBuffer /\ pool' = {}
        /\ UNCHANGED <<chan, writerVars>>
    BY <1>3 DEF PoolClosed, SendBatchClosed, ReaderReturns, ReaderEnds
  <2>2. cut' \in BOOLEAN /\ dropped' \in BOOLEAN
    BY <1>3 DEF PoolClosed, SendBatchClosed, ReaderReturns, TypeOK
  <2>3. cut' \/ dropped' => cut \/ dropped \/ ~RxOpen
    BY <1>3 DEF PoolClosed, SendBatchClosed, ReaderReturns, PoolTxOpen
  <2>4. TypeOK'
    BY <2>1, <2>2, <1>0 DEF TypeOK, ReaderAt
  <2>5. Owned' /\ BuffersConserved' /\ WriterErrorWins'
    BY <2>1 DEF Owned, BuffersConserved, WriterErrorWins
  <2>6. Once'
    <3>1. \A i \in 1..Len(chan) : chan[i] # Gap => chan[i] # NoBuffer
      BY <1>0, ElementOfSeq, SentinelAssumption DEF Operation
    <3> QED
      BY <2>1, <3>1 DEF Once
  <2>7. Returns'
    BY <2>1, <2>3 DEF Returns, RxOpen, TypeOK
  <2> QED
    BY <2>4, <2>5, <2>6, <2>7
<1>4. CASE FillBuffer
  <2>1. TypeOK'
    BY <1>4, <1>0 DEF FillBuffer, TypeOK, ReaderAt
  <2>2. Owned' /\ Returns' /\ WriterErrorWins'
    BY <1>4 DEF FillBuffer, Owned, Returns, WriterErrorWins, TypeOK
  <2>3. Once' /\ BuffersConserved'
    BY <1>4 DEF FillBuffer, Once, BuffersConserved, InFlight
  <2> QED
    BY <2>1, <2>2, <2>3
<1>5. CASE SendBatch
  <2>1. held \in Buffers /\ held \in Operation /\ chan' = Append(chan, held)
    BY <1>5 DEF SendBatch, Owned, TypeOK, Operation
  <2>2. /\ Len(chan) \in Nat
        /\ chan' \in Seq(Operation)
        /\ Len(chan') = Len(chan) + 1
        /\ \A i \in 1..Len(chan) : chan'[i] = chan[i]
        /\ chan'[Len(chan) + 1] = held
        /\ InFlight' = InFlight \cup {held}
    BY <2>1, <1>0, Sending
  <2>3. TypeOK'
    <3>1. Len(chan') <= QueueDepth
      BY <1>5, <2>2, DepthIsPositive DEF SendBatch
    <3> QED
      BY <1>5, <1>0, <2>2, <3>1 DEF SendBatch, TypeOK, ReaderAt, Operation
  <2>4. Owned' /\ Returns' /\ WriterErrorWins'
    BY <1>5 DEF SendBatch, Owned, Returns, WriterErrorWins, TypeOK, RxOpen
  <2>5. Once'
    <3>1. \A i \in 1..Len(chan') : i \in 1..Len(chan) \/ i = Len(chan) + 1
      BY <2>2
    <3>2. held \notin pool /\ held # cur /\ held # Gap
      BY <2>1, SentinelAssumption DEF Once
    <3>3. \A i \in 1..Len(chan) : chan[i] # held
      BY <3>2 DEF Once
    <3>4. \A i \in 1..Len(chan') :
            chan'[i] # Gap => chan'[i] \notin pool' /\ chan'[i] # held' /\ chan'[i] # cur'
      <4>1. \A i \in 1..Len(chan') : chan'[i] # Gap => chan'[i] \in Buffers
        BY <2>1, <2>2, <3>1, <1>0, ElementOfSeq DEF Operation
      <4> QED
        BY <1>5, <2>1, <2>2, <3>1, <3>2, <4>1, SentinelAssumption DEF SendBatch, Once
    <3>5. \A i, k \in 1..Len(chan') : chan'[i] = chan'[k] /\ chan'[i] # Gap => i = k
      BY <2>2, <3>1, <3>3 DEF Once
    <3> QED
      BY <1>5, <3>4, <3>5, SentinelAssumption DEF SendBatch, Once, TypeOK
  <2>6. BuffersConserved'
    BY <1>5, <2>2 DEF SendBatch, BuffersConserved
  <2> QED
    BY <2>3, <2>4, <2>5, <2>6
<1>6. CASE MeetGap
  <2>1. TypeOK'
    BY <1>6, <1>0 DEF MeetGap, TypeOK, ReaderAt
  <2>2. Owned' /\ Returns' /\ WriterErrorWins'
    BY <1>6 DEF MeetGap, Owned, Returns, WriterErrorWins, TypeOK
  <2>3. Once' /\ BuffersConserved'
    BY <1>6 DEF MeetGap, Once, BuffersConserved, InFlight
  <2> QED
    BY <2>1, <2>2, <2>3
<1>7. CASE ReportGap
  <2>1. Gap \in Operation /\ chan' = Append(chan, Gap)
    BY <1>7 DEF ReportGap, Operation
  <2>2. /\ Len(chan) \in Nat
        /\ chan' \in Seq(Operation)
        /\ Len(chan') = Len(chan) + 1
        /\ \A i \in 1..Len(chan) : chan'[i] = chan[i]
        /\ chan'[Len(chan) + 1] = Gap
        /\ InFlight' = InFlight \cup {Gap}
    BY <2>1, <1>0, Sending
  <2>3. TypeOK'
    <3>1. Len(chan') <= QueueDepth
      BY <1>7, <2>2, DepthIsPositive DEF ReportGap
    <3> QED
      BY <1>7, <1>0, <2>2, <3>1 DEF ReportGap, TypeOK, ReaderAt, Operation
  <2>4. Owned' /\ Returns' /\ WriterErrorWins'
    BY <1>7 DEF ReportGap, Owned, Returns, WriterErrorWins, TypeOK, RxOpen
  <2>5. Once'
    <3>1. \A i \in 1..Len(chan') : i \in 1..Len(chan) \/ i = Len(chan) + 1
      BY <2>2
    <3> QED
      BY <1>7, <2>2, <3>1 DEF ReportGap, Once
  <2>6. BuffersConserved'
    BY <1>7, <2>2 DEF ReportGap, BuffersConserved
  <2> QED
    BY <2>3, <2>4, <2>5, <2>6
<1>8. CASE ReportGapClosed
  <2>1. TypeOK'
    BY <1>8, <1>0 DEF ReportGapClosed, TypeOK, ReaderAt
  <2>2. Owned' /\ Returns' /\ WriterErrorWins'
    BY <1>8 DEF ReportGapClosed, Owned, Returns, WriterErrorWins, TypeOK, RxOpen
  <2>3. Once' /\ BuffersConserved'
    BY <1>8 DEF ReportGapClosed, Once, BuffersConserved, InFlight
  <2> QED
    BY <2>1, <2>2, <2>3
<1> QED
  BY <1>1, <1>2, <1>3, <1>4, <1>5, <1>6, <1>7, <1>8 DEF Reader

(* No case of the writer's steps but Receive and FinishOp moves a buffer   *)
(* while the reader could still want it.                                   *)
LEMMA WriterPreserves == IInv /\ Writer => IInv'
<1> SUFFICES ASSUME IInv, Writer PROVE IInv'
  OBVIOUS
<1> USE DEF IInv, readerVars, writerVars, ReaderRunning, Streaming
<1>0. chan \in Seq(Operation) /\ QueueDepth' = QueueDepth
  BY DEF TypeOK, Operation, QueueDepth
<1>1. CASE Receive
  <2>1. chan # <<>> /\ chan' = Tail(chan)
    BY <1>1 DEF Receive
  <2>2. /\ Len(chan) \in Nat \ {0}
        /\ Head(chan) = chan[1] /\ Head(chan) \in Operation
        /\ chan' \in Seq(Operation)
        /\ Len(chan') = Len(chan) - 1
        /\ \A i \in 1..Len(chan') : chan'[i] = chan[i + 1]
        /\ InFlight = InFlight' \cup {Head(chan)}
    BY <2>1, <1>0, Receiving
  <2>3. /\ cur' = IF Head(chan) = Gap THEN NoBuffer ELSE Head(chan)
        /\ cur = NoBuffer
    BY <1>1 DEF Receive, Owned
  <2>4. TypeOK'
    <3>1. Len(chan') <= QueueDepth
      BY <2>2, DepthIsPositive DEF TypeOK
    <3>2. cur' \in Buffers \cup {NoBuffer}
      BY <2>2, <2>3 DEF Operation
    <3> QED
      BY <1>1, <1>0, <2>2, <3>1, <3>2 DEF Receive, TypeOK, Operation
  <2>5. Owned' /\ Returns' /\ WriterErrorWins'
    BY <1>1 DEF Receive, Owned, Returns, WriterErrorWins, TypeOK
  <2>6. Once'
    <3>1. 1 \in 1..Len(chan)
      BY <2>2
    <3>2. \A i \in 1..Len(chan') : i + 1 \in 1..Len(chan) /\ i + 1 # 1
      BY <2>2
    <3>3. Head(chan) # Gap => /\ Head(chan) \notin pool
                              /\ Head(chan) # held
                              /\ \A i \in 1..Len(chan') : chan'[i] # Head(chan)
      BY <2>2, <3>1, <3>2 DEF Once
    <3>4. cur' \notin pool /\ (held = cur' => held = NoBuffer)
      BY <2>3, <3>3, SentinelAssumption DEF TypeOK
    <3>5. ASSUME NEW i \in 1..Len(chan'), chan'[i] # Gap
          PROVE  chan'[i] \notin pool /\ chan'[i] # held /\ chan'[i] # cur'
      <4>1. chan'[i] = chan[i + 1] /\ i + 1 \in 1..Len(chan)
        BY <2>2, <3>2
      <4>2. chan'[i] \notin pool /\ chan'[i] # held /\ chan'[i] # cur
        BY <4>1, <3>5 DEF Once
      <4> QED
        BY <4>2, <2>3, <3>3
    <3>6. ASSUME NEW i \in 1..Len(chan'), NEW k \in 1..Len(chan'),
                 chan'[i] = chan'[k], chan'[i] # Gap
          PROVE  i = k
      <4>1. i + 1 = k + 1
        BY <3>6, <2>2, <3>2 DEF Once
      <4> QED
        BY <4>1
    <3> QED
      BY <1>1, <3>4, <3>5, <3>6 DEF Receive, Once
  <2>7. BuffersConserved'
    <3>1. UNCHANGED <<reader, held, pool>> /\ writer = "recv"
      BY <1>1 DEF Receive
    <3>2. ASSUME reader # "ended", NEW b \in Buffers
          PROVE  b \in pool \/ b = held \/ b \in InFlight' \/ b = cur'
      BY <3>1, <3>2, <2>2, <2>3, SentinelAssumption DEF BuffersConserved
    <3> QED
      BY <3>1, <3>2 DEF BuffersConserved
  <2> QED
    BY <2>4, <2>5, <2>6, <2>7
<1>2. CASE FinishOp
  <2>1. TypeOK'
    BY <1>2, <1>0 DEF FinishOp, TypeOK
  <2>2. Owned' /\ Returns' /\ WriterErrorWins'
    BY <1>2 DEF FinishOp, Owned, Returns, WriterErrorWins, TypeOK
  <2>3. Once'
    <3>1. UNCHANGED <<held, chan>> /\ cur' = NoBuffer /\ pool' \subseteq pool \cup {cur}
      BY <1>2 DEF FinishOp
    <3>2. NoBuffer \notin pool'
      BY <1>2, SentinelAssumption DEF FinishOp, TypeOK
    <3>3. held \notin pool'
      BY <3>1, <3>2 DEF Once
    <3>4. \A i \in 1..Len(chan) : chan[i] # Gap => chan[i] # NoBuffer
      BY <1>0, ElementOfSeq, SentinelAssumption DEF Operation
    <3> QED
      BY <3>1, <3>2, <3>3, <3>4 DEF Once
  <2>4. BuffersConserved'
    <3>1. /\ UNCHANGED <<reader, held, chan>> /\ cur' = NoBuffer
          /\ reader # "ended" => pool' = IF cur # NoBuffer THEN pool \cup {cur} ELSE pool
          /\ writer = "work"
      BY <1>2 DEF FinishOp
    <3>2. InFlight' = InFlight
      BY <3>1 DEF InFlight
    <3>3. ASSUME reader # "ended", NEW b \in Buffers
          PROVE  b \in pool' \/ b = held \/ b \in InFlight
      BY <3>1, <3>3, SentinelAssumption DEF BuffersConserved
    <3> QED
      BY <3>1, <3>2, <3>3 DEF BuffersConserved
  <2> QED
    BY <2>1, <2>2, <2>3, <2>4
<1>3. CASE OpFails
  <2>1. TypeOK'
    BY <1>3, <1>0 DEF OpFails, TypeOK
  <2>2. Owned' /\ Returns' /\ WriterErrorWins' /\ BuffersConserved'
    BY <1>3 DEF OpFails, Owned, Returns, WriterErrorWins, BuffersConserved
  <2>3. Once'
    <3>1. \A i \in 1..Len(chan) : chan[i] # Gap => chan[i] # NoBuffer
      BY <1>0, ElementOfSeq, SentinelAssumption DEF Operation
    <3> QED
      BY <1>3, <3>1, SentinelAssumption DEF OpFails, Once, TypeOK
  <2> QED
    BY <2>1, <2>2, <2>3
<1>4. CASE SyncOrNot
  <2>1. TypeOK'
    BY <1>4, <1>0 DEF SyncOrNot, TypeOK
  <2>2. Owned' /\ Returns' /\ WriterErrorWins'
    BY <1>4 DEF SyncOrNot, Owned, Returns, WriterErrorWins, TypeOK
  <2>3. Once' /\ BuffersConserved'
    BY <1>4 DEF SyncOrNot, Once, Owned, BuffersConserved, InFlight
  <2> QED
    BY <2>1, <2>2, <2>3
<1>5. CASE SyncFails
  <2>1. TypeOK'
    BY <1>5, <1>0 DEF SyncFails, TypeOK
  <2>2. Owned' /\ Returns' /\ WriterErrorWins'
    BY <1>5 DEF SyncFails, Owned, Returns, WriterErrorWins, TypeOK
  <2>3. Once' /\ BuffersConserved'
    BY <1>5 DEF SyncFails, Once, Owned, BuffersConserved, InFlight
  <2> QED
    BY <2>1, <2>2, <2>3
<1>6. CASE StreamEnds
  <2>1. TypeOK'
    BY <1>6, <1>0 DEF StreamEnds, TypeOK
  <2>2. Owned' /\ Returns' /\ WriterErrorWins'
    BY <1>6 DEF StreamEnds, Owned, Returns, WriterErrorWins, TypeOK
  <2>3. Once' /\ BuffersConserved'
    BY <1>6 DEF StreamEnds, Once, Owned, BuffersConserved, InFlight
  <2> QED
    BY <2>1, <2>2, <2>3
<1>7. CASE DropRx
  <2>1. TypeOK'
    BY <1>7, <1>0, EmptyChannel, DepthIsPositive DEF DropRx, TypeOK, Operation
  <2>2. Owned' /\ Returns' /\ WriterErrorWins' /\ BuffersConserved'
    BY <1>7 DEF DropRx, Owned, Returns, WriterErrorWins, BuffersConserved, TypeOK
  <2>3. Once'
    BY <1>7, EmptyChannel DEF DropRx, Once
  <2> QED
    BY <2>1, <2>2, <2>3
<1>8. CASE DropPoolTx
  <2>1. TypeOK'
    BY <1>8, <1>0 DEF DropPoolTx, TypeOK
  <2>2. Owned' /\ Returns' /\ WriterErrorWins'
    BY <1>8 DEF DropPoolTx, Owned, Returns, WriterErrorWins, TypeOK
  <2>3. Once' /\ BuffersConserved'
    BY <1>8 DEF DropPoolTx, Once, Owned, BuffersConserved, InFlight
  <2> QED
    BY <2>1, <2>2, <2>3
<1>9. CASE Join
  <2>1. TypeOK'
    BY <1>9, <1>0 DEF Join, TypeOK
  <2>2. Owned' /\ Returns' /\ WriterErrorWins'
    BY <1>9 DEF Join, Owned, Returns, WriterErrorWins, TypeOK
  <2>3. Once' /\ BuffersConserved'
    BY <1>9 DEF Join, Once, Owned, BuffersConserved, InFlight
  <2> QED
    BY <2>1, <2>2, <2>3
<1> QED
  BY <1>1, <1>2, <1>3, <1>4, <1>5, <1>6, <1>7, <1>8, <1>9 DEF Writer

(* IInv holds in every reachable state.                                    *)
THEOREM InvariantHolds == Spec => []IInv
<1>1. Init => IInv
  BY InitEstablishes
<1>2. IInv /\ [Next]_vars => IInv'
  BY ReaderPreserves, WriterPreserves, StutterPreserves DEF Next, Returned
<1> QED
  BY <1>1, <1>2, PTL DEF Spec

-----------------------------------------------------------------------------
(* What follows from the invariant.                                        *)

(* Whatever the number of buffers, the pipeline stays in its types; the    *)
(* channel of copy.rs never holds more than queue_depth operations.        *)
THEOREM TypeCorrect == Spec => []TypeOK
BY InvariantHolds, PTL DEF IInv

(* While read_image and write_stream both run, none of the queue_depth     *)
(* buffers run_pipeline put into the pool is lost.                         *)
THEOREM NoBufferLost == Spec => []BuffersConserved
BY InvariantHolds, PTL DEF IInv

(* A failed write or sync is what run_pipeline reports, unless the reader  *)
(* panicked.                                                               *)
THEOREM RootCauseWins == Spec => []WriterErrorWins
BY InvariantHolds, PTL DEF IInv

(* pool.recv and rx.recv never wait for each other.                        *)
THEOREM NeverMutualWait == Spec => []NoMutualWait
<1>1. ASSUME IInv, reader = "await", pool = {}, writer = "recv", chan = <<>>
      PROVE  FALSE
  <2>1. PICK b : b \in Buffers
    BY BuffersAssumption
  <2>2. held = NoBuffer /\ cur = NoBuffer
    BY <1>1 DEF IInv, Owned
  <2>3. InFlight = {}
    BY <1>1, EmptyChannel DEF InFlight
  <2>4. b \in pool \/ b = held \/ b \in InFlight \/ b = cur
    BY <1>1, <2>1 DEF IInv, BuffersConserved, ReaderRunning, Streaming
  <2> QED
    BY <1>1, <2>1, <2>2, <2>3, <2>4, SentinelAssumption
<1>2. IInv => NoMutualWait
  BY <1>1 DEF NoMutualWait
<1> QED
  BY <1>2, InvariantHolds, PTL

(* When run_pipeline returns Ok, the reader went through its whole plan    *)
(* and the writer dealt with every operation it sent.                      *)
THEOREM SuccessIsComplete == Spec => []OkMeansComplete
<1>1. IInv => OkMeansComplete
  BY DEF IInv, Returns, OkMeansComplete
<1> QED
  BY <1>1, InvariantHolds, PTL

(* A reader that finds the channel full of batches would hold one buffer   *)
(* more than there are.                                                    *)
THEOREM OnlyGapsFillChannel == Spec => []FullOnlyWithGaps
<1>1. ASSUME IInv, reader = "send", Len(chan) = QueueDepth, Gap \notin InFlight
      PROVE  FALSE
  <2> DEFINE Slots == 1..QueueDepth
             Others == Buffers \ {held}
  <2>1. held \in Buffers
    BY <1>1 DEF IInv, TypeOK, Owned
  <2>2. IsFiniteSet(Others) /\ Cardinality(Others) = QueueDepth - 1
    BY <2>1, BuffersAssumption, FS_RemoveElement DEF QueueDepth
  <2>3. IsFiniteSet(Slots) /\ Cardinality(Slots) = QueueDepth
    BY DepthIsPositive, FS_Interval
  <2>4. Cardinality(Others) < Cardinality(Slots)
    BY <2>2, <2>3, DepthIsPositive
  <2>5. chan \in Seq(Operation)
    BY <1>1 DEF IInv, TypeOK, Operation
  <2>6. \A i \in Slots : chan[i] \in Others
    <3> SUFFICES ASSUME NEW i \in Slots PROVE chan[i] \in Others
      OBVIOUS
    <3>1. i \in 1..Len(chan)
      BY <1>1
    <3>2. chan[i] # Gap
      BY <1>1, <3>1 DEF InFlight
    <3>3. chan[i] \in Operation
      BY <2>5, <3>1, ElementOfSeq
    <3> QED
      BY <1>1, <3>1, <3>2, <3>3 DEF IInv, Once, Operation
  <2>7. chan \in [Slots -> Others]
    BY <1>1, <2>5, <2>6, LenProperties
  <2> HIDE DEF Slots, Others
  <2>8. PICK i, k \in Slots : i # k /\ chan[i] = chan[k]
    BY <2>2, <2>3, <2>4, <2>7, FS_PigeonHole
  <2>9. chan[i] # Gap /\ i \in 1..Len(chan) /\ k \in 1..Len(chan)
    BY <1>1, <2>6, SentinelAssumption DEF Slots, Others
  <2> QED
    BY <1>1, <2>8, <2>9 DEF IInv, Once
<1>2. IInv => FullOnlyWithGaps
  BY <1>1 DEF FullOnlyWithGaps
<1> QED
  BY <1>2, InvariantHolds, PTL

=============================================================================
