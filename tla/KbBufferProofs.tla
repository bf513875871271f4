--------------------------- MODULE KbBufferProofs ---------------------------
(***************************************************************************)
(* For every size of the buffer and every set of scan codes: kb_in is a    *)
(* FIFO that loses a byte only when it is full.                            *)
(***************************************************************************)
EXTENDS KbBuffer, SequenceTheorems, TLAPS

\* IF is clear exactly between disable_int and enable_int: what keeps
\* keyboard_handler from the count while task_tty changes it.
CriticalSection == iflag <=> pc \notin {"read", "load", "store", "sti"}

BufferInv == TypeOK /\ RingInv /\ CriticalSection

-----------------------------------------------------------------------------
\* A pointer that is moved stays within the buffer, and comes back to its
\* start from the last slot only.
LEMMA AdvanceWraps ==
  ASSUME NEW p \in Slots
  PROVE  /\ Advance(p) \in Slots
         /\ p + 1 < KB_IN_BYTES => Advance(p) = p + 1
         /\ p + 1 >= KB_IN_BYTES => Advance(p) = 0
BY KbBufferAssumption DEF Advance, Slots

\* The interrupt, the only step of the other actor, keeps the invariant: it
\* cannot come in the critical section.
LEMMA HandlerKeepsInv ==
  ASSUME BufferInv, NEW byte \in Bytes, keyboard_handler(byte)
  PROVE  BufferInv'
<1> USE KbBufferAssumption DEF BufferInv, CriticalSection
<1>1. CASE count < KB_IN_BYTES
  <2>1. /\ buf' = [buf EXCEPT ![p_head] = byte]
        /\ p_head' = Advance(p_head)
        /\ count' = count + 1
        /\ UNCHANGED <<p_tail, pc, loaded, scan_code, iflag>>
        /\ iflag
    BY <1>1 DEF keyboard_handler
  <2>2. p_head' \in Slots
    BY <2>1, AdvanceWraps DEF TypeOK
  <2>3. TypeOK'
    BY <1>1, <2>1, <2>2 DEF TypeOK
  <2>4. RingInv'
    BY <1>1, <2>1, AdvanceWraps DEF TypeOK, RingInv, Waiting, Slots
  <2> QED BY <2>1, <2>3, <2>4
<1>2. CASE ~(count < KB_IN_BYTES)
  BY <1>2 DEF keyboard_handler, TypeOK, RingInv, Waiting
<1> QED BY <1>1, <1>2

\* A step of task_tty keeps it too.
LEMMA ReaderKeepsInv ==
  ASSUME BufferInv, Call \/ get_byte_from_kb_buf
  PROVE  BufferInv'
<1> USE KbBufferAssumption DEF BufferInv, CriticalSection, TypeOK, RingInv, Waiting, kb_in, Goto
<1>1. CASE Call
  BY <1>1 DEF Call
<1>2. CASE Wait
  BY <1>2 DEF Wait
<1>3. CASE DisableInt
  BY <1>3 DEF DisableInt
<1>4. CASE Read
  <2>1. p_tail' \in Slots /\ scan_code' \in Bytes
    BY <1>4, AdvanceWraps DEF Read
  <2>2. TypeOK' /\ CriticalSection'
    BY <1>4, <2>1 DEF Read
  <2>3. Waiting' = Waiting - 1 /\ p_head' = p_head /\ count' = count
    BY <1>4 DEF Read
  <2>4. p_head' = IF p_tail' + Waiting' < KB_IN_BYTES
                  THEN p_tail' + Waiting'
                  ELSE p_tail' + Waiting' - KB_IN_BYTES
    <3>1. CASE p_tail + 1 < KB_IN_BYTES
      <4>1. p_tail' = p_tail + 1
        BY <1>4, <3>1, AdvanceWraps DEF Read
      <4> QED BY <1>4, <2>3, <4>1 DEF Read, Slots
    <3>2. CASE p_tail + 1 >= KB_IN_BYTES
      <4>1. p_tail' = 0 /\ p_tail = KB_IN_BYTES - 1
        BY <1>4, <3>2, AdvanceWraps DEF Read, Slots
      <4> QED BY <1>4, <2>3, <4>1 DEF Read, Slots
    <3> QED BY <3>1, <3>2 DEF Slots
  <2>5. RingInv'
    BY <1>4, <2>4 DEF Read
  <2> QED BY <2>2, <2>5
<1>5. CASE LoadCount
  BY <1>5 DEF LoadCount
<1>6. CASE StoreCount
  BY <1>6 DEF StoreCount
<1>7. CASE EnableInt
  BY <1>7 DEF EnableInt
<1> QED BY <1>1, <1>2, <1>3, <1>4, <1>5, <1>6, <1>7 DEF get_byte_from_kb_buf

\* Both together.
LEMMA KbBufferInv == Spec => []BufferInv
<1>1. Init => BufferInv
  BY KbBufferAssumption DEF Init, BufferInv, TypeOK, RingInv, CriticalSection, Waiting, Slots
<1>2. BufferInv /\ [Next]_vars => BufferInv'
  <2>1. CASE Next
    BY <2>1, HandlerKeepsInv, ReaderKeepsInv DEF Next
  <2>2. CASE UNCHANGED vars
    BY <2>2 DEF vars, kb_in, BufferInv, TypeOK, RingInv, CriticalSection, Waiting
  <2> QED BY <2>1, <2>2
<1> QED BY <1>1, <1>2, PTL DEF Spec

\* The two pointers and the count agree at every point where an interrupt can
\* look at them, whatever the size of the buffer.
THEOREM KbBufferInvariant == Spec => [](TypeOK /\ RingInv)
<1>1. BufferInv => TypeOK /\ RingInv
  BY DEF BufferInv
<1> QED BY <1>1, KbBufferInv, PTL

-----------------------------------------------------------------------------
\* The bytes that wait, as KbBuffer maps them to LossyFifo's queue.
Queue == [i \in 1 .. Waiting |-> buf[SlotOf(i)]]

LEMMA QueueType ==
  ASSUME BufferInv
  PROVE  /\ Waiting \in 0 .. KB_IN_BYTES
         /\ \A i \in 1 .. KB_IN_BYTES : SlotOf(i) \in Slots
         /\ Queue \in Seq(Bytes)
         /\ Len(Queue) = Waiting
<1> USE KbBufferAssumption DEF BufferInv, TypeOK
<1>1. Waiting \in 0 .. KB_IN_BYTES
  BY DEF RingInv, Waiting
<1>2. ASSUME NEW i \in 1 .. KB_IN_BYTES PROVE SlotOf(i) \in Slots
  BY DEF SlotOf, Slots
<1>3. ASSUME NEW i \in 1 .. Waiting PROVE buf[SlotOf(i)] \in Bytes
  BY <1>1, <1>2
<1>4. Queue \in Seq(Bytes) /\ Len(Queue) = Waiting
  BY <1>1, <1>3 DEF Queue
<1> QED BY <1>1, <1>2, <1>4

\* The interrupt appends its byte, or drops it when the queue is full.
LEMMA HandlerPuts ==
  ASSUME BufferInv, NEW byte \in Bytes, keyboard_handler(byte)
  PROVE  /\ Queue' = IF Len(Queue) < KB_IN_BYTES THEN Append(Queue, byte) ELSE Queue
         /\ UNCHANGED scan_code
<1> USE KbBufferAssumption DEF BufferInv, TypeOK
<1>1. Waiting = count /\ UNCHANGED <<p_tail, pc, scan_code>>
  BY DEF keyboard_handler, CriticalSection, Waiting
<1>2. CASE count < KB_IN_BYTES
  <2>1. /\ buf' = [buf EXCEPT ![p_head] = byte]
        /\ Waiting' = count + 1
    BY <1>1, <1>2 DEF keyboard_handler, Waiting
  <2>2. SlotOf(count + 1) = p_head
    BY <1>1, <1>2 DEF RingInv, SlotOf, Slots
  <2>3. ASSUME NEW i \in 1 .. count PROVE SlotOf(i) # p_head
    BY <1>1, <1>2 DEF RingInv, SlotOf, Slots
  <2>4. ASSUME NEW i \in 1 .. count + 1 PROVE SlotOf(i)' = SlotOf(i) /\ SlotOf(i) \in Slots
    BY <1>1, <1>2, QueueType DEF SlotOf
  <2>5. Queue' = [i \in 1 .. count + 1 |-> buf'[SlotOf(i)]]
    BY <2>1, <2>4 DEF Queue
  <2>6. Len(Queue) = count /\ Queue \in Seq(Bytes)
    BY <1>1, QueueType
  <2>7. ASSUME NEW i \in 1 .. count + 1
        PROVE  buf'[SlotOf(i)] = Append(Queue, byte)[i] /\ buf'[SlotOf(i)] \in Bytes
    <3>1. CASE i = count + 1
      BY <2>1, <2>2, <2>6, <3>1
    <3>2. CASE i # count + 1
      <4>1. i \in 1 .. count /\ Queue[i] = buf[SlotOf(i)]
        BY <1>1, <3>2 DEF Queue
      <4> QED BY <2>1, <2>3, <2>4, <2>6, <3>2, <4>1
    <3> QED BY <3>1, <3>2
  <2>8. /\ Append(Queue, byte) \in Seq(Bytes) /\ Len(Append(Queue, byte)) = count + 1
        /\ Queue' \in Seq(Bytes) /\ Len(Queue') = count + 1
    BY <2>5, <2>6, <2>7
  <2>9. Queue' = Append(Queue, byte)
    <3>1. \A i \in 1 .. Len(Queue') : Queue'[i] = Append(Queue, byte)[i]
      BY <2>5, <2>7, <2>8
    <3> HIDE DEF Queue
    <3> QED BY <2>8, <3>1, SeqEqual
  <2> QED BY <1>1, <1>2, <2>6, <2>9
<1>3. CASE ~(count < KB_IN_BYTES)
  <2>1. UNCHANGED <<buf, Waiting>>
    BY <1>1, <1>3 DEF keyboard_handler, Waiting
  <2>2. Queue' = Queue
    BY <1>1, <2>1 DEF Queue, SlotOf
  <2> QED BY <1>1, <1>3, <2>2, QueueType
<1> QED BY <1>2, <1>3

\* Reading takes the first byte that waits.
LEMMA ReadGets ==
  ASSUME BufferInv, Read
  PROVE  Queue # <<>> /\ scan_code' = Head(Queue) /\ Queue' = Tail(Queue)
<1> USE KbBufferAssumption DEF BufferInv, TypeOK
<1>1. /\ count > 0 /\ Waiting = count /\ Waiting' = count - 1
      /\ scan_code' = buf[p_tail] /\ UNCHANGED buf
      /\ p_tail' = Advance(p_tail)
  BY DEF Read, Goto, RingInv, Waiting
<1>2. Queue \in Seq(Bytes) /\ Len(Queue) = count
  BY <1>1, QueueType
<1>3. Queue[1] = buf[p_tail]
  BY <1>1 DEF Queue, SlotOf, Slots
<1>4. ASSUME NEW i \in 1 .. count - 1 PROVE SlotOf(i)' = SlotOf(i + 1)
  <2>1. CASE p_tail + 1 < KB_IN_BYTES
    <3>1. p_tail' = p_tail + 1
      BY <1>1, <2>1, AdvanceWraps
    <3> QED BY <3>1 DEF SlotOf, Slots
  <2>2. CASE p_tail + 1 >= KB_IN_BYTES
    <3>1. p_tail' = 0 /\ p_tail = KB_IN_BYTES - 1
      BY <1>1, <2>2, AdvanceWraps DEF Slots
    <3> QED BY <3>1 DEF SlotOf
  <2> QED BY <2>1, <2>2 DEF Slots
<1>5. Queue' = [i \in 1 .. count - 1 |-> buf[SlotOf(i + 1)]]
  BY <1>1, <1>4 DEF Queue
<1>6. ASSUME NEW i \in 1 .. count - 1 PROVE Queue[i + 1] = buf[SlotOf(i + 1)]
  BY <1>1 DEF Queue
<1>7. /\ Tail(Queue) \in Seq(Bytes) /\ Len(Tail(Queue)) = count - 1
      /\ \A i \in 1 .. count - 1 : Tail(Queue)[i] = Queue[i + 1]
  BY <1>1, <1>2, HeadTailProperties
<1>8. Queue' = Tail(Queue)
  <2>1. \A i \in 1 .. count - 1 : buf[SlotOf(i + 1)] \in Bytes
    BY <1>2, <1>6
  <2>2. Queue' \in Seq(Bytes) /\ Len(Queue') = count - 1
    BY <1>1, <1>5, <2>1
  <2>3. \A i \in 1 .. Len(Queue') : Queue'[i] = Tail(Queue)[i]
    BY <1>5, <1>6, <1>7, <2>2
  <2> QED BY <1>7, <2>2, <2>3, SeqEqual
<1> QED BY <1>1, <1>2, <1>3, <1>8

\* The other steps of get_byte_from_kb_buf do not show.
LEMMA OtherStepsStutter ==
  ASSUME BufferInv,
         Call \/ Wait \/ DisableInt \/ LoadCount \/ StoreCount \/ EnableInt
  PROVE  UNCHANGED <<Queue, scan_code>>
<1>1. UNCHANGED <<buf, p_tail, scan_code, Waiting>>
  <2> USE DEF kb_in, Goto, Waiting
  <2>1. CASE StoreCount
    BY <2>1 DEF StoreCount, BufferInv, TypeOK, RingInv
  <2>2. CASE Call \/ Wait \/ DisableInt \/ LoadCount \/ EnableInt
    BY <2>2 DEF Call, Wait, DisableInt, LoadCount, EnableInt
  <2> QED BY <2>1, <2>2
<1> QED BY <1>1 DEF Queue, SlotOf

\* For every size of the buffer kb_in is a FIFO that drops a byte only when it
\* is full: neither the wrap of the pointers nor an interrupt between any two
\* accesses of get_byte_from_kb_buf loses, repeats or reorders a byte.
THEOREM KbBufferRefinesFifo == Spec => ImplementsFifo
<1>1. Init => Fifo!FifoInit
  <2> SUFFICES ASSUME Init PROVE Queue = <<>> /\ scan_code \in Bytes
    BY DEF Fifo!FifoInit, Queue
  <2> QED BY KbBufferAssumption DEF Init, Queue, Waiting
<1>2. BufferInv /\ [Next]_vars => [Fifo!FifoNext]_(Fifo!fifoVars)
  <2> SUFFICES ASSUME BufferInv, [Next]_vars
               PROVE  Fifo!FifoNext \/ UNCHANGED <<Queue, scan_code>>
    BY DEF Fifo!fifoVars, Queue
  <2>1. ASSUME NEW byte \in Bytes, keyboard_handler(byte) PROVE Fifo!Put(byte)
    BY <2>1, HandlerPuts DEF Fifo!Put, Queue
  <2>2. CASE Read
    BY <2>2, ReadGets DEF Fifo!FifoNext, Fifo!Get, Queue
  <2>3. CASE UNCHANGED vars
    BY <2>3 DEF vars, kb_in, Queue, Waiting, SlotOf
  <2> QED BY <2>1, <2>2, <2>3, OtherStepsStutter DEF Next, get_byte_from_kb_buf, Fifo!FifoNext
<1> QED BY <1>1, <1>2, KbBufferInv, PTL DEF Spec, ImplementsFifo, Fifo!FifoSpec
=============================================================================
