--------------------------- MODULE SerialTxProofs ---------------------------
(***************************************************************************)
(* SerialInv is an inductive invariant of SerialTx for every ring size,    *)
(* FIFO depth and bound: the ring never loses, repeats or reorders a byte, *)
(* the UART never holds more than two, what it is given before its         *)
(* interrupts are enabled is one stale byte, and without line errors no    *)
(* wakeup is lost on a port that passed its test.                          *)
(***************************************************************************)
EXTENDS SerialTx, SequenceTheorems, TLAPS

\* One turn past the end of buff still wraps into it.
LEMMA WrapSlot ==
    ASSUME NEW p \in 0 .. 2 * BuffSize - 1
    PROVE  Wrap(p) \in Slots
BY SerialAssumption DEF Wrap, Slots

\* The slots of buff are numbered from 0.
LEMMA SlotsType == Slots \subseteq Nat /\ BuffSize \in Nat /\ BuffSize > 0 /\ 0 \in Slots
BY SerialAssumption DEF Slots

\* A ring with contents b and n bytes from the consumer on holds what the
\* stream strm has beyond the bytes already handed over.
Holds(b, n, strm) ==
    /\ n \in 0 .. BuffSize
    /\ Len(strm) = Len(handed) + n
    /\ \A i \in 1 .. n : b[Wrap(consumer + i - 1)] = strm[Len(handed) + i]

\* hardware_write moves the byte at the consumer, the oldest one, to the UART.
LEMMA HardwareWriteKeepsRing ==
    ASSUME TypeOK, SentInOrder,
           NEW b \in [Slots -> Nat], NEW n, NEW strm \in Seq(Nat), NEW busy \in BOOLEAN,
           Holds(b, n, strm),
           \A i \in 1 .. Len(handed) : handed[i] = strm[i],
           HardwareWrite(b, n, busy), buff' = b, stream' = strm,
           producer' = Wrap(consumer + n)
    PROVE  /\ RingConsistent' /\ SentInOrder'
           /\ count' \in 0 .. BuffSize /\ consumer' \in Slots /\ handed' \in Seq(Nat)
           /\ tx_busy' \in BOOLEAN
           /\ \/ tx_busy' = busy /\ Len(handed') = Len(handed)
              \/ ~busy /\ tx_busy' = TRUE /\ Len(handed') = Len(handed) + 1
<1>1. /\ n \in 0 .. BuffSize /\ n \in Nat
      /\ consumer \in Slots /\ consumer \in Nat /\ consumer < BuffSize
      /\ handed \in Seq(Nat) /\ Len(handed) \in Nat
      /\ BuffSize \in Nat /\ BuffSize > 0
  BY SerialAssumption DEF Holds, TypeOK, Slots
<1>2. CASE busy \/ ~(n > 0)
  <2>1. /\ tx_busy' = busy /\ count' = n /\ consumer' = consumer /\ handed' = handed
    BY <1>2 DEF HardwareWrite
  <2>2. RingConsistent'
    BY <1>1, <2>1 DEF Holds, RingConsistent, Wrap
  <2>3. SentInOrder'
    BY <1>1, <2>1 DEF Holds, SentInOrder
  <2> QED
    BY <1>1, <2>1, <2>2, <2>3 DEF TypeOK
<1>3. CASE ~busy /\ n > 0
  <2>1. /\ tx_busy' = TRUE /\ count' = n - 1
        /\ consumer' = Wrap(consumer + 1)
        /\ handed' = Append(handed, b[consumer])
    BY <1>3 DEF HardwareWrite
  <2>2. /\ b[consumer] \in Nat /\ b[consumer] = strm[Len(handed) + 1]
    <3>1. Wrap(consumer + 1 - 1) = consumer
      BY <1>1 DEF Wrap
    <3>2. 1 \in 1 .. n
      BY <1>1, <1>3
    <3> QED
      BY <1>1, <3>1, <3>2 DEF Holds
  <2>3. /\ handed' \in Seq(Nat) /\ Len(handed') = Len(handed) + 1
        /\ handed'[Len(handed) + 1] = strm[Len(handed) + 1]
        /\ \A i \in 1 .. Len(handed) : handed'[i] = handed[i]
    BY <1>1, <2>1, <2>2
  <2>4. consumer' \in Slots
    BY <1>1, <2>1 DEF Wrap, Slots
  <2>5. SentInOrder'
    <3>1. Len(handed') <= Len(stream')
      BY <1>1, <1>3, <2>3 DEF Holds
    <3>2. \A i \in 1 .. Len(handed') : i \in 1 .. Len(handed) \/ i = Len(handed) + 1
      BY <1>1, <2>3
    <3> QED
      BY <2>3, <3>1, <3>2 DEF SentInOrder
  <2>6. RingConsistent'
    <3>1. producer' = Wrap(consumer' + count')
      BY <1>1, <1>3, <2>1 DEF Wrap
    <3>2. Len(stream') = Len(handed') + count'
      <4>1. Len(stream') = Len(handed) + n
        BY DEF Holds
      <4> QED
        BY <1>1, <1>3, <2>1, <2>3, <4>1
    <3>3. ASSUME NEW i \in 1 .. n - 1
          PROVE  b[Wrap(consumer' + i - 1)] = strm[Len(handed') + i]
      <4>1. i + 1 \in 1 .. n
        BY <1>1
      <4>2. Wrap(consumer' + i - 1) = Wrap(consumer + (i + 1) - 1)
        BY <1>1, <2>1 DEF Wrap
      <4>3. Len(handed') + i = Len(handed) + (i + 1)
        BY <1>1, <2>3
      <4> QED
        BY <4>1, <4>2, <4>3 DEF Holds
    <3> QED
      BY <2>1, <3>1, <3>2, <3>3 DEF RingConsistent, Wrap
  <2>7. count' \in 0 .. BuffSize
    BY <1>1, <1>3, <2>1
  <2>8. ~busy /\ tx_busy' = TRUE /\ Len(handed') = Len(handed) + 1 /\ tx_busy' \in BOOLEAN
    BY <1>3, <2>1, <2>3
  <2> QED
    BY <2>3, <2>4, <2>5, <2>6, <2>7, <2>8
<1> QED
  BY <1>2, <1>3

\* How far ahead of the producer the i-th slot from the consumer on is: the used
\* slots come last, the free ones first and in order.
LEMMA AheadOf ==
    ASSUME consumer \in Slots, count \in 0 .. BuffSize,
           producer = Wrap(consumer + count), NEW i \in 1 .. BuffSize
    PROVE  /\ Wrap(consumer + i - 1) \in Slots
           /\ i <= count => Ahead(Wrap(consumer + i - 1)) = BuffSize + i - 1 - count
           /\ i > count => Ahead(Wrap(consumer + i - 1)) = i - 1 - count
BY SerialAssumption DEF Slots, Wrap, Ahead

\* The distance of a slot ahead of the producer is a natural number.
LEMMA AheadType ==
    ASSUME producer \in Slots, NEW s \in Slots
    PROVE  Ahead(s) \in Nat
BY SerialAssumption DEF Slots, Ahead

\* What SER_write puts in the ring for n bytes that fit extends what it held.
LEMMA FillExtendsRing ==
    ASSUME TypeOK, RingConsistent, port # "early",
           NEW bytes \in Seq(Nat), NEW n \in 0 .. Len(bytes), n <= BuffSize - count,
           NEW b, b = [s \in Slots |-> IF Ahead(s) < n THEN bytes[Ahead(s) + 1] ELSE buff[s]]
    PROVE  /\ b \in [Slots -> Nat]
           /\ stream \o SubSeq(bytes, 1, n) \in Seq(Nat)
           /\ Holds(b, count + n, stream \o SubSeq(bytes, 1, n))
           /\ Wrap(producer + n) = Wrap(consumer + (count + n))
           /\ Wrap(producer + n) \in Slots
           /\ Len(stream \o SubSeq(bytes, 1, n)) >= Len(stream)
<1> DEFINE strm == stream \o SubSeq(bytes, 1, n)
<1>1. /\ count \in 0 .. BuffSize /\ consumer \in Slots /\ producer \in Slots
      /\ producer = Wrap(consumer + count)
      /\ handed \in Seq(Nat) /\ Len(handed) \in Nat
      /\ stream \in Seq(Nat) /\ Len(stream) = Len(handed) + count
      /\ BuffSize \in Nat /\ BuffSize > 0
      /\ n \in Nat /\ Len(bytes) \in Nat /\ n <= Len(bytes)
  BY SerialAssumption DEF TypeOK, RingConsistent
<1>2. b \in [Slots -> Nat]
  <2>1. ASSUME NEW s \in Slots, Ahead(s) < n
        PROVE  bytes[Ahead(s) + 1] \in Nat
    <3>1. Ahead(s) \in Nat
      BY <1>1, AheadType
    <3>2. Ahead(s) + 1 \in 1 .. Len(bytes)
      BY <1>1, <2>1, <3>1
    <3> QED
      BY <3>2
  <2>2. \A s \in Slots : buff[s] \in Nat
    BY DEF TypeOK
  <2> QED
    BY <2>1, <2>2
<1>3. /\ strm \in Seq(Nat) /\ Len(strm) = Len(stream) + n
      /\ \A k \in 1 .. Len(stream) : strm[k] = stream[k]
      /\ \A k \in 1 .. n : strm[Len(stream) + k] = bytes[k]
  <2> DEFINE part == SubSeq(bytes, 1, n)
  <2>1. part \in Seq(Nat) /\ Len(part) = n /\ \A k \in 1 .. n : part[k] = bytes[k]
    BY <1>1
  <2> HIDE DEF part
  <2>2. /\ stream \o part \in Seq(Nat) /\ Len(stream \o part) = Len(stream) + n
        /\ \A k \in 1 .. Len(stream) + n :
              (stream \o part)[k] = IF k <= Len(stream) THEN stream[k] ELSE part[k - Len(stream)]
    BY <1>1, <2>1, ConcatProperties
  <2>3. \A k \in 1 .. Len(stream) : (stream \o part)[k] = stream[k]
    BY <1>1, <2>2
  <2>4. ASSUME NEW k \in 1 .. n
        PROVE  (stream \o part)[Len(stream) + k] = part[k]
    <3>1. /\ Len(stream) + k \in 1 .. Len(stream) + n
          /\ ~(Len(stream) + k <= Len(stream)) /\ (Len(stream) + k) - Len(stream) = k
      BY <1>1
    <3> QED
      BY <2>2, <3>1
  <2> QED
    BY <2>1, <2>2, <2>3, <2>4 DEF part
<1> HIDE DEF strm
<1>4. ASSUME NEW i \in 1 .. count + n
      PROVE  b[Wrap(consumer + i - 1)] = strm[Len(handed) + i]
  <2>1. i \in 1 .. BuffSize /\ i \in Nat /\ i >= 1 /\ i <= count + n
    BY <1>1
  <2>2. /\ Wrap(consumer + i - 1) \in Slots
        /\ i <= count => Ahead(Wrap(consumer + i - 1)) = BuffSize + i - 1 - count
        /\ i > count => Ahead(Wrap(consumer + i - 1)) = i - 1 - count
    BY <1>1, <2>1, AheadOf
  <2>3. CASE i <= count
    <3>1. ~(Ahead(Wrap(consumer + i - 1)) < n)
      BY <1>1, <2>1, <2>2, <2>3
    <3>2. b[Wrap(consumer + i - 1)] = buff[Wrap(consumer + i - 1)]
      BY <2>2, <3>1
    <3>3. i \in 1 .. count /\ Len(handed) + i \in 1 .. Len(stream)
      BY <1>1, <2>1, <2>3
    <3> QED
      BY <1>3, <3>2, <3>3 DEF RingConsistent
  <2>4. CASE i > count
    <3>1. /\ Ahead(Wrap(consumer + i - 1)) < n
          /\ Ahead(Wrap(consumer + i - 1)) + 1 = i - count
      BY <1>1, <2>1, <2>2, <2>4
    <3>2. b[Wrap(consumer + i - 1)] = bytes[i - count]
      BY <2>2, <3>1
    <3>3. i - count \in 1 .. n /\ Len(stream) + (i - count) = Len(handed) + i
      BY <1>1, <2>1, <2>4
    <3> QED
      BY <1>3, <3>2, <3>3
  <2> QED
    BY <1>1, <2>1, <2>3, <2>4
<1>5. Holds(b, count + n, strm)
  <2>1. count + n \in 0 .. BuffSize /\ Len(strm) = Len(handed) + (count + n)
    BY <1>1, <1>3
  <2> QED
    BY <1>4, <2>1 DEF Holds
<1>6. Wrap(producer + n) = Wrap(consumer + (count + n)) /\ Wrap(producer + n) \in Slots
  BY <1>1 DEF Wrap, Slots
<1>7. Len(strm) >= Len(stream)
  BY <1>1, <1>3
<1> QED
  BY <1>2, <1>3, <1>5, <1>6, <1>7 DEF strm

\* SER_write, the byte it passes on included, keeps the ring consistent.
LEMMA SerWriteKeepsRing ==
    ASSUME TypeOK, RingConsistent, SentInOrder, port # "early",
           NEW bytes \in Seq(Nat), SerWrite(bytes)
    PROVE  /\ RingConsistent' /\ SentInOrder'
           /\ buff' \in [Slots -> Nat] /\ producer' \in Slots /\ consumer' \in Slots
           /\ count' \in 0 .. BuffSize /\ tx_busy' \in BOOLEAN
           /\ stream' \in Seq(Nat) /\ handed' \in Seq(Nat)
           /\ Len(stream') >= Len(stream)
           /\ \A i \in 1 .. Len(stream) : stream'[i] = stream[i]
           /\ \/ tx_busy' = tx_busy /\ Len(handed') = Len(handed)
              \/ ~tx_busy /\ tx_busy' = TRUE /\ Len(handed') = Len(handed) + 1
<1> DEFINE n == IF BuffSize - count >= Len(bytes) THEN Len(bytes) ELSE BuffSize - count
           b == [s \in Slots |-> IF Ahead(s) < n THEN bytes[Ahead(s) + 1] ELSE buff[s]]
           strm == stream \o SubSeq(bytes, 1, n)
<1>1. n \in 0 .. Len(bytes) /\ n <= BuffSize - count
  BY SerialAssumption DEF TypeOK
<1>2. /\ buff' = b /\ producer' = Wrap(producer + n) /\ stream' = strm
      /\ HardwareWrite(b, count + n, tx_busy)
  BY DEF SerWrite
<1> HIDE DEF n
<1>3. /\ b \in [Slots -> Nat] /\ strm \in Seq(Nat)
      /\ Holds(b, count + n, strm)
      /\ Wrap(producer + n) = Wrap(consumer + (count + n))
      /\ Wrap(producer + n) \in Slots
      /\ Len(strm) >= Len(stream)
  BY <1>1, FillExtendsRing
<1>4. /\ \A i \in 1 .. Len(handed) : handed[i] = strm[i]
      /\ \A i \in 1 .. Len(stream) : strm[i] = stream[i]
  <2>1. \A i \in 1 .. Len(handed) : i \in 1 .. Len(stream) /\ handed[i] = stream[i]
    BY DEF TypeOK, SentInOrder
  <2>2. SubSeq(bytes, 1, n) \in Seq(Nat)
    BY <1>1
  <2>3. \A i \in 1 .. Len(stream) : strm[i] = stream[i]
    BY <2>2 DEF TypeOK
  <2> QED
    BY <2>1, <2>3
<1> HIDE DEF b, strm
<1>5. tx_busy \in BOOLEAN
  BY DEF TypeOK
<1>6. /\ RingConsistent' /\ SentInOrder'
      /\ count' \in 0 .. BuffSize /\ consumer' \in Slots /\ handed' \in Seq(Nat)
      /\ tx_busy' \in BOOLEAN
      /\ \/ tx_busy' = tx_busy /\ Len(handed') = Len(handed)
         \/ ~tx_busy /\ tx_busy' = TRUE /\ Len(handed') = Len(handed) + 1
  BY <1>2, <1>3, <1>4, <1>5, HardwareWriteKeepsRing
<1> QED
  BY <1>2, <1>3, <1>4, <1>6

-----------------------------------------------------------------------------
(* Each step keeps the invariant.                                          *)

ringVars == <<port, buff, producer, consumer, count, stream, handed>>

\* A step that does not touch the ring keeps what is said of it.
LEMMA RingUntouched ==
    RingConsistent /\ SentInOrder /\ UNCHANGED ringVars => RingConsistent' /\ SentInOrder'
BY DEF RingConsistent, SentInOrder, ringVars, Wrap

\* Nothing has been written yet.
LEMMA InitInv == Init => SerialInv
<1> SUFFICES ASSUME Init PROVE SerialInv
  OBVIOUS
<1>1. TypeOK
  <2>1. [s \in Slots |-> Stale] \in [Slots -> Nat]
    BY DEF Stale
  <2>2. << >> \in Seq(Nat)
    OBVIOUS
  <2>3. 0 \in 0 .. EarlyChars /\ 0 \in 0 .. BuffSize
    BY SerialAssumption
  <2> QED
    BY <2>1, <2>2, <2>3, SlotsType DEF Init, TypeOK
<1>2. EarlyState
  BY DEF Init, EarlyState
<1>3. RingConsistent /\ WakeState /\ SetUpState
  BY DEF Init, RingConsistent, WakeState, SetUpState
<1>4. SentInOrder
  BY DEF Init, SentInOrder
<1>5. FifoState /\ MessageLeft
  BY DEF Init, FifoState, MessageLeft
<1> QED
  BY <1>1, <1>2, <1>3, <1>4, <1>5 DEF SerialInv

\* printk before SER_init only moves count and tx_busy.
LEMMA EarlyWriteInv == SerialInv /\ EarlyWrite => SerialInv'
<1> SUFFICES ASSUME SerialInv, EarlyWrite PROVE SerialInv'
  OBVIOUS
<1>1. TypeOK'
  BY SerialAssumption DEF SerialInv, TypeOK, EarlyWrite, uart, handler, history
<1>2. EarlyState'
  BY SerialAssumption DEF SerialInv, TypeOK, EarlyState, EarlyWrite, uart, handler, history
<1>3. RingConsistent' /\ WakeState' /\ SetUpState'
  BY DEF SerialInv, EarlyWrite, RingConsistent, WakeState, SetUpState, uart, handler
<1>4. SentInOrder'
  BY DEF SerialInv, EarlyWrite, SentInOrder, history
<1>5. FifoState' /\ MessageLeft'
  BY DEF SerialInv, EarlyState, EarlyWrite, FifoState, MessageLeft, uart, handler
<1> QED
  BY <1>1, <1>2, <1>3, <1>4, <1>5 DEF SerialInv

\* The early characters have filled count, so the pointers SER_init resets
\* agree with the count it leaves alone.
LEMMA SerResetInv == SerialInv /\ SerReset => SerialInv'
<1> SUFFICES ASSUME SerialInv, SerReset PROVE SerialInv'
  OBVIOUS
<1>1. /\ count = BuffSize /\ BuffSize \in Nat /\ BuffSize > 0
      /\ early = EarlyChars /\ early > 0
      /\ port = "early" /\ fifo = 0 /\ ~thre /\ ~irr /\ h = "none"
      /\ handed = << >> /\ buff = [s \in Slots |-> Stale]
  BY SerialAssumption DEF SerialInv, TypeOK, EarlyState, SetUpState, SerReset
<1>2. /\ stream' \in Seq(Nat) /\ Len(stream') = BuffSize
      /\ \A i \in 1 .. BuffSize : stream'[i] = Stale
  BY <1>1 DEF SerReset, Stale
<1>3. /\ port' = "setup" /\ ~tx_busy' /\ early' = early /\ count' = count /\ buff' = buff
      /\ producer' = 0 /\ consumer' = 0
      /\ fifo' = fifo /\ thre' = thre /\ line_status' = line_status /\ irr' = irr
      /\ h' = h /\ left' = left /\ offered' = offered /\ errors' = errors
      /\ handed' = << >> /\ Len(handed') = 0
  BY <1>1 DEF SerReset, uart, handler
<1>4. TypeOK'
  <2>1. tx_busy' \in BOOLEAN
    BY DEF SerReset
  <2> QED
    BY <1>1, <1>2, <1>3, <2>1, SlotsType DEF SerialInv, TypeOK
<1>5. EarlyState'
  BY <1>3 DEF EarlyState
<1>6. RingConsistent'
  <2>1. producer' = Wrap(consumer' + count')
    BY <1>1, <1>3 DEF Wrap
  <2>2. Len(stream') = Len(handed') + count'
    BY <1>1, <1>2, <1>3
  <2>3. ASSUME NEW i \in 1 .. count'
        PROVE  buff'[Wrap(consumer' + i - 1)] = stream'[Len(handed') + i]
    <3>1. Wrap(consumer' + i - 1) \in Slots
      BY <1>1, <1>3 DEF Wrap, Slots
    <3>2. Len(handed') + i = i /\ i \in 1 .. BuffSize
      BY <1>1, <1>3
    <3> QED
      BY <1>1, <1>2, <1>3, <3>1, <3>2
  <2> QED
    BY <2>1, <2>2, <2>3 DEF RingConsistent, Wrap
<1>7. SentInOrder'
  BY <1>1, <1>2, <1>3 DEF SentInOrder
<1>8. FifoState' /\ WakeState' /\ MessageLeft'
  BY <1>1, <1>3 DEF SerialInv, FifoState, WakeState, MessageLeft
<1>9. SetUpState'
  BY <1>1, <1>2, <1>3 DEF SetUpState
<1> QED
  BY <1>4, <1>5, <1>6, <1>7, <1>8, <1>9 DEF SerialInv

\* The FIFO is cleared and tested, the interrupts are enabled, or the port is
\* given up: the ring stays as it is.
LEMMA PortInv == SerialInv /\ (SerTest \/ SerEnable \/ SerFaulty) => SerialInv'
<1> SUFFICES ASSUME SerialInv, SerTest \/ SerEnable \/ SerFaulty PROVE SerialInv'
  OBVIOUS
<1>1. /\ early' = early /\ line_status' = line_status /\ h' = h
      /\ buff' = buff /\ producer' = producer /\ consumer' = consumer /\ count' = count
      /\ tx_busy' = tx_busy
      /\ offered' = offered /\ errors' = errors /\ stream' = stream /\ handed' = handed
      /\ port \in {"setup", "test"} /\ port' \in {"test", "working", "faulty"}
  BY DEF SerTest, SerEnable, SerFaulty, ring, uart, handler, history
<1>2. h = "none" /\ ~thre /\ ~irr
  BY <1>1 DEF SerialInv, SetUpState
<1>3. fifo \in Nat /\ fifo <= 2 /\ (~tx_busy => fifo <= 1) /\ left \in Nat
  BY <1>2 DEF SerialInv, TypeOK, FifoState
<1>4. thre = FALSE /\ irr = FALSE
  BY <1>2 DEF SerialInv, TypeOK
<1>5. fifo' \in Nat /\ fifo' <= 2 /\ (~tx_busy => fifo' <= 1)
  <2>1. fifo' = 1 \/ fifo' = fifo
    BY DEF SerTest, SerEnable, SerFaulty, uart
  <2> QED
    BY <1>3, <2>1
<1>6. left' \in Nat /\ (port' = "faulty" => left' > 0)
  <2>1. \/ left' = left /\ port' # "faulty"
        \/ left' = FaultChars
    BY DEF SerTest, SerEnable, SerFaulty, handler
  <2> QED
    BY <1>3, <2>1, SerialAssumption
<1>7. CASE SerTest \/ SerFaulty
  <2>1. thre' = FALSE /\ irr' = FALSE /\ port' # "working" /\ port' # "early"
    BY <1>4, <1>7 DEF SerTest, SerFaulty, uart
  <2>2. TypeOK'
    BY <1>1, <1>5, <1>6, <2>1 DEF SerialInv, TypeOK
  <2>3. FifoState' /\ WakeState' /\ MessageLeft'
    BY <1>1, <1>2, <1>5, <1>6, <2>1 DEF SerialInv, FifoState, WakeState, MessageLeft
  <2>4. SetUpState' /\ EarlyState'
    BY <1>1, <1>2, <2>1 DEF SerialInv, SetUpState, EarlyState
  <2>5. RingConsistent' /\ SentInOrder'
    BY <1>1 DEF SerialInv, RingConsistent, SentInOrder, Wrap
  <2> QED
    BY <2>2, <2>3, <2>4, <2>5 DEF SerialInv
<1>8. CASE SerEnable
  <2>1. /\ port = "test" /\ port' = "working" /\ fifo' = fifo
        /\ thre' = (fifo = 0)
    BY <1>8 DEF SerEnable
  <2>2. irr' \in BOOLEAN /\ (thre' => irr')
    BY <1>4, <1>8, <2>1 DEF SerEnable, Latch, Line
  <2>3. thre' \in BOOLEAN /\ (thre' => fifo' = 0)
    BY <2>1, Zenon
  <2>4. fifo' > 0 \/ thre'
    <3>1. fifo' = 0 => thre'
      BY <2>1, Zenon
    <3> QED
      BY <1>5, <3>1
  <2>5. TypeOK'
    BY <1>1, <1>5, <1>6, <2>1, <2>2, <2>3 DEF SerialInv, TypeOK
  <2>6. FifoState' /\ MessageLeft'
    BY <1>1, <1>2, <1>5, <2>1, <2>3 DEF FifoState, MessageLeft
  <2>7. WakeState'
    BY <1>1, <1>2, <2>2, <2>4 DEF SerialInv, WakeState
  <2>8. SetUpState' /\ EarlyState'
    BY <1>1, <2>1 DEF SerialInv, SetUpState, EarlyState
  <2>9. RingConsistent' /\ SentInOrder'
    BY <1>1 DEF SerialInv, RingConsistent, SentInOrder, Wrap
  <2> QED
    BY <2>5, <2>6, <2>7, <2>8, <2>9 DEF SerialInv
<1> QED
  BY <1>7, <1>8

\* What SER_write is called with: numbered bytes.
LEMMA FreshBytes ==
    ASSUME offered \in Nat, NEW n \in Nat
    PROVE  Fresh(n) \in Seq(Nat)
BY DEF Fresh

\* What the byte hardware_write passes on does to the FIFO.
LEMMA HardwareWriteFifo ==
    ASSUME NEW b, NEW n \in Nat, NEW busy \in BOOLEAN, HardwareWrite(b, n, busy)
    PROVE  \/ fifo' = fifo + 1 /\ thre' = FALSE /\ tx_busy' = TRUE /\ ~busy
           \/ /\ fifo' = fifo /\ thre' = thre /\ tx_busy' = busy /\ count' = n
              /\ busy \/ n = 0
BY DEF HardwareWrite

\* SER_write as it is called by the kernel and by the handler.
LEMMA SerWriteFifo ==
    ASSUME TypeOK, NEW bytes \in Seq(Nat), SerWrite(bytes)
    PROVE  \/ fifo' = fifo + 1 /\ thre' = FALSE /\ tx_busy' = TRUE /\ ~tx_busy
           \/ /\ fifo' = fifo /\ thre' = thre /\ tx_busy' = tx_busy
              /\ tx_busy' \/ ~(count' > 0)
<1> DEFINE n == IF BuffSize - count >= Len(bytes) THEN Len(bytes) ELSE BuffSize - count
           b == [s \in Slots |-> IF Ahead(s) < n THEN bytes[Ahead(s) + 1] ELSE buff[s]]
<1>1. n \in Nat /\ count \in Nat /\ tx_busy \in BOOLEAN
  BY SerialAssumption DEF TypeOK
<1>2. HardwareWrite(b, count + n, tx_busy)
  BY DEF SerWrite
<1> HIDE DEF n, b
<1>3. count + n \in Nat
  BY <1>1
<1>4. \/ fifo' = fifo + 1 /\ thre' = FALSE /\ tx_busy' = TRUE /\ ~tx_busy
      \/ /\ fifo' = fifo /\ thre' = thre /\ tx_busy' = tx_busy /\ count' = count + n
         /\ tx_busy \/ count + n = 0
  BY <1>1, <1>2, <1>3, HardwareWriteFifo
<1> QED
  BY <1>4

\* SER_write called by whom it may: the kernel, a key's handler, the handler of
\* the port with its message, or SER_init with its own.
LEMMA SerWriteInv ==
    ASSUME SerialInv, port # "early", NEW n \in Nat, SerWrite(Fresh(n)),
           early' = early, offered' = offered + n, errors' = errors,
           port' = port \/ (port = "faulty" /\ port' = "unusable"),
           h \in {"none", "error"}, h' = h \/ (h = "error" /\ h' = "eoi"),
           left' \in Nat, MessageLeft'
    PROVE  SerialInv'
<1>1. Fresh(n) \in Seq(Nat) /\ offered \in Nat
  BY FreshBytes DEF SerialInv, TypeOK
<1>2. line_status' = line_status /\ irr' = irr
  BY DEF SerWrite
<1>3. /\ RingConsistent' /\ SentInOrder'
      /\ buff' \in [Slots -> Nat] /\ producer' \in Slots /\ consumer' \in Slots
      /\ count' \in 0 .. BuffSize /\ tx_busy' \in BOOLEAN
      /\ stream' \in Seq(Nat) /\ handed' \in Seq(Nat)
      /\ Len(stream') >= Len(stream)
      /\ \A i \in 1 .. Len(stream) : stream'[i] = stream[i]
      /\ \/ tx_busy' = tx_busy /\ Len(handed') = Len(handed)
         \/ ~tx_busy /\ tx_busy' = TRUE /\ Len(handed') = Len(handed) + 1
  BY <1>1, SerWriteKeepsRing DEF SerialInv
<1>4. \/ fifo' = fifo + 1 /\ thre' = FALSE /\ tx_busy' = TRUE /\ ~tx_busy
      \/ /\ fifo' = fifo /\ thre' = thre /\ tx_busy' = tx_busy
         /\ tx_busy' \/ ~(count' > 0)
  BY <1>1, SerWriteFifo DEF SerialInv
<1>5. fifo' \in Nat /\ thre' \in BOOLEAN
  <2>1. fifo \in Nat /\ thre \in BOOLEAN
    BY DEF SerialInv, TypeOK
  <2>2. fifo' \in Nat
    BY <1>4, <2>1
  <2>3. thre' \in BOOLEAN
    BY <1>4, <2>1
  <2> QED
    BY <2>2, <2>3
<1>6. TypeOK'
  <2>1. offered' \in Nat
    BY <1>1
  <2> QED
    BY <1>2, <1>3, <1>5, <2>1 DEF SerialInv, TypeOK
<1>7. EarlyState'
  BY DEF EarlyState
<1>8. FifoState'
  BY <1>4 DEF SerialInv, TypeOK, FifoState
<1>9. WakeState'
  <2>1. errors = 0 => h' = h
    BY DEF SerialInv, WakeState
  <2> QED
    BY <1>2, <1>4, <2>1 DEF SerialInv, TypeOK, WakeState
<1>10. SetUpState'
  <2>1. port' # "working" =>
           /\ port # "working" /\ ~thre /\ ~irr /\ h = "none"
           /\ Len(handed) = IF tx_busy THEN 1 ELSE 0
    BY DEF SerialInv, SetUpState
  <2>2. port' # "working" => ~thre' /\ ~irr' /\ h' = "none"
    BY <1>2, <1>4, <2>1
  <2>3. port' # "working" => Len(handed') = IF tx_busy' THEN 1 ELSE 0
    <3>1. CASE tx_busy' = tx_busy /\ Len(handed') = Len(handed)
      BY <2>1, <3>1
    <3>2. CASE ~tx_busy /\ tx_busy' = TRUE /\ Len(handed') = Len(handed) + 1
      BY <2>1, <3>2
    <3> QED
      BY <1>3, <3>1, <3>2
  <2>4. Len(stream') > 0 /\ stream'[1] = Stale
    <3>1. Len(stream) \in Nat /\ Len(stream) > 0 /\ stream[1] = Stale
      BY DEF SerialInv, TypeOK, SetUpState
    <3>2. Len(stream') \in Nat /\ 1 \in 1 .. Len(stream)
      BY <1>3, <3>1
    <3> QED
      BY <1>3, <3>1, <3>2
  <2> QED
    BY <2>2, <2>3, <2>4 DEF SetUpState
<1> QED
  BY <1>3, <1>6, <1>7, <1>8, <1>9, <1>10 DEF SerialInv

\* The kernel prints, or a key's handler.
LEMMA WriteInv == SerialInv /\ Write => SerialInv'
<1> SUFFICES ASSUME SerialInv, Write PROVE SerialInv'
  OBVIOUS
<1>1. PICK n \in 1 .. MaxWrite : SerWrite(Fresh(n)) /\ offered' = offered + n
  BY DEF Write
<1>2. /\ n \in Nat /\ port # "early" /\ port' = port /\ early' = early
      /\ h \in {"none", "error"} /\ h' = h /\ left' = left /\ errors' = errors
  BY DEF Write, handler
<1>3. left' \in Nat /\ MessageLeft'
  BY <1>2 DEF SerialInv, TypeOK, MessageLeft
<1> QED
  BY <1>1, <1>2, <1>3, SerWriteInv

\* SER_init says that the port is faulty.
LEMMA PrintFaultInv == SerialInv /\ PrintFault => SerialInv'
<1> SUFFICES ASSUME SerialInv, PrintFault PROVE SerialInv'
  OBVIOUS
<1>1. /\ SerWrite(Fresh(1)) /\ offered' = offered + 1 /\ 1 \in Nat
      /\ port = "faulty" /\ early' = early /\ h' = h /\ errors' = errors
      /\ left' = left - 1
      /\ port' = IF left = 1 THEN "unusable" ELSE "faulty"
  BY DEF PrintFault
<1>2. left \in Nat /\ left > 0 /\ h = "none"
  BY <1>1 DEF SerialInv, TypeOK, MessageLeft, SetUpState
<1>3. left' \in Nat /\ MessageLeft'
  BY <1>1, <1>2 DEF MessageLeft
<1>4. /\ port # "early" /\ (port' = port \/ (port = "faulty" /\ port' = "unusable"))
      /\ h \in {"none", "error"}
  BY <1>1, <1>2
<1> QED
  BY <1>1, <1>3, <1>4, SerWriteInv

\* The handler prints its error message.
LEMMA PrintErrorInv == SerialInv /\ PrintError => SerialInv'
<1> SUFFICES ASSUME SerialInv, PrintError PROVE SerialInv'
  OBVIOUS
<1>1. /\ SerWrite(Fresh(1)) /\ offered' = offered + 1 /\ 1 \in Nat
      /\ port' = port /\ early' = early /\ errors' = errors
      /\ h = "error" /\ left' = left - 1
      /\ h' = IF left = 1 THEN "eoi" ELSE "error"
  BY DEF PrintError
<1>2. left \in Nat /\ left > 0 /\ port = "working"
  BY <1>1 DEF SerialInv, TypeOK, MessageLeft, SetUpState
<1>3. left' \in Nat /\ MessageLeft'
  BY <1>1, <1>2 DEF MessageLeft
<1>4. /\ port # "early" /\ (h' = h \/ (h = "error" /\ h' = "eoi"))
      /\ h \in {"none", "error"}
  BY <1>1, <1>2
<1> QED
  BY <1>1, <1>3, <1>4, SerWriteInv

\* A step of the UART or of its line leaves the ring alone.
LEMMA SendInv == SerialInv /\ Send => SerialInv'
<1> SUFFICES ASSUME SerialInv, Send PROVE SerialInv'
  OBVIOUS
<1>1. /\ port' = port /\ early' = early /\ h' = h /\ left' = left
      /\ buff' = buff /\ producer' = producer /\ consumer' = consumer /\ count' = count
      /\ tx_busy' = tx_busy /\ line_status' = line_status
      /\ offered' = offered /\ errors' = errors /\ stream' = stream /\ handed' = handed
  BY DEF Send, ring, handler, history
<1>2. /\ fifo > 0 /\ fifo \in Nat /\ fifo' = fifo - 1 /\ port # "early" /\ ~thre
      /\ thre' = (fifo = 1 /\ port = "working") /\ thre' \in BOOLEAN
  BY DEF SerialInv, TypeOK, EarlyState, FifoState, Send
<1>3. /\ irr' = (irr \/ (~Line(port, thre, line_status) /\ Line(port, thre', line_status)))
      /\ irr' \in BOOLEAN
  BY <1>1 DEF Send, Latch, SerialInv, TypeOK
<1>4. TypeOK'
  BY <1>1, <1>2, <1>3 DEF SerialInv, TypeOK
<1>5. EarlyState'
  BY <1>1, <1>2 DEF EarlyState
<1>6. RingConsistent' /\ SentInOrder'
  BY <1>1, RingUntouched DEF SerialInv, ringVars
<1>7. FifoState'
  <2>1. thre' => fifo' = 0
    <3>1. thre' => fifo = 1
      BY <1>2
    <3> QED
      BY <1>2, <3>1
  <2>2. fifo' <= 2 /\ (fifo <= 1 => fifo' <= 1)
    BY <1>2 DEF SerialInv, FifoState
  <2>3. h # "first"
    BY <1>2 DEF SerialInv, FifoState
  <2> QED
    BY <1>1, <2>1, <2>2, <2>3 DEF SerialInv, FifoState
<1>8. WakeState'
  <2>1. errors = 0 => ~line_status /\ h \notin {"line", "error"}
    BY DEF SerialInv, WakeState
  <2>2. thre' /\ ~line_status => irr'
    BY <1>2, <1>3 DEF Line
  <2>3. port = "working" => fifo' > 0 \/ thre'
    <3>1. fifo = 1 \/ fifo - 1 > 0
      BY <1>2
    <3> QED
      BY <1>2, <3>1
  <2> QED
    BY <1>1, <2>1, <2>2, <2>3 DEF WakeState
<1>9. MessageLeft'
  BY <1>1 DEF SerialInv, MessageLeft
<1>10. SetUpState'
  BY <1>1, <1>2, <1>3 DEF SerialInv, SetUpState, Line
<1> QED
  BY <1>4, <1>5, <1>6, <1>7, <1>8, <1>9, <1>10 DEF SerialInv

\* A receive line error preserves the invariant.
LEMMA LineErrorInv == SerialInv /\ LineError => SerialInv'
<1> SUFFICES ASSUME SerialInv, LineError PROVE SerialInv'
  OBVIOUS
<1>1. /\ port' = port /\ early' = early /\ h' = h /\ left' = left
      /\ buff' = buff /\ producer' = producer /\ consumer' = consumer /\ count' = count
      /\ tx_busy' = tx_busy /\ thre' = thre /\ fifo' = fifo
      /\ offered' = offered /\ stream' = stream /\ handed' = handed
      /\ line_status' = TRUE /\ errors' = errors + 1
  BY DEF LineError, ring, handler, history
<1>2. irr' \in BOOLEAN /\ (port # "working" => irr' = irr)
  BY <1>1 DEF LineError, Latch, Line, SerialInv, TypeOK
<1>3. errors \in Nat
  BY DEF SerialInv, TypeOK
<1>4. TypeOK'
  BY <1>1, <1>2 DEF SerialInv, TypeOK
<1>5. EarlyState' /\ SetUpState'
  BY <1>1, <1>2 DEF SerialInv, EarlyState, SetUpState
<1>6. RingConsistent' /\ SentInOrder'
  BY <1>1, RingUntouched DEF SerialInv, ringVars
<1>7. FifoState' /\ MessageLeft'
  BY <1>1 DEF SerialInv, FifoState, MessageLeft
<1>8. WakeState'
  BY <1>1, <1>3 DEF WakeState
<1> QED
  BY <1>4, <1>5, <1>6, <1>7, <1>8 DEF SerialInv

\* The handler is entered, reads a register of the UART, or returns.
LEMMA RegisterStepInv == SerialInv /\ (Interrupt \/ ReadIir \/ ReadLsr \/ Eoi) => SerialInv'
<1> SUFFICES ASSUME SerialInv, Interrupt \/ ReadIir \/ ReadLsr \/ Eoi PROVE SerialInv'
  OBVIOUS
<1>1. /\ port' = port /\ early' = early
      /\ buff' = buff /\ producer' = producer /\ consumer' = consumer /\ count' = count
      /\ tx_busy' = tx_busy /\ fifo' = fifo
      /\ offered' = offered /\ errors' = errors /\ stream' = stream /\ handed' = handed
  BY DEF Interrupt, ReadIir, ReadLsr, Eoi, ring, uart, history
<1>2. port = "working" /\ (h = "none" => irr)
  BY DEF SerialInv, SetUpState, Interrupt, ReadIir, ReadLsr, Eoi
<1>3. TypeOK'
  BY <1>1, SerialAssumption DEF SerialInv, TypeOK, Interrupt, ReadIir, ReadLsr, Eoi, uart
<1>4. EarlyState' /\ SetUpState'
  BY <1>1, <1>2 DEF SerialInv, EarlyState, SetUpState
<1>5. RingConsistent' /\ SentInOrder'
  BY <1>1, RingUntouched DEF SerialInv, ringVars
<1>6. FifoState'
  <2>1. (thre' => thre) /\ h' # "second" /\ (h' = "first" => thre)
    <3>1. CASE Interrupt
      BY <3>1 DEF Interrupt
    <3>2. CASE ReadIir
      <4>1. thre' => thre
        BY <3>2, Zenon DEF ReadIir
      <4>2. h' \in {"line", "first", "eoi"} /\ (h' = "first" => thre)
        BY <3>2 DEF ReadIir
      <4> QED
        BY <4>1, <4>2
    <3>3. CASE ReadLsr
      BY <3>3 DEF ReadLsr
    <3>4. CASE Eoi
      BY <3>4 DEF Eoi, uart
    <3> QED
      BY <3>1, <3>2, <3>3, <3>4
  <2>2. h \notin {"first", "second"}
    BY DEF Interrupt, ReadIir, ReadLsr, Eoi
  <2> QED
    BY <1>1, <2>1, <2>2 DEF SerialInv, FifoState
<1>7. WakeState'
  <2>1. errors = 0 =>
           /\ ~line_status /\ h \notin {"line", "error"}
           /\ thre => irr \/ h = "iir"
           /\ (tx_busy \/ count > 0) /\ h \notin {"first", "second"} => fifo > 0 \/ thre
    BY <1>2 DEF SerialInv, WakeState
  <2>2. CASE Interrupt
    BY <1>1, <2>1, <2>2 DEF WakeState, Interrupt
  <2>3. CASE ReadIir
    BY <1>1, <2>1, <2>3 DEF WakeState, ReadIir
  <2>4. CASE ReadLsr \/ Eoi
    BY <1>1, <2>1, <2>4 DEF WakeState, ReadLsr, Eoi, uart
  <2> QED
    BY <2>2, <2>3, <2>4
<1>8. MessageLeft'
  BY <1>1, <1>2, SerialAssumption DEF MessageLeft, Interrupt, ReadIir, ReadLsr, Eoi
<1> QED
  BY <1>3, <1>4, <1>5, <1>6, <1>7, <1>8 DEF SerialInv

\* The handler passes on a byte, whatever tx_busy says: at most the second one
\* it writes after the FIFO was empty.
LEMMA TransmitInv == SerialInv /\ (First \/ Second) => SerialInv'
<1> SUFFICES ASSUME SerialInv, First \/ Second PROVE SerialInv'
  OBVIOUS
<1>1. /\ \/ h = "first" /\ h' = "second"
         \/ h = "second" /\ h' = "eoi"
      /\ HardwareWrite(buff, count, FALSE)
      /\ port' = port /\ early' = early /\ buff' = buff /\ producer' = producer
      /\ line_status' = line_status /\ irr' = irr /\ left' = left
      /\ offered' = offered /\ errors' = errors /\ stream' = stream
  BY DEF First, Second, Transmit
<1>2. port = "working"
  BY <1>1 DEF SerialInv, SetUpState
<1>3. /\ buff \in [Slots -> Nat] /\ stream \in Seq(Nat) /\ count \in Nat
      /\ TypeOK /\ SentInOrder
      /\ \A i \in 1 .. Len(handed) : handed[i] = stream[i]
      /\ producer = Wrap(consumer + count) /\ Holds(buff, count, stream)
  BY <1>2 DEF SerialInv, TypeOK, SentInOrder, RingConsistent, Holds
<1>4. /\ RingConsistent' /\ SentInOrder'
      /\ count' \in 0 .. BuffSize /\ consumer' \in Slots /\ handed' \in Seq(Nat)
      /\ tx_busy' \in BOOLEAN
  <2>1. FALSE \in BOOLEAN
    OBVIOUS
  <2>2. producer' = Wrap(consumer + count)
    BY <1>1, <1>3
  <2> QED
    BY <1>1, <1>3, <2>1, <2>2, HardwareWriteKeepsRing
<1>5. \/ fifo' = fifo + 1 /\ thre' = FALSE /\ tx_busy' = TRUE
      \/ fifo' = fifo /\ thre' = thre /\ tx_busy' = FALSE /\ count' = 0
  <2>1. \/ fifo' = fifo + 1 /\ thre' = FALSE /\ tx_busy' = TRUE /\ ~FALSE
        \/ /\ fifo' = fifo /\ thre' = thre /\ tx_busy' = FALSE /\ count' = count
           /\ FALSE \/ count = 0
    BY <1>1, <1>3, HardwareWriteFifo, Zenon
  <2> QED
    BY <2>1
<1>6. TypeOK'
  <2>1. fifo' \in Nat /\ thre' \in BOOLEAN
    <3>1. fifo \in Nat /\ thre \in BOOLEAN
      BY DEF SerialInv, TypeOK
    <3>2. fifo' \in Nat
      BY <1>5, <3>1
    <3>3. thre' \in BOOLEAN
      BY <1>5, <3>1
    <3> QED
      BY <3>2, <3>3
  <2> QED
    BY <1>1, <1>4, <2>1 DEF SerialInv, TypeOK
<1>7. EarlyState' /\ SetUpState'
  BY <1>1, <1>2 DEF SerialInv, EarlyState, SetUpState
<1>8. FifoState'
  BY <1>1, <1>5 DEF SerialInv, TypeOK, FifoState
<1>9. WakeState'
  BY <1>1, <1>2, <1>5 DEF SerialInv, TypeOK, WakeState
<1>10. MessageLeft'
  BY <1>1, <1>2 DEF MessageLeft
<1> QED
  BY <1>4, <1>6, <1>7, <1>8, <1>9, <1>10 DEF SerialInv

\* A step that changes nothing preserves the invariant.
LEMMA StutterInv == SerialInv /\ UNCHANGED vars => SerialInv'
<1> SUFFICES ASSUME SerialInv, UNCHANGED vars PROVE SerialInv'
  OBVIOUS
<1> USE DEF vars, ring, uart, handler, history
<1>1. TypeOK'
  BY DEF SerialInv, TypeOK
<1>2. EarlyState' /\ SetUpState'
  BY DEF SerialInv, EarlyState, SetUpState
<1>3. RingConsistent' /\ SentInOrder'
  BY RingUntouched DEF SerialInv, ringVars
<1>4. FifoState' /\ WakeState' /\ MessageLeft'
  BY DEF SerialInv, FifoState, WakeState, MessageLeft
<1> QED
  BY <1>1, <1>2, <1>3, <1>4 DEF SerialInv

-----------------------------------------------------------------------------
(* The theorems.                                                           *)

\* SerialInv holds in every state, for every size of the ring and of the FIFO, any
\* writes, before and during SER_init too, any number of line errors, and whether
\* the port passes its test or not.
THEOREM Invariance == Spec => []SerialInv
<1>1. SerialInv /\ [Next]_vars => SerialInv'
  BY EarlyWriteInv, SerResetInv, PortInv, PrintFaultInv, WriteInv, SendInv, LineErrorInv,
     RegisterStepInv, PrintErrorInv, TransmitInv, StutterInv DEF Next, SerInit, HandlerStep
<1> QED
  BY InitInv, <1>1, PTL DEF Spec

\* The variables stay in their ranges: count between 0 and BUFF_SIZE, both
\* pointers inside buff.
THEOREM TypeCorrect == Spec => []TypeOK
<1>1. SerialInv => TypeOK
  BY DEF SerialInv
<1> QED
  BY <1>1, Invariance, PTL

\* SER_write, hardware_write and the handler never lose, repeat or reorder a
\* byte of the ring, and the UART is given the bytes in the order written.
THEOREM RingCorrect == Spec => [](RingConsistent /\ SentInOrder)
<1>1. SerialInv => RingConsistent /\ SentInOrder
  BY DEF SerialInv
<1> QED
  BY <1>1, Invariance, PTL

\* The two writes of the handler and the one of SER_write never leave more
\* bytes in the UART FIFO than it holds, if it holds two.
THEOREM FifoBounded == Spec => []NoOverrun
<1>1. SerialInv => NoOverrun
  BY SerialAssumption DEF SerialInv, TypeOK, FifoState, NoOverrun
<1> QED
  BY <1>1, Invariance, PTL

\* On a port that passed its test, and as long as no line error has occurred,
\* bytes waiting in the ring are never stranded: a byte is in the FIFO, or the
\* interrupt it raised is latched.
THEOREM WakeupsKept == Spec => []NoLostWakeup
<1>1. SerialInv => NoLostWakeup
  BY DEF SerialInv, TypeOK, WakeState, NoLostWakeup
<1> QED
  BY <1>1, Invariance, PTL

\* What a key makes the driver send while SER_init sets up and tests the port,
\* and what is sent to a port that was given up, is one stale byte.
THEOREM SetUpKeepsText == Spec => []SetUpSendsNoText
<1>1. SerialInv => SetUpSendsNoText
  <2> SUFFICES ASSUME SerialInv, port # "working"
               PROVE  Len(handed) <= 1 /\ \A i \in 1 .. Len(handed) : handed[i] = Stale
    BY DEF SetUpSendsNoText
  <2>1. CASE port = "early"
    BY <2>1 DEF SerialInv, EarlyState
  <2>2. CASE port # "early"
    <3>1. Len(handed) \in {0, 1} /\ stream[1] = Stale
      BY <2>2 DEF SerialInv, SetUpState
    <3>2. \A i \in 1 .. Len(handed) : handed[i] = stream[i]
      BY DEF SerialInv, SentInOrder
    <3>3. Len(handed) <= 1 /\ \A i \in 1 .. Len(handed) : i = 1
      <4>1. CASE Len(handed) = 0
        BY <4>1
      <4>2. CASE Len(handed) = 1
        BY <4>2
      <4> QED
        BY <3>1, <4>1, <4>2
    <3> QED
      BY <3>1, <3>2, <3>3
  <2> QED
    BY <2>1, <2>2
<1> QED
  BY <1>1, Invariance, PTL

\* What leaves the UART is what was given to SER_write, in order: the zeros
\* that SER_init leaves in the ring first, and no byte twice.
THEOREM InOrder == Spec => []SentInOrder
<1>1. SerialInv => SentInOrder
  BY DEF SerialInv
<1> QED
  BY <1>1, Invariance, PTL
=============================================================================
