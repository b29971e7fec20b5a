---------------------------- MODULE DeviceProofs ----------------------------
(***************************************************************************)
(* The devices.  The keyboard: the ring of keyboard.c behaves as the queue *)
(* of KeyQueue, and the handler's Shift is the user's.  The serial ports:  *)
(* the tables of ports and processes agree, and a port is left open only   *)
(* by a death.  The mouse: what the handler makes of a packet is what the  *)
(* user did.  The SATA disk: for any callers, sectors and bounds, a        *)
(* transfer that reports success has moved the sector, when the call had   *)
(* the driver to itself and its wait did not run out; and no call that     *)
(* begins after an error succeeds.                                         *)
(***************************************************************************)
EXTENDS Keyboard, Mouse, SerialPorts, Ahci, FiniteSetTheorems, SequenceTheorems, TLAPS

\* The remainder of a number below the modulus, and of one short of it.
LEMMA ModBelow ==
  ASSUME NEW n \in Nat \ {0}, NEW x \in 0 .. n - 1
  PROVE  x % n = x
  <1> DEFINE q == x \div n
             r == x % n
  <1>1. q \in Int /\ r \in 0 .. n - 1 /\ x = n * q + r
    OBVIOUS
  <1> HIDE DEF q, r
  <1>2. q = 0
    <2>1. ~(q >= 1)
      BY <1>1
    <2>2. ~(q <= -1)
      BY <1>1
    <2> QED BY <1>1, <2>1, <2>2
  <1> QED BY <1>1, <1>2 DEF r

LEMMA ModAbove ==
  ASSUME NEW n \in Nat \ {0}, NEW x \in 0 .. n - 1
  PROVE  (x + n) % n = x /\ (x - n) % n = x
  <1>1. ASSUME NEW y \in {x + n, x - n} PROVE y % n = x
    <2> DEFINE q == y \div n
               r == y % n
    <2>1. q \in Int /\ r \in 0 .. n - 1 /\ y = n * q + r
      OBVIOUS
    <2> HIDE DEF q, r
    <2>2. CASE y = x + n
      <3>1. ~(q >= 2)
        BY <2>1, <2>2
      <3>2. ~(q <= 0)
        BY <2>1, <2>2
      <3>3. q = 1
        BY <2>1, <3>1, <3>2
      <3> QED BY <2>1, <2>2, <3>3 DEF r
    <2>3. CASE y = x - n
      <3>1. ~(q >= 0)
        BY <2>1, <2>3
      <3>2. ~(q <= -2)
        BY <2>1, <2>3
      <3>3. q = -1
        BY <2>1, <3>1, <3>2
      <3> QED BY <2>1, <2>3, <3>3 DEF r
    <2> QED BY <2>2, <2>3
  <1> QED BY <1>1

-----------------------------------------------------------------------------
\* The keyboard's ring

SizeOf == KEYBOARD_BUFFER_SIZE

Characters == {"a", "A", "1", "!", Enter}

\* How many characters wait between the indices h and t, and which.
Between(h, t) == (h - t) % SizeOf
QueueOf(b, h, t) == [i \in 1 .. Between(h, t) |-> b[(t + i - 1) % SizeOf]]

Cell(t, k) == (t + k) % SizeOf

\* Indices go round the ring.
LEMMA CellAt ==
  ASSUME NEW t \in Cells, NEW k \in 0 .. SizeOf
  PROVE  /\ Cell(t, k) = IF t + k < SizeOf THEN t + k ELSE t + k - SizeOf
         /\ Cell(t, k) \in Cells
  <1>1. SizeOf \in Nat \ {0} /\ t \in 0 .. SizeOf - 1
    BY KeyboardAssumption DEF Cells, SizeOf
  <1>2. CASE t + k < SizeOf
    <2>1. t + k \in 0 .. SizeOf - 1
      BY <1>1, <1>2
    <2>2. (t + k) % SizeOf = t + k
      BY <1>1, <2>1, ModBelow
    <2> QED BY <1>2, <2>1, <2>2 DEF Cells, SizeOf, Cell
  <1>3. CASE ~(t + k < SizeOf)
    <2> DEFINE x == t + k - SizeOf
    <2>1. x \in 0 .. SizeOf - 1 /\ t + k = x + SizeOf
      BY <1>1, <1>3
    <2> HIDE DEF x
    <2>2. (x + SizeOf) % SizeOf = x
      BY <1>1, <2>1, ModAbove
    <2>3. (t + k) % SizeOf = x
      BY <2>1, <2>2
    <2> QED BY <1>3, <2>1, <2>3 DEF Cells, SizeOf, x, Cell
  <1> QED BY <1>2, <1>3

LEMMA BetweenIs ==
  ASSUME NEW h \in Cells, NEW t \in Cells
  PROVE  /\ Between(h, t) = IF h >= t THEN h - t ELSE h - t + SizeOf
         /\ Between(h, t) \in 0 .. SizeOf - 1
  <1>1. SizeOf \in Nat \ {0} /\ t \in 0 .. SizeOf - 1 /\ h \in 0 .. SizeOf - 1
    BY KeyboardAssumption DEF Cells, SizeOf
  <1>2. CASE h >= t
    <2>1. h - t \in 0 .. SizeOf - 1
      BY <1>1, <1>2
    <2>2. (h - t) % SizeOf = h - t
      BY <1>1, <2>1, ModBelow
    <2> QED BY <1>2, <2>1, <2>2 DEF Between
  <1>3. CASE ~(h >= t)
    <2> DEFINE x == h - t + SizeOf
    <2>1. x \in 0 .. SizeOf - 1 /\ h - t = x - SizeOf
      BY <1>1, <1>3
    <2> HIDE DEF x
    <2>2. (x - SizeOf) % SizeOf = x
      BY <1>1, <2>1, ModAbove
    <2>3. (h - t) % SizeOf = x
      BY <2>1, <2>2
    <2> QED BY <1>3, <2>1, <2>3 DEF Between, x
  <1> QED BY <1>2, <1>3

\* The characters of q, of n, are those in the cells of b from t on.
Reads(q, S, n, b, t) ==
  /\ q \in Seq(S) /\ Len(q) = n
  /\ \A k \in 0 .. n - 1 : q[k + 1] = b[Cell(t, k)]

\* What waits is a sequence of what is in the ring.
LEMMA QueueIs ==
  ASSUME NEW S, NEW b \in [Cells -> S], NEW h \in Cells, NEW t \in Cells,
         NEW q, q = QueueOf(b, h, t)
  PROVE  Reads(q, S, Between(h, t), b, t)
  <1> DEFINE n == Between(h, t)
  <1>1. n \in 0 .. SizeOf - 1 /\ SizeOf \in Nat \ {0}
    BY BetweenIs, KeyboardAssumption DEF SizeOf
  <1>2. Cells = 0 .. SizeOf - 1
    BY DEF Cells, SizeOf
  <1> HIDE DEF n
  <1>3. ASSUME NEW i \in 1 .. n PROVE b[(t + i - 1) % SizeOf] \in S
    <2>1. i - 1 \in 0 .. SizeOf /\ t + i - 1 = t + (i - 1)
      BY <1>1, <1>2
    <2>2. Cell(t, i - 1) \in Cells
      BY <2>1, CellAt
    <2>3. Cell(t, i - 1) = (t + i - 1) % SizeOf
      BY <2>1 DEF Cell
    <2> QED BY <2>2, <2>3
  <1>4. q = [i \in 1 .. n |-> b[(t + i - 1) % SizeOf]]
    BY DEF QueueOf, n
  <1>5. q \in Seq(S) /\ Len(q) = n
    <2>1. q \in [1 .. n -> S]
      BY <1>3, <1>4
    <2> QED BY <1>1, <2>1
  <1>6. ASSUME NEW k \in 0 .. n - 1 PROVE q[k + 1] = b[Cell(t, k)]
    <2>1. k + 1 \in 1 .. n /\ t + (k + 1) - 1 = t + k
      BY <1>1, <1>2
    <2> QED BY <1>4, <2>1 DEF Cell
  <1> QED BY <1>5, <1>6 DEF n, Reads

\* A character that is put in a ring that is not full waits last.
LEMMA RingPut ==
  ASSUME NEW S, NEW b \in [Cells -> S], NEW h \in Cells, NEW t \in Cells,
         NEW c \in S, NextCell(h) # t
  PROVE  /\ QueueOf([b EXCEPT ![h] = c], NextCell(h), t) = Append(QueueOf(b, h, t), c)
         /\ Len(QueueOf(b, h, t)) < SizeOf - 1
         /\ NextCell(h) \in Cells
  <1> DEFINE g == [b EXCEPT ![h] = c]
             k == NextCell(h)
             q == QueueOf(b, h, t)
             r == QueueOf(g, k, t)
             a == Append(q, c)
  <1>1. SizeOf \in Nat \ {0} /\ t \in 0 .. SizeOf - 1 /\ h \in 0 .. SizeOf - 1
        /\ Cells = 0 .. SizeOf - 1
    BY KeyboardAssumption DEF Cells, SizeOf
  <1>2. k \in Cells /\ k = IF h + 1 < SizeOf THEN h + 1 ELSE 0
    <2>1. 1 \in 0 .. SizeOf
      BY <1>1
    <2>2. k = Cell(h, 1)
      BY DEF NextCell, SizeOf, Cell
    <2>3. h + 1 - SizeOf = 0 \/ h + 1 < SizeOf
      BY <1>1
    <2> HIDE DEF k
    <2> QED BY <1>1, <2>1, <2>2, <2>3, CellAt
  <1> HIDE DEF k
  <1>3. k # t
    BY DEF k
  <1>4. Between(h, t) = (IF h >= t THEN h - t ELSE h - t + SizeOf)
        /\ Between(k, t) = (IF k >= t THEN k - t ELSE k - t + SizeOf)
    BY <1>2, BetweenIs
  <1>5. Between(k, t) = Between(h, t) + 1 /\ Between(h, t) < SizeOf - 1
        /\ Between(h, t) \in Nat
    BY <1>1, <1>2, <1>3, <1>4
  <1>6. g \in [Cells -> S]
    OBVIOUS
  <1> HIDE DEF g
  <1>7. Reads(q, S, Between(h, t), b, t)
    <2>1. q = QueueOf(b, h, t)
      OBVIOUS
    <2> HIDE DEF q
    <2> QED BY <2>1, QueueIs
  <1>8. Reads(r, S, Between(k, t), g, t)
    <2>1. r = QueueOf(g, k, t)
      OBVIOUS
    <2> HIDE DEF r
    <2> QED BY <1>2, <1>6, <2>1, QueueIs
  <1> HIDE DEF q, r
  <1> USE DEF Reads
  <1>9. /\ a \in Seq(S) /\ Len(a) = Len(q) + 1
        /\ \A i \in 1 .. Len(q) : a[i] = q[i]
        /\ a[Len(q) + 1] = c
    BY <1>7
  <1> HIDE DEF a
  <1>10. ASSUME NEW j \in 1 .. Len(r) PROVE r[j] = a[j]
    <2> DEFINE i == j - 1
    <2>1. i \in 0 .. Len(r) - 1 /\ j = i + 1 /\ i \in 0 .. SizeOf /\ i <= Between(h, t)
      BY <1>1, <1>5, <1>8
    <2> HIDE DEF i
    <2> DEFINE x == Cell(t, i)
    <2>2. x \in Cells /\ x = IF t + i < SizeOf THEN t + i ELSE t + i - SizeOf
      BY <2>1, CellAt
    <2>3. r[j] = g[x]
      BY <1>8, <2>1
    <2> HIDE DEF x
    <2>4. CASE i = Between(h, t)
      <3>1. x = h
        BY <1>1, <1>4, <2>1, <2>2, <2>4
      <3> QED BY <1>7, <1>9, <2>1, <2>3, <2>4, <3>1 DEF g
    <2>5. CASE i # Between(h, t)
      <3>1. x # h
        BY <1>1, <1>4, <2>1, <2>2, <2>5
      <3>2. i \in 0 .. Len(q) - 1 /\ j \in 1 .. Len(q)
        BY <1>5, <1>7, <2>1, <2>5
      <3>3. q[j] = b[x]
        BY <1>7, <2>1, <3>2 DEF x
      <3> QED BY <1>9, <2>2, <2>3, <3>1, <3>2, <3>3 DEF g
    <2> QED BY <2>4, <2>5
  <1>11. Len(r) = Len(a)
    BY <1>5, <1>7, <1>8, <1>9
  <1>12. r = a
    BY <1>8, <1>9, <1>10, <1>11, SeqEqual
  <1> QED BY <1>2, <1>5, <1>7, <1>12 DEF a, q, r, g, k

\* The character at the tail is the first that waits.
LEMMA RingTake ==
  ASSUME NEW S, NEW b \in [Cells -> S], NEW h \in Cells, NEW t \in Cells, h # t
  PROVE  /\ QueueOf(b, h, t) # <<>>
         /\ QueueOf(b, h, NextCell(t)) = Tail(QueueOf(b, h, t))
         /\ NextCell(t) \in Cells
  <1> DEFINE k == NextCell(t)
             q == QueueOf(b, h, t)
             r == QueueOf(b, h, k)
             a == Tail(q)
  <1>1. SizeOf \in Nat \ {0} /\ t \in 0 .. SizeOf - 1 /\ h \in 0 .. SizeOf - 1
        /\ Cells = 0 .. SizeOf - 1
    BY KeyboardAssumption DEF Cells, SizeOf
  <1>2. k \in Cells /\ k = IF t + 1 < SizeOf THEN t + 1 ELSE 0
    <2>1. 1 \in 0 .. SizeOf
      BY <1>1
    <2>2. k = Cell(t, 1)
      BY DEF NextCell, SizeOf, Cell
    <2>3. t + 1 - SizeOf = 0 \/ t + 1 < SizeOf
      BY <1>1
    <2> HIDE DEF k
    <2> QED BY <1>1, <2>1, <2>2, <2>3, CellAt
  <1> HIDE DEF k
  <1>4. Between(h, t) = (IF h >= t THEN h - t ELSE h - t + SizeOf)
        /\ Between(h, k) = (IF h >= k THEN h - k ELSE h - k + SizeOf)
    BY <1>2, BetweenIs
  <1>5. Between(h, k) = Between(h, t) - 1 /\ Between(h, t) \in 1 .. SizeOf
    BY <1>1, <1>2, <1>4
  <1>7. Reads(q, S, Between(h, t), b, t)
    <2>1. q = QueueOf(b, h, t)
      OBVIOUS
    <2> HIDE DEF q
    <2> QED BY <2>1, QueueIs
  <1>8. Reads(r, S, Between(h, k), b, k)
    <2>1. r = QueueOf(b, h, k)
      OBVIOUS
    <2> HIDE DEF r
    <2> QED BY <1>2, <2>1, QueueIs
  <1> HIDE DEF q, r
  <1> USE DEF Reads
  <1>3. q # <<>>
    BY <1>1, <1>5, <1>7, EmptySeq
  <1>9. /\ a \in Seq(S) /\ Len(a) = Len(q) - 1
        /\ \A i \in 1 .. Len(a) : a[i] = q[i + 1]
    BY <1>3, <1>7, HeadTailProperties
  <1> HIDE DEF a
  <1>10. ASSUME NEW j \in 1 .. Len(r) PROVE r[j] = a[j]
    <2> DEFINE i == j - 1
    <2>1. /\ i \in 0 .. Len(r) - 1 /\ j = i + 1 /\ i \in 0 .. SizeOf
          /\ j \in 0 .. SizeOf /\ j \in 0 .. Len(q) - 1 /\ j \in 1 .. Len(a)
      BY <1>1, <1>5, <1>7, <1>8, <1>9
    <2> HIDE DEF i
    <2>2. Cell(k, i) = IF k + i < SizeOf THEN k + i ELSE k + i - SizeOf
      BY <1>2, <2>1, CellAt
    <2>3. Cell(t, j) = IF t + j < SizeOf THEN t + j ELSE t + j - SizeOf
      BY <2>1, CellAt
    <2>4. Cell(k, i) = Cell(t, j)
      <3> DEFINE x == Cell(k, i)
                 y == Cell(t, j)
      <3>1. x = IF k + i < SizeOf THEN k + i ELSE k + i - SizeOf
        BY <2>2
      <3>2. y = IF t + j < SizeOf THEN t + j ELSE t + j - SizeOf
        BY <2>3
      <3> HIDE DEF x, y
      <3>3. j <= SizeOf - 2
        BY <1>4, <1>1, <1>2, <2>1, <1>7
      <3>4. x = y
        BY <1>1, <1>2, <2>1, <3>1, <3>2, <3>3
      <3> QED BY <3>4 DEF x, y
    <2>5. r[j] = b[Cell(k, i)]
      BY <1>8, <2>1
    <2>6. a[j] = b[Cell(t, j)]
      BY <1>7, <1>9, <2>1
    <2> QED BY <2>4, <2>5, <2>6
  <1>11. Len(r) = Len(a)
    BY <1>5, <1>7, <1>8, <1>9
  <1>12. r = a
    BY <1>8, <1>9, <1>10, <1>11, SeqEqual
  <1> QED BY <1>2, <1>3, <1>12 DEF a, q, r, k

\* What the indices and the cells of the ring may be.
RingSound ==
  /\ buffer_head \in Cells /\ buffer_tail \in Cells
  /\ circular_buffer \in [Cells -> Characters \cup {"0"}]

LEMMA TranslatedKey == ASSUME NEW k \in Keys PROVE Translated(k) \in Characters
  <1>1. k \in {"letter", "digit", "return"}
    BY DEF Keys, abnt2_map
  <1>2. abnt2_map[k] \in {"a", "1", Enter} /\ abnt2_shift_map[k] \in {"A", "!", Enter}
    BY <1>1 DEF abnt2_map, abnt2_shift_map
  <1>3. \A c \in Characters : Upper(c) \in Characters
    BY DEF Characters, Upper
  <1> QED BY <1>2, <1>3 DEF Translated, Characters

\* The interrupt appends to the queue or finds it full.
LEMMA PushPuts ==
  ASSUME RingSound, NEW c \in Characters, keyboard_push_char(c)
  PROVE  RingSound' /\ (Content' = Content \/ KeyQ!Put(c))
  <1> DEFINE S == Characters \cup {"0"}
             b == circular_buffer
             h == buffer_head
             t == buffer_tail
  <1>1. b \in [Cells -> S] /\ h \in Cells /\ t \in Cells /\ c \in S
    BY DEF RingSound
  <1>2. Content = QueueOf(b, h, t)
    BY DEF Content, Count, QueueOf, Between, SizeOf
  <1>3. Content' = QueueOf(circular_buffer', buffer_head', buffer_tail')
    BY DEF Content, Count, QueueOf, Between, SizeOf
  <1>4. CASE NextCell(h) # t
    <2>1. /\ circular_buffer' = [b EXCEPT ![h] = c]
          /\ buffer_head' = NextCell(h) /\ buffer_tail' = t
      BY <1>4 DEF keyboard_push_char
    <2>2. /\ QueueOf([b EXCEPT ![h] = c], NextCell(h), t) = Append(QueueOf(b, h, t), c)
          /\ Len(QueueOf(b, h, t)) < SizeOf - 1 /\ NextCell(h) \in Cells
      <3> HIDE DEF S, b, h, t
      <3> QED BY <1>1, <1>4, RingPut
    <2>3. [b EXCEPT ![h] = c] \in [Cells -> S]
      BY <1>1
    <2>4. RingSound'
      BY <1>1, <2>1, <2>2, <2>3 DEF RingSound
    <2>5. Content' = Append(Content, c) /\ Len(Content) < KEYBOARD_BUFFER_SIZE - 1
      BY <1>2, <1>3, <2>1, <2>2 DEF SizeOf
    <2> QED BY <2>4, <2>5 DEF KeyQ!Put
  <1>5. CASE NextCell(h) = t
    <2>1. circular_buffer' = b /\ buffer_head' = h /\ buffer_tail' = t
      BY <1>5 DEF keyboard_push_char, ring
    <2> QED BY <1>2, <1>3, <2>1 DEF RingSound
  <1> QED BY <1>4, <1>5

\* A reader takes the first of the queue.
LEMMA PopTakes ==
  ASSUME RingSound, Pop
  PROVE  RingSound' /\ KeyQ!Take
  <1> DEFINE S == Characters \cup {"0"}
             b == circular_buffer
             h == buffer_head
             t == buffer_tail
  <1>1. b \in [Cells -> S] /\ h \in Cells /\ t \in Cells /\ h # t
    BY DEF RingSound, Pop, Waiting
  <1>2. Content = QueueOf(b, h, t)
    BY DEF Content, Count, QueueOf, Between, SizeOf
  <1>3. Content' = QueueOf(circular_buffer', buffer_head', buffer_tail')
    BY DEF Content, Count, QueueOf, Between, SizeOf
  <1>4. circular_buffer' = b /\ buffer_head' = h /\ buffer_tail' = NextCell(t)
    BY DEF Pop
  <1>5. /\ QueueOf(b, h, t) # <<>>
        /\ QueueOf(b, h, NextCell(t)) = Tail(QueueOf(b, h, t))
        /\ NextCell(t) \in Cells
    <2> HIDE DEF S, b, h, t
    <2> QED BY <1>1, RingTake
  <1>6. RingSound'
    BY <1>1, <1>4, <1>5 DEF RingSound
  <1>7. Content # <<>> /\ Content' = Tail(Content)
    BY <1>2, <1>3, <1>4, <1>5
  <1> QED BY <1>6, <1>7 DEF KeyQ!Take

LEMMA RingStep ==
  ASSUME RingSound, [KeyboardNext]_keyboardVars
  PROVE  RingSound' /\ [KeyQ!QueueNext]_Content
  <1>1. ASSUME UNCHANGED ring PROVE RingSound' /\ [KeyQ!QueueNext]_Content
    <2>1. /\ circular_buffer' = circular_buffer /\ buffer_head' = buffer_head
          /\ buffer_tail' = buffer_tail
      BY <1>1 DEF ring
    <2>2. Content' = Content
      BY <2>1 DEF Content, Count
    <2>3. RingSound'
      BY <2>1 DEF RingSound
    <2> QED BY <2>2, <2>3
  <1>2. ASSUME Pop PROVE RingSound' /\ [KeyQ!QueueNext]_Content
    BY <1>2, PopTakes DEF KeyQ!QueueNext
  <1>3. ASSUME NEW k \in Keys, KeyDown(k)
        PROVE  RingSound' /\ [KeyQ!QueueNext]_Content
    <2>1. CASE foreground
      <3>1. Translated(k) \in Characters /\ keyboard_push_char(Translated(k))
        BY <1>3, <2>1, TranslatedKey DEF KeyDown
      <3>2. PICK c \in Characters : keyboard_push_char(c)
        BY <3>1
      <3>3. RingSound' /\ (Content' = Content \/ KeyQ!Put(c))
        BY <3>2, PushPuts
      <3> QED BY <3>3 DEF KeyQ!QueueNext, Characters
    <2>2. CASE ~foreground
      BY <1>1, <1>3, <2>2 DEF KeyDown
    <2> QED BY <2>1, <2>2
  <1>4. CASE UNCHANGED keyboardVars
    BY <1>1, <1>4 DEF keyboardVars
  <1>5. ASSUME NEW s \in Shifts, ShiftDown(s) \/ ShiftUp(s) PROVE UNCHANGED ring
    BY <1>5 DEF ShiftDown, ShiftUp
  <1>6. CapsLock \/ FocusMoves => UNCHANGED ring
    BY DEF CapsLock, FocusMoves
  <1>7. GetKey => Pop
    BY DEF GetKey
  <1>8. ASSUME NEW r \in Readers, sys_read(r) \/ keyboard_vfs_read(r) \/ ReadReturns(r)
        PROVE  Pop \/ UNCHANGED ring
    BY <1>8 DEF sys_read, keyboard_vfs_read, ReadReturns
  <1> QED BY <1>1, <1>2, <1>3, <1>4, <1>5, <1>6, <1>7, <1>8 DEF KeyboardNext

\* KeysInOrder: for any size of the ring and any readers, what is typed comes
\* out once and in order, and only what finds the ring full is lost.
THEOREM RingIsQueue == KeyboardSpec => KeysInOrder
  <1>1. KeyboardInit => RingSound /\ KeyQ!QueueInit
    <2> SUFFICES ASSUME KeyboardInit PROVE RingSound /\ KeyQ!QueueInit
      OBVIOUS
    <2>1. 0 \in Cells /\ 0 \in 0 .. SizeOf - 1
      BY KeyboardAssumption DEF Cells, SizeOf
    <2>2. RingSound
      BY <2>1 DEF KeyboardInit, RingSound
    <2>3. Between(0, 0) = 0
      BY <2>1, BetweenIs
    <2>4. Content = [i \in 1 .. 0 |-> circular_buffer[(0 + i - 1) % SizeOf]]
      BY <2>3 DEF KeyboardInit, Content, Count, Between, SizeOf
    <2>5. Content = <<>>
      BY <2>4
    <2> QED BY <2>2, <2>5 DEF KeyQ!QueueInit
  <1>2. RingSound /\ [KeyboardNext]_keyboardVars => RingSound' /\ [KeyQ!QueueNext]_Content
    BY RingStep
  <1> QED BY <1>1, <1>2, PTL DEF KeyboardSpec, KeysInOrder, KeyQ!QueueSpec

\* ShiftHeld: the flag of Shift is never up when no Shift is down.
THEOREM ShiftIsHeld == KeyboardSpec => []ShiftHeld
  <1>1. KeyboardInit => ShiftHeld
    BY DEF KeyboardInit, ShiftHeld
  <1>2. ShiftHeld /\ [KeyboardNext]_keyboardVars => ShiftHeld'
    BY DEF ShiftHeld, KeyboardNext, keyboardVars, flags, KeyDown, ShiftDown, ShiftUp,
           CapsLock, GetKey, FocusMoves, sys_read, keyboard_vfs_read, ReadReturns
  <1> QED BY <1>1, <1>2, PTL DEF KeyboardSpec

-----------------------------------------------------------------------------
\* The serial ports

Received == Seq({Own, Stray})
Port == [known : BOOLEAN, in_use : BOOLEAN, rx : Received]

\* Every byte of an open port is its holder's.
OwnIn(p, f) == p.in_use => p.rx \in Seq({Own}) /\ f \in Seq({Own})

PortInv ==
  /\ ports \in [Numbers -> Port] /\ fifo \in [Numbers -> Received]
  /\ \A n \in Numbers : OwnIn(ports[n], fifo[n])

TaskStates == {"dead", "runs", "reopens", "ends", "crashed"}

\* A program that runs and believes it has a port does, and alone.
HasOne(r) == r.Active /\ r.Handle # Closed /\ r.Handle # Busy
Believes(c) == task[c] = "runs" /\ HasOne(serial[c])

TOSSerial == [number : Wanted \cup {0}, Handle : Wanted \cup {Closed, Busy},
              Active : BOOLEAN]

HolderInv ==
  /\ task \in [Programs -> TaskStates] /\ serial \in [Programs -> TOSSerial]
  /\ \A c \in Programs : task[c] \in {"runs", "reopens"} => serial[c].number \in Wanted
  /\ \A c \in Programs : Believes(c) => ports[serial[c].Handle].in_use
  /\ \A c, d \in Programs :
       Believes(c) /\ Believes(d) /\ serial[c].Handle = serial[d].Handle => c = d

SerialInv == PortInv /\ HolderInv

\* The port n is p, its chip holds f, and other ports are as they were.
Becomes(n, p, f) ==
  /\ ports' = [ports EXCEPT ![n] = p]
  /\ fifo' = [fifo EXCEPT ![n] = f]

LEMMA PortBecomes ==
  ASSUME PortInv, NEW n \in Numbers, NEW p \in Port, NEW f \in Received,
         OwnIn(p, f), Becomes(n, p, f)
  PROVE  /\ PortInv' /\ ports'[n] = p
         /\ \A k \in Numbers \ {n} : ports'[k] = ports[k]
  <1>1. ports' \in [Numbers -> Port] /\ fifo' \in [Numbers -> Received]
    BY DEF PortInv, Becomes
  <1>2. /\ ports'[n] = p /\ fifo'[n] = f
        /\ \A k \in Numbers \ {n} : ports'[k] = ports[k] /\ fifo'[k] = fifo[k]
    BY DEF PortInv, Becomes
  <1>3. \A k \in Numbers : OwnIn(ports'[k], fifo'[k])
    BY <1>2 DEF PortInv
  <1> QED BY <1>1, <1>2, <1>3 DEF PortInv

LEMMA WantedNumbers == Wanted \subseteq Numbers
  BY SerialAssumption DEF Numbers

\* SYS_SERIAL_OPEN gives a port that is closed, and opens it empty.
LEMMA SysOpenGives ==
  ASSUME PortInv, NEW n \in Wanted, NEW ret, SysOpen(n, ret)
  PROVE  /\ PortInv'
         /\ \A k \in Numbers \ {n} : ports'[k] = ports[k]
         /\ \/ ret = Busy /\ ports' = ports
            \/ ret = n /\ ~ports[n].in_use /\ ports'[n].in_use
  <1>1. n \in Numbers
    BY WantedNumbers
  <1>2. CASE ret = Busy /\ UNCHANGED machine
    BY <1>2 DEF machine, PortInv
  <1>3. CASE ~ports[n].in_use /\ ret = n /\ Opened(n)
    <2> DEFINE q == driver_serial_init(ports[n])
               p == [q EXCEPT !.in_use = TRUE]
    <2>1. Becomes(n, p, <<>>)
      BY <1>3 DEF Opened, Wire, Becomes
    <2>2. <<>> \in Received /\ <<>> \in Seq({Own})
      BY DEF Received
    <2>3. q \in Port /\ q.rx = <<>>
      BY <2>2 DEF driver_serial_init, Port
    <2> HIDE DEF q
    <2>4. p \in Port /\ p.rx = <<>> /\ p.in_use
      BY <2>3 DEF Port
    <2> HIDE DEF p
    <2>5. OwnIn(p, <<>>)
      BY <2>2, <2>4 DEF OwnIn
    <2> QED BY <1>1, <1>3, <2>1, <2>2, <2>4, <2>5, PortBecomes
  <1> QED BY <1>2, <1>3 DEF SysOpen

\* SYS_SERIAL_CLOSE leaves no byte of the holder's in the ring, and those in
\* the chip are nobody's.
LEMMA SysCloseCloses ==
  ASSUME PortInv, NEW n \in Wanted, SysClose(n)
  PROVE  /\ PortInv' /\ ~ports'[n].in_use
         /\ \A k \in Numbers \ {n} : ports'[k] = ports[k]
  <1>1. n \in Numbers
    BY WantedNumbers
  <1>2. CASE ~ports[n].in_use
    BY <1>2 DEF SysClose, machine, PortInv
  <1>3. CASE ports[n].in_use
    <2> DEFINE p == [ports[n] EXCEPT !.in_use = FALSE, !.rx = <<>>]
               f == [i \in DOMAIN fifo[n] |-> Stray]
    <2>1. Becomes(n, p, f)
      BY <1>3 DEF SysClose, Wire, Becomes
    <2>2. ports[n] \in Port /\ fifo[n] \in Received
      BY <1>1 DEF PortInv
    <2>3. p \in Port /\ ~p.in_use
      <3>1. <<>> \in Received
        BY DEF Received
      <3> QED BY <2>2, <3>1 DEF Port
    <2>4. f \in Received
      BY <2>2 DEF Received
    <2> HIDE DEF p, f
    <2> QED BY <1>1, <2>1, <2>3, <2>4, PortBecomes DEF OwnIn
  <1> QED BY <1>2, <1>3

\* Bytes come in and go to the ring or to a reader; nobody opens or closes.
BytesMoved == PortInv' /\ \A n \in Numbers : ports'[n].in_use = ports[n].in_use

LEMMA ReadMoves ==
  ASSUME SerialInv, NEW c \in Programs, OS_Serial_Read(c)
  PROVE  BytesMoved
  <1> DEFINE n == serial[c].Handle
             p == [ports[n] EXCEPT !.rx = Tail(@)]
  <1>1. n \in Numbers
    BY WantedNumbers DEF SerialInv, HolderInv, TOSSerial, OS_Serial_Read, Has
  <1>2. ports[n].rx # <<>> /\ Becomes(n, p, fifo[n])
    BY DEF OS_Serial_Read, SerialInv, PortInv, Becomes
  <1>3. PortInv /\ ports[n] \in Port /\ fifo[n] \in Received /\ OwnIn(ports[n], fifo[n])
    BY <1>1 DEF SerialInv, PortInv
  <1> HIDE DEF n
  <1>4. /\ Tail(ports[n].rx) \in Received
        /\ ports[n].rx \in Seq({Own}) => Tail(ports[n].rx) \in Seq({Own})
    BY <1>2, <1>3 DEF Port, Received
  <1>5. p \in Port /\ p.in_use = ports[n].in_use /\ p.rx = Tail(ports[n].rx)
    BY <1>3, <1>4 DEF Port
  <1> HIDE DEF p
  <1> QED BY <1>1, <1>2, <1>3, <1>4, <1>5, PortBecomes DEF OwnIn, BytesMoved

LEMMA ArriveMoves ==
  ASSUME PortInv, NEW n \in Wanted, Arrive(n)
  PROVE  BytesMoved
  <1> DEFINE byte == IF ports[n].in_use THEN Own ELSE Stray
             f == Append(fifo[n], byte)
  <1>1. n \in Numbers
    BY WantedNumbers
  <1>2. Becomes(n, ports[n], f)
    BY DEF Arrive, Wire, Becomes, PortInv
  <1>3. ports[n] \in Port /\ fifo[n] \in Received /\ OwnIn(ports[n], fifo[n])
    BY <1>1 DEF PortInv
  <1>4. f \in Received
    BY <1>3 DEF Received
  <1>5. OwnIn(ports[n], f)
    BY <1>3 DEF OwnIn
  <1> HIDE DEF f
  <1> QED BY <1>1, <1>2, <1>3, <1>4, <1>5, PortBecomes DEF BytesMoved

LEMMA IRQ4Moves ==
  ASSUME PortInv, IRQ4
  PROVE  BytesMoved
  <1> DEFINE p == ports[Served]
             k == Least(Room(p), Len(fifo[Served]))
             s == SubSeq(fifo[Served], 1, k)
             g == [p EXCEPT !.rx = @ \o s]
  <1>1. Served \in Numbers
    BY DEF Served, Numbers
  <1>2. p \in Port /\ fifo[Served] \in Received /\ OwnIn(p, fifo[Served])
    BY <1>1 DEF PortInv
  <1>3. CASE p.known
    <2>1. Becomes(Served, g, <<>>)
      BY <1>3 DEF IRQ4, driver_serial_handle_interrupt, Becomes
    <2>2. ASSUME NEW S, p.rx \in Seq(S), fifo[Served] \in Seq(S)
          PROVE  p.rx \o s \in Seq(S)
      <3>1. Len(p.rx) \in Nat /\ Len(fifo[Served]) \in Nat /\ RxSize \in Nat
        BY <2>2, SerialAssumption
      <3>2. Room(p) \in Int
        BY <3>1 DEF Room
      <3>3. k \in Int /\ k <= Len(fifo[Served])
        <4> DEFINE a == Room(p)
                   b == Len(fifo[Served])
        <4>1. a \in Int /\ b \in Int /\ k = IF a < b THEN a ELSE b
          BY <3>1, <3>2 DEF Least
        <4> HIDE DEF a, b, k
        <4>2. k \in Int /\ k <= b
          BY <4>1
        <4> QED BY <4>2 DEF b
      <3> HIDE DEF k
      <3>4. \A i \in 1 .. k : fifo[Served][i] \in S
        BY <2>2, <3>1, <3>3
      <3>5. s \in Seq(S)
        BY <3>3, <3>4, SubSeqProperties
      <3> HIDE DEF s
      <3> QED BY <2>2, <3>5
    <2> HIDE DEF s
    <2>3. p.rx \o s \in Received
      BY <1>2, <2>2 DEF Port, Received
    <2>4. p.in_use => p.rx \o s \in Seq({Own})
      BY <1>2, <2>2 DEF OwnIn
    <2>5. g \in Port /\ g.in_use = p.in_use /\ g.rx = p.rx \o s
      BY <1>2, <2>3 DEF Port
    <2> HIDE DEF g, p
    <2>6. OwnIn(g, <<>>) /\ <<>> \in Received
      BY <2>4, <2>5 DEF OwnIn, Received
    <2>7. /\ PortInv' /\ ports'[Served] = g
          /\ \A n \in Numbers \ {Served} : ports'[n] = ports[n]
      BY <1>1, <2>1, <2>5, <2>6, PortBecomes
    <2> QED BY <2>5, <2>7 DEF BytesMoved, p
  <1>4. CASE ~p.known
    BY <1>4 DEF IRQ4, driver_serial_handle_interrupt, PortInv, BytesMoved
  <1> QED BY <1>3, <1>4

LEMMA OthersMove ==
  ASSUME PortInv, IRQ3 \/ KeyAcknowledged
  PROVE  BytesMoved
  BY DEF IRQ3, KeyAcknowledged, PortInv, BytesMoved

\* What LeftOpenOnlyByDeath says of a step.
LeftOpen ==
  \A n \in Wanted :
    ( /\ Holders(n) # {} /\ Holders(n)' = {}
      /\ ports[n].in_use /\ ports'[n].in_use )
    => \E c \in Holders(n) : task'[c] \in {"dead", "crashed"}

LEMMA HoldersAre ==
  ASSUME NEW n
  PROVE  /\ Holders(n) = {c \in Programs : Believes(c) /\ serial[c].Handle = n}
         /\ Holders(n)' = {c \in Programs : Believes(c)' /\ serial'[c].Handle = n}
  BY DEF Holders, Believes, HasOne, Has

\* A step of the ports alone that opens and closes none.
LEMMA MovedKeeps ==
  ASSUME SerialInv, BytesMoved, UNCHANGED <<task, serial>>
  PROVE  SerialInv' /\ LeftOpen
  <1>1. task' = task /\ serial' = serial
    OBVIOUS
  <1>2. \A c \in Programs : Believes(c)' = Believes(c)
    BY <1>1 DEF Believes
  <1>3. ASSUME NEW c \in Programs, Believes(c)
        PROVE  ports'[serial[c].Handle].in_use
    <2>1. serial[c].Handle \in Numbers
      BY <1>3, WantedNumbers DEF Believes, HasOne, SerialInv, HolderInv, TOSSerial
    <2> QED BY <1>3, <2>1 DEF BytesMoved, SerialInv, HolderInv
  <1>4. HolderInv'
    BY <1>1, <1>2, <1>3 DEF SerialInv, HolderInv
  <1>5. LeftOpen
    BY <1>1, <1>2, HoldersAre DEF LeftOpen
  <1> QED BY <1>4, <1>5 DEF SerialInv, BytesMoved

\* A step of the program c, which is in state t with the component r after it.
LEMMA ProgramKeeps ==
  ASSUME SerialInv, PortInv', NEW c \in Programs,
         NEW t \in TaskStates, NEW r \in TOSSerial,
         task' = [task EXCEPT ![c] = t], serial' = [serial EXCEPT ![c] = r],
         t \in {"runs", "reopens"} => r.number \in Wanted,
         t = "runs" /\ HasOne(r) =>
           /\ ports'[r.Handle].in_use
           /\ \A d \in Programs \ {c} : Believes(d) => serial[d].Handle # r.Handle,
         \A d \in Programs \ {c} : Believes(d) => ports'[serial[d].Handle].in_use,
         \/ t \in {"dead", "crashed"}
         \/ Believes(c) => \/ ~ports'[serial[c].Handle].in_use
                           \/ t = "runs" /\ HasOne(r) /\ r.Handle = serial[c].Handle
  PROVE  SerialInv' /\ LeftOpen
  <1>1. /\ task \in [Programs -> TaskStates] /\ serial \in [Programs -> TOSSerial]
        /\ \A d \in Programs : task[d] \in {"runs", "reopens"} => serial[d].number \in Wanted
        /\ \A d \in Programs : Believes(d) => ports[serial[d].Handle].in_use
        /\ \A d, e \in Programs :
             Believes(d) /\ Believes(e) /\ serial[d].Handle = serial[e].Handle => d = e
    BY DEF SerialInv, HolderInv
  <1>2. /\ task' \in [Programs -> TaskStates] /\ serial' \in [Programs -> TOSSerial]
        /\ task'[c] = t /\ serial'[c] = r
        /\ \A d \in Programs \ {c} : task'[d] = task[d] /\ serial'[d] = serial[d]
    BY <1>1
  <1>3. /\ Believes(c)' <=> t = "runs" /\ HasOne(r)
        /\ \A d \in Programs \ {c} : Believes(d)' <=> Believes(d)
    <2>1. \A d \in Programs : Believes(d)' <=> task'[d] = "runs" /\ HasOne(serial'[d])
      BY DEF Believes, HasOne
    <2> QED BY <1>2, <2>1 DEF Believes
  <1>4. \A d \in Programs :
          task'[d] \in {"runs", "reopens"} => serial'[d].number \in Wanted
    BY <1>1, <1>2
  <1>5. \A d \in Programs : Believes(d)' => ports'[serial'[d].Handle].in_use
    BY <1>2, <1>3
  <1>6. ASSUME NEW d \in Programs, NEW e \in Programs, Believes(d)', Believes(e)',
               serial'[d].Handle = serial'[e].Handle
        PROVE  d = e
    <2>1. CASE d = c /\ e # c
      BY <1>2, <1>3, <1>6, <2>1
    <2>2. CASE d # c /\ e = c
      BY <1>2, <1>3, <1>6, <2>2
    <2>3. CASE d # c /\ e # c
      BY <1>1, <1>2, <1>3, <1>6, <2>3
    <2> QED BY <2>1, <2>2, <2>3
  <1>7. SerialInv'
    BY <1>2, <1>4, <1>5, <1>6 DEF SerialInv, HolderInv
  <1>8. ASSUME NEW n \in Wanted, Holders(n) # {}, Holders(n)' = {}, ports'[n].in_use
        PROVE  \E d \in Holders(n) : task'[d] \in {"dead", "crashed"}
    <2>1. PICK d \in Programs : d \in Holders(n) /\ Believes(d) /\ serial[d].Handle = n
      BY <1>8, HoldersAre
    <2>2. ~(Believes(d)' /\ serial'[d].Handle = n)
      BY <1>8, HoldersAre
    <2>3. d = c
      BY <1>2, <1>3, <2>1, <2>2
    <2> QED BY <1>2, <1>3, <1>8, <2>1, <2>2, <2>3
  <1> QED BY <1>7, <1>8 DEF LeftOpen

\* One lemma per action of a program.
LEMMA CreateKeeps ==
  ASSUME SerialInv, NEW c \in Programs, OS_CreateSerial(c)
  PROVE  SerialInv' /\ LeftOpen
  <1>1. PICK n \in Wanted : serial' = [serial EXCEPT ![c] = [NoSerial EXCEPT !.number = n]]
    BY DEF OS_CreateSerial
  <1> DEFINE r == [NoSerial EXCEPT !.number = n]
  <1>2. r \in TOSSerial /\ ~HasOne(r) /\ r.number = n
    BY DEF NoSerial, TOSSerial, HasOne
  <1>3. /\ task' = [task EXCEPT ![c] = "runs"] /\ task[c] = "dead"
        /\ ports' = ports /\ fifo' = fifo
    BY DEF OS_CreateSerial, machine
  <1> HIDE DEF r
  <1>4. PortInv' /\ \A d \in Programs : Believes(d) => ports'[serial[d].Handle].in_use
    BY <1>3 DEF SerialInv, PortInv, HolderInv
  <1>5. ~Believes(c) /\ "runs" \in TaskStates
    BY <1>3 DEF Believes, TaskStates
  <1>6. serial' = [serial EXCEPT ![c] = r]
    BY <1>1 DEF r
  <1> QED BY <1>2, <1>3, <1>4, <1>5, <1>6, ProgramKeeps

LEMMA OpenKeeps ==
  ASSUME SerialInv, NEW c \in Programs, OS_Serial_Open(c) \/ Reopen(c)
  PROVE  SerialInv' /\ LeftOpen
  <1> DEFINE n == serial[c].number
  <1>1. n \in Wanted /\ ~Believes(c) /\ serial[c] \in TOSSerial
    BY DEF OS_Serial_Open, Reopen, Ready, Believes, HasOne, SerialInv, HolderInv
  <1>2. PICK ret \in Wanted \cup {Busy}, active \in BOOLEAN :
          /\ SysOpen(n, ret)
          /\ task' = [task EXCEPT ![c] = "runs"]
          /\ serial' = [serial EXCEPT ![c] = [serial[c] EXCEPT !.Handle = ret, !.Active = active]]
    <2>1. CASE OS_Serial_Open(c)
      <3>1. PICK ret \in Wanted \cup {Busy} :
              /\ SysOpen(n, ret)
              /\ serial' = [serial EXCEPT ![c].Handle = ret, ![c].Active = (ret # Busy)]
        BY <2>1 DEF OS_Serial_Open
      <3>2. task' = task /\ task[c] = "runs"
        BY <2>1 DEF OS_Serial_Open, Ready
      <3>3. task' = [task EXCEPT ![c] = "runs"]
        BY <3>2 DEF SerialInv, HolderInv
      <3> QED BY <3>1, <3>3
    <2>2. CASE Reopen(c)
      <3>1. PICK ret \in Wanted \cup {Busy} :
              SysOpen(n, ret) /\ serial' = [serial EXCEPT ![c].Handle = ret]
        BY <2>2 DEF Reopen
      <3>2. task' = [task EXCEPT ![c] = "runs"]
        BY <2>2 DEF Reopen
      <3>3. [serial[c] EXCEPT !.Handle = ret]
              = [serial[c] EXCEPT !.Handle = ret, !.Active = serial[c].Active]
        BY <1>1 DEF TOSSerial
      <3>4. serial[c].Active \in BOOLEAN
        BY <1>1 DEF TOSSerial
      <3> QED BY <3>1, <3>2, <3>3, <3>4
    <2> QED BY <2>1, <2>2
  <1> DEFINE r == [serial[c] EXCEPT !.Handle = ret, !.Active = active]
  <1>3. /\ PortInv'
        /\ \A k \in Numbers \ {n} : ports'[k] = ports[k]
        /\ \/ ret = Busy /\ ports' = ports
           \/ ret = n /\ ~ports[n].in_use /\ ports'[n].in_use
    BY <1>1, <1>2, SysOpenGives DEF SerialInv
  <1>4. r \in TOSSerial /\ r.number = n /\ r.Handle = ret
    BY <1>1 DEF TOSSerial
  <1> HIDE DEF r, n
  <1>5. ASSUME NEW d \in Programs, Believes(d)
        PROVE  /\ ports[serial[d].Handle].in_use /\ serial[d].Handle \in Numbers
               /\ ports'[serial[d].Handle].in_use
    <2>1. ports[serial[d].Handle].in_use /\ serial[d].Handle \in Numbers
      BY <1>5, WantedNumbers DEF SerialInv, HolderInv, Believes, HasOne, TOSSerial
    <2> QED BY <1>3, <2>1
  <1>6. HasOne(r) => ret = n /\ ~ports[n].in_use /\ ports'[n].in_use
    BY <1>3, <1>4 DEF HasOne
  <1>7. HasOne(r) => /\ ports'[r.Handle].in_use
                     /\ \A d \in Programs \ {c} : Believes(d) => serial[d].Handle # r.Handle
    BY <1>4, <1>5, <1>6
  <1>8. serial' = [serial EXCEPT ![c] = r] /\ "runs" \in TaskStates
    BY <1>2 DEF r, TaskStates
  <1> QED BY <1>1, <1>2, <1>3, <1>4, <1>5, <1>7, <1>8, ProgramKeeps

\* Closing, for good or to change the speed or because the window is closed.
LEMMA CloseKeeps ==
  ASSUME SerialInv, NEW c \in Programs,
         OS_Serial_Close(c) \/ OS_Serial_SetBaud(c) \/ CloseProgram(c)
  PROVE  SerialInv' /\ LeftOpen
  <1>0. NoSerial \in TOSSerial /\ ~HasOne(NoSerial)
    BY DEF NoSerial, TOSSerial, HasOne
  <1>1. /\ task[c] = "runs" /\ serial[c] \in TOSSerial /\ serial[c].number \in Wanted
        /\ Has(c) <=> Believes(c)
    BY DEF OS_Serial_Close, OS_Serial_SetBaud, CloseProgram, Ready, SerialInv, HolderInv,
           Has, Believes, HasOne
  <1>2. PICK t \in TaskStates, r \in TOSSerial :
          /\ task' = [task EXCEPT ![c] = t] /\ serial' = [serial EXCEPT ![c] = r]
          /\ t \in {"runs", "reopens"} => r.number \in Wanted
          /\ t # "runs" \/ ~HasOne(r)
          /\ IF Has(c) THEN SysClose(serial[c].Handle) ELSE UNCHANGED machine
    <2>1. CASE OS_Serial_Close(c)
      <3> DEFINE r == [serial[c] EXCEPT !.Active = FALSE, !.Handle = Closed]
      <3>1. serial' = [serial EXCEPT ![c] = r]
        BY <2>1 DEF OS_Serial_Close, CloseSerial
      <3>2. task' = [task EXCEPT ![c] = "runs"]
        BY <2>1, <1>1 DEF OS_Serial_Close, SerialInv, HolderInv
      <3>3. Has(c) /\ SysClose(serial[c].Handle)
        BY <2>1 DEF OS_Serial_Close, CloseSerial
      <3>4. r \in TOSSerial /\ r.number = serial[c].number /\ ~HasOne(r)
        BY <1>1 DEF TOSSerial, HasOne
      <3> HIDE DEF r
      <3> QED BY <1>1, <3>1, <3>2, <3>3, <3>4 DEF TaskStates
    <2>2. CASE OS_Serial_SetBaud(c)
      <3>1. /\ task' = [task EXCEPT ![c] = "reopens"] /\ serial' = serial
            /\ Has(c) /\ SysClose(serial[c].Handle)
        BY <2>2 DEF OS_Serial_SetBaud
      <3>2. serial' = [serial EXCEPT ![c] = serial[c]]
        BY <3>1 DEF SerialInv, HolderInv
      <3> QED BY <1>1, <3>1, <3>2 DEF TaskStates
    <2>3. CASE CloseProgram(c)
      BY <1>0, <2>3 DEF CloseProgram, TaskStates
    <2> QED BY <2>1, <2>2, <2>3
  <1>3. CASE Believes(c)
    <2> DEFINE n == serial[c].Handle
    <2>1. n \in Wanted
      BY <1>1, <1>3 DEF Believes, HasOne, TOSSerial
    <2>2. /\ PortInv' /\ ~ports'[n].in_use
          /\ \A k \in Numbers \ {n} : ports'[k] = ports[k]
      BY <1>1, <1>2, <1>3, <2>1, SysCloseCloses DEF SerialInv
    <2>3. ASSUME NEW d \in Programs \ {c}, Believes(d)
          PROVE  ports'[serial[d].Handle].in_use
      <3>1. /\ ports[serial[d].Handle].in_use /\ serial[d].Handle \in Numbers
            /\ serial[d].Handle # n
        BY <1>3, <2>3, WantedNumbers DEF SerialInv, HolderInv, Believes, HasOne, TOSSerial
      <3> QED BY <2>2, <3>1
    <2> QED BY <1>2, <2>2, <2>3, ProgramKeeps
  <1>4. CASE ~Believes(c)
    <2>1. ports' = ports /\ fifo' = fifo
      BY <1>1, <1>2, <1>4 DEF machine
    <2>2. PortInv' /\ \A d \in Programs : Believes(d) => ports'[serial[d].Handle].in_use
      BY <2>1 DEF SerialInv, PortInv, HolderInv
    <2> QED BY <1>2, <1>4, <2>2, ProgramKeeps
  <1> QED BY <1>3, <1>4

\* A program ends, is killed, or crashes in the interrupt without a handler.
LEMMA DeathKeeps ==
  ASSUME SerialInv, NEW c \in Programs, NEW t \in {"dead", "crashed"},
         NEW r \in {serial[c], NoSerial}, ports' = ports, fifo' = fifo,
         task' = [task EXCEPT ![c] = t], serial' = [serial EXCEPT ![c] = r]
  PROVE  SerialInv' /\ LeftOpen
  <1>1. r \in TOSSerial /\ t \in TaskStates /\ t # "runs" /\ t # "reopens"
    <2>1. NoSerial \in TOSSerial
      BY DEF NoSerial, TOSSerial
    <2>2. serial[c] \in TOSSerial
      BY DEF SerialInv, HolderInv
    <2> QED BY <2>1, <2>2 DEF TaskStates
  <1>2. PortInv' /\ \A d \in Programs : Believes(d) => ports'[serial[d].Handle].in_use
    BY DEF SerialInv, PortInv, HolderInv
  <1> QED BY <1>1, <1>2, ProgramKeeps

LEMMA SerialStep ==
  ASSUME SerialInv, [SerialNext]_serialVars
  PROVE  SerialInv' /\ LeftOpen
  <1>1. ASSUME NEW c \in Programs, OS_Serial_Read(c) PROVE SerialInv' /\ LeftOpen
    <2>1. BytesMoved
      BY <1>1, ReadMoves
    <2> QED BY <1>1, <2>1, MovedKeeps DEF OS_Serial_Read
  <1>2. ASSUME NEW n \in Wanted, Arrive(n) PROVE SerialInv' /\ LeftOpen
    <2>1. BytesMoved
      BY <1>2, ArriveMoves DEF SerialInv
    <2> QED BY <1>2, <2>1, MovedKeeps DEF Arrive
  <1>3. ASSUME IRQ4 PROVE SerialInv' /\ LeftOpen
    <2>1. BytesMoved
      BY <1>3, IRQ4Moves DEF SerialInv
    <2> QED BY <1>3, <2>1, MovedKeeps DEF IRQ4
  <1>4. ASSUME KeyAcknowledged PROVE SerialInv' /\ LeftOpen
    <2>1. BytesMoved
      BY <1>4, OthersMove DEF SerialInv
    <2> QED BY <1>4, <2>1, MovedKeeps DEF KeyAcknowledged
  <1>5. ASSUME IRQ3 PROVE SerialInv' /\ LeftOpen
    <2>1. CASE UNCHANGED <<task, serial>>
      <3>1. BytesMoved
        BY <1>5, OthersMove DEF SerialInv
      <3> QED BY <2>1, <3>1, MovedKeeps
    <2>2. CASE \E c \in Programs : /\ task' = [task EXCEPT ![c] = "crashed"]
                                   /\ serial' = [serial EXCEPT ![c] = NoSerial]
      <3>1. ports' = ports /\ fifo' = fifo
        BY <1>5 DEF IRQ3
      <3> QED BY <2>2, <3>1, DeathKeeps
    <2> QED BY <1>5, <2>1, <2>2 DEF IRQ3
  <1>6. ASSUME NEW c \in Programs, Killed(c) PROVE SerialInv' /\ LeftOpen
    <2>1. /\ ports' = ports /\ fifo' = fifo
          /\ task' = [task EXCEPT ![c] = "dead"] /\ serial' = [serial EXCEPT ![c] = NoSerial]
      BY <1>6 DEF Killed, machine
    <2> QED BY <2>1, DeathKeeps
  <1>7. ASSUME NEW c \in Programs, Exit(c) PROVE SerialInv' /\ LeftOpen
    <2>1. /\ ports' = ports /\ fifo' = fifo
          /\ task' = [task EXCEPT ![c] = "dead"] /\ serial' = serial
      BY <1>7 DEF Exit, machine
    <2>2. serial' = [serial EXCEPT ![c] = serial[c]]
      BY <2>1 DEF SerialInv, HolderInv
    <2> QED BY <2>1, <2>2, DeathKeeps
  <1>8. ASSUME UNCHANGED serialVars PROVE SerialInv' /\ LeftOpen
    <2>1. BytesMoved
      BY <1>8 DEF serialVars, machine, BytesMoved, SerialInv, PortInv
    <2> QED BY <1>8, <2>1, MovedKeeps DEF serialVars
  <1>9. ASSUME NEW c \in Programs,
               \/ OS_CreateSerial(c) \/ OS_Serial_Open(c) \/ OS_Serial_Close(c)
               \/ OS_Serial_SetBaud(c) \/ Reopen(c) \/ CloseProgram(c)
        PROVE  SerialInv' /\ LeftOpen
    BY <1>9, CreateKeeps, OpenKeeps, CloseKeeps
  <1> QED BY <1>1, <1>2, <1>3, <1>4, <1>5, <1>6, <1>7, <1>8, <1>9 DEF SerialNext

\* A set without two members has one at most.
LEMMA AtMostOne ==
  ASSUME NEW S, \A x, y \in S : x = y
  PROVE  Cardinality(S) <= 1
  <1>1. CASE S = {}
    BY <1>1, FS_EmptySet
  <1>2. CASE S # {}
    <2>1. PICK x \in S : TRUE
      BY <1>2
    <2>2. S = {x}
      BY <2>1
    <2>3. Cardinality(S) = 1
      BY <2>2, FS_Singleton
    <2> QED BY <2>3
  <1> QED BY <1>1, <1>2

\* Whatever programs do with their ports, the interrupts of all of them and the
\* deaths of any leave no program without the port it believes it has, and no
\* byte in a port that is not its holder's.
THEOREM SerialInvariant == SerialSpec => []SerialInv
  <1>1. SerialInit => SerialInv
    <2> SUFFICES ASSUME SerialInit PROVE SerialInv
      OBVIOUS
    <2>1. [known |-> FALSE, in_use |-> FALSE, rx |-> <<>>] \in Port /\ <<>> \in Received
      BY DEF Port, Received
    <2>2. PortInv
      BY <2>1 DEF SerialInit, PortInv, OwnIn
    <2>3. NoSerial \in TOSSerial /\ ~HasOne(NoSerial)
      BY DEF NoSerial, TOSSerial, HasOne
    <2>4. HolderInv
      BY <2>3 DEF SerialInit, HolderInv, Believes, TaskStates
    <2> QED BY <2>2, <2>4 DEF SerialInv
  <1>2. SerialInv /\ [SerialNext]_serialVars => SerialInv'
    BY SerialStep
  <1> QED BY <1>1, <1>2, PTL DEF SerialSpec

\* PortsSound: one program at a time has a port, it is open when one has it, and
\* nobody reads what was sent to somebody else.
THEOREM PortsAreSound == SerialSpec => []PortsSound
  <1>1. SerialInv => PortsSound
    <2> SUFFICES ASSUME SerialInv PROVE PortsSound
      OBVIOUS
    <2>1. ASSUME NEW n \in Wanted
          PROVE  Cardinality(Holders(n)) <= 1 /\ (Holders(n) # {} => ports[n].in_use)
      <3>1. \A c \in Holders(n) : c \in Programs /\ Believes(c) /\ serial[c].Handle = n
        BY HoldersAre
      <3>2. \A c, d \in Holders(n) : c = d
        BY <3>1 DEF SerialInv, HolderInv
      <3>3. Holders(n) # {} => ports[n].in_use
        BY <3>1 DEF SerialInv, HolderInv
      <3> QED BY <3>2, <3>3, AtMostOne
    <2>2. ASSUME NEW n \in Wanted, ports[n].in_use,
                 NEW s \in {ports[n].rx, fifo[n]}, NEW i \in DOMAIN s
          PROVE  s[i] = Own
      <3>1. s \in Seq({Own})
        BY <2>2, WantedNumbers DEF SerialInv, PortInv, OwnIn
      <3> QED BY <3>1
    <2>3. OneHolder /\ OwnBytes
      BY <2>1, <2>2 DEF OneHolder, OwnBytes
    <2> QED BY <2>3 DEF PortsSound
  <1> QED BY <1>1, SerialInvariant, PTL

\* LeftOpenOnlyByDeath: a port stays open without a program to close it only
\* when a program that has it is killed or crashes.
THEOREM OnlyDeathLeavesOpen == SerialSpec => LeftOpenOnlyByDeath
  <1>1. SerialInv /\ [SerialNext]_serialVars => LeftOpen
    BY SerialStep
  <1>2. LeftOpenOnlyByDeath <=> [][LeftOpen]_serialVars
    BY DEF LeftOpenOnlyByDeath, LeftOpen
  <1> QED BY <1>1, <1>2, SerialInvariant, PTL DEF SerialSpec

-----------------------------------------------------------------------------
\* The mouse

\* The bytes that the handler holds are those of the packet, when it holds as
\* many as were sent of it: it cannot have got there from another beginning.
MouseInv ==
  /\ mouse_byte \in Seq(Int) /\ sending \in Seq(Int)
  /\ mouse_cycle \in 0 .. 3
  /\ mouse_x \in Int /\ mouse_y \in Int
  /\ Len(sending) \in {0, 4} /\ sent \in 0 .. Len(sending)
  /\ mouse_cycle = sent => \A i \in 1 .. sent : mouse_byte[i] = sending[i]
  /\ ~Initialised => sent = 0

LEMMA EncodedBytes ==
  ASSUME NEW m \in Movements
  PROVE  Encoded(m) \in Seq(Int) /\ Len(Encoded(m)) = 4
  <1>1. m[1] \in Int /\ m[2] \in Int /\ m[3] \in Int /\ m[4] \in Int
    BY MouseAssumption
  <1> QED BY <1>1 DEF Encoded

\* A pointer that is held inside the screen is at the closest place there.
LEMMA ClampedIsClosest ==
  ASSUME NEW v \in Int, NEW size \in Nat \ {0}
  PROVE  Clamped(v, size) = Closest(v, size)
  <1> DEFINE P(p) == \A q \in 0 .. size - 1 : Near(p, v) <= Near(q, v)
             c == Clamped(v, size)
  <1>1. c \in 0 .. size - 1
    BY DEF Clamped
  <1>2. P(c)
    BY DEF Clamped, Near
  <1>3. ASSUME NEW p \in 0 .. size - 1, P(p) PROVE p = c
    <2>1. Near(p, v) <= Near(c, v) /\ Near(c, v) <= Near(p, v)
      BY <1>1, <1>2, <1>3
    <2> QED BY <2>1 DEF Clamped, Near
  <1> HIDE DEF P, c
  <1>4. (CHOOSE p \in 0 .. size - 1 : P(p)) = c
    BY <1>1, <1>2, <1>3
  <1> QED BY <1>4 DEF Closest, P, c

\* The nine bits of a movement that is not past 127 come out as they went in.
LEMMA RelativeTrue ==
  ASSUME NEW d \in -256 .. 127
  PROVE  Relative(d % 256, d < 0) = d
  BY DEF Relative, Signed

\* What a step of the handler does to the packet that it puts together.
LEMMA HandlerStep ==
  ASSUME MouseInv, NEW data \in Int, mouse_handler(data)
  PROVE  /\ mouse_byte' \in Seq(Int) /\ mouse_x' \in Int /\ mouse_y' \in Int
         /\ \/ mouse_cycle' = 0 /\ mouse_byte' = <<>>
            \/ /\ mouse_cycle < 3 /\ mouse_cycle' = mouse_cycle + 1
               /\ mouse_byte' = Append(mouse_byte, data)
  <1>1. CASE mouse_cycle = 0 /\ ~InSync(data)
    BY <1>1 DEF mouse_handler, MouseInv, position, mouse_cycle
  <1>2. CASE ~(mouse_cycle = 0 /\ ~InSync(data)) /\ mouse_cycle < 3
    <2>1. mouse_byte' = Append(mouse_byte, data) /\ mouse_x' = mouse_x /\ mouse_y' = mouse_y
      BY <1>2 DEF mouse_handler, position
    <2>2. mouse_byte' \in Seq(Int) /\ Len(mouse_byte') = Len(mouse_byte) + 1
      BY <2>1 DEF MouseInv
    <2> QED BY <1>2, <2>1, <2>2 DEF MouseInv, mouse_cycle
  <1>3. CASE ~(mouse_cycle = 0 /\ ~InSync(data)) /\ ~(mouse_cycle < 3)
    <2> DEFINE first == mouse_byte[1]
               x == mouse_x + Relative(mouse_byte[2], Bit(first, 16))
               y == mouse_y - Relative(mouse_byte[3], Bit(first, 32))
    <2>1. mouse_byte' = <<>> /\ mouse_x' = Clamped(x, Width) /\ mouse_y' = Clamped(y, Height)
      BY <1>3 DEF mouse_handler
    <2>2. mouse_byte[2] \in Int /\ mouse_byte[3] \in Int
      BY <1>3 DEF MouseInv, mouse_cycle
    <2>3. x \in Int /\ y \in Int
      <3> DEFINE r1 == Relative(mouse_byte[2], Bit(first, 16))
                 r2 == Relative(mouse_byte[3], Bit(first, 32))
      <3>1. r1 \in Int /\ r2 \in Int
        BY <2>2 DEF Relative, Signed
      <3>2. x = mouse_x + r1 /\ y = mouse_y - r2
        OBVIOUS
      <3> HIDE DEF r1, r2, x, y
      <3>3. mouse_x \in Int /\ mouse_y \in Int
        BY DEF MouseInv
      <3> QED BY <3>1, <3>2, <3>3
    <2> HIDE DEF x, y
    <2>4. mouse_x' \in Int /\ mouse_y' \in Int
      BY <2>1, <2>3, MouseAssumption DEF Clamped
    <2> QED BY <2>1, <2>4 DEF mouse_cycle
  <1> QED BY <1>1, <1>2, <1>3

LEMMA MouseStep ==
  ASSUME MouseInv, [MouseNext]_mouseVars
  PROVE  MouseInv'
  <1>1. ASSUME AnswerTaken PROVE MouseInv'
    <2>1. /\ ACK \in Int /\ mouse_handler(ACK) /\ sending' = sending
          /\ sent' = sent /\ sent = 0
      BY <1>1 DEF AnswerTaken, device, ACK, MouseInv, Initialised, AllSent
    <2>2. /\ mouse_byte' \in Seq(Int) /\ mouse_x' \in Int /\ mouse_y' \in Int
          /\ mouse_cycle' = 0 \/ (mouse_cycle < 3 /\ mouse_cycle' = mouse_cycle + 1)
      BY <2>1, HandlerStep
    <2>3. mouse_cycle' \in 0 .. 3
      BY <2>2 DEF MouseInv
    <2>4. \A i \in 1 .. sent' : mouse_byte'[i] = sending'[i]
      BY <2>1
    <2> QED BY <2>1, <2>2, <2>3, <2>4 DEF MouseInv
  <1>2. ASSUME NEW m \in Movements, Move(m) PROVE MouseInv'
    <2>1. /\ sending' = Encoded(m) /\ sent' = 0 /\ mouse_byte' = mouse_byte
          /\ mouse_x' = mouse_x /\ mouse_y' = mouse_y
      BY <1>2 DEF Move, position
    <2> QED BY <2>1, EncodedBytes DEF MouseInv, mouse_cycle
  <1>3. ASSUME IRQ12 PROVE MouseInv'
    <2> DEFINE data == sending[sent + 1]
    <2>1. /\ mouse_handler(data) /\ sent' = sent + 1 /\ sending' = sending
          /\ sent < Len(sending) /\ Initialised /\ Initialised'
      BY <1>3 DEF IRQ12, Initialised
    <2>2. data \in Int /\ sent \in Nat
      BY <2>1 DEF MouseInv
    <2> HIDE DEF data
    <2>3. /\ mouse_byte' \in Seq(Int) /\ mouse_x' \in Int /\ mouse_y' \in Int
          /\ \/ mouse_cycle' = 0 /\ mouse_byte' = <<>>
             \/ /\ mouse_cycle < 3 /\ mouse_cycle' = mouse_cycle + 1
                /\ mouse_byte' = Append(mouse_byte, data)
      BY <2>1, <2>2, HandlerStep
    <2>4. ASSUME mouse_cycle' = sent' PROVE \A i \in 1 .. sent' : mouse_byte'[i] = sending'[i]
      <3>1. mouse_cycle = sent /\ mouse_byte' = Append(mouse_byte, data)
        BY <2>1, <2>2, <2>3, <2>4 DEF MouseInv
      <3> QED BY <2>1, <2>2, <3>1 DEF MouseInv, mouse_cycle, data
    <2>5. mouse_cycle' \in 0 .. 3
      BY <2>3 DEF MouseInv
    <2>6. Len(sending') \in {0, 4} /\ sent' \in 0 .. Len(sending') /\ sending' \in Seq(Int)
      BY <2>1, <2>2 DEF MouseInv
    <2> QED BY <2>1, <2>3, <2>4, <2>5, <2>6 DEF MouseInv
  <1>4. ASSUME UNCHANGED <<mouse_byte, position, device>>, Initialised => Initialised'
        PROVE  MouseInv'
    <2>1. /\ mouse_byte' = mouse_byte /\ mouse_x' = mouse_x /\ mouse_y' = mouse_y
          /\ sending' = sending /\ sent' = sent
      BY <1>4 DEF position, device
    <2>2. mouse_cycle' = mouse_cycle
      BY <2>1 DEF mouse_cycle
    <2> QED BY <1>4, <2>1, <2>2 DEF MouseInv
  <1>5. ASSUME Acknowledged PROVE MouseInv'
    BY <1>4, <1>5 DEF Acknowledged, Initialised, AllSent
  <1>6. ASSUME UNCHANGED mouseVars PROVE MouseInv'
    BY <1>4, <1>6 DEF mouseVars, Initialised
  <1> QED BY <1>1, <1>2, <1>3, <1>5, <1>6 DEF MouseNext

\* PacketsTrue: a packet read from its first byte moves the pointer as far as
\* the user moved the mouse, up to the edges, and shows the buttons.
THEOREM PacketsAreTrue == MouseSpec => PacketsTrue
  <1> DEFINE True(m) == /\ mouse_buttons' = m[1]
                        /\ mouse_x' = Closest(mouse_x + m[2], Width)
                        /\ mouse_y' = Closest(mouse_y - m[3], Height)
  <1>1. MouseInit => MouseInv
    <2> SUFFICES ASSUME MouseInit PROVE MouseInv
      OBVIOUS
    <2>1. mouse_x \in Int /\ mouse_y \in Int
      BY MouseAssumption DEF MouseInit
    <2> QED BY <2>1 DEF MouseInit, MouseInv, mouse_cycle
  <1>2. MouseInv /\ [MouseNext]_mouseVars => MouseInv'
    BY MouseStep
  <1>3. ASSUME MouseInv, NEW m \in Movements, IRQ12, InStep, sent = 3,
               sending = Encoded(m), m[2] < 128, m[3] < 128
        PROVE  True(m)
    <2> DEFINE first == mouse_byte[1]
    <2>1. /\ m[1] \in 0 .. 7 /\ m[2] \in -256 .. 127 /\ m[3] \in -256 .. 127
      BY <1>3, MouseAssumption
    <2>2. /\ mouse_cycle = 3 /\ \A i \in 1 .. 3 : mouse_byte[i] = sending[i]
      BY <1>3 DEF InStep, MouseInv
    <2>3. /\ first = 8 + m[1] + (IF m[2] < 0 THEN 16 ELSE 0) + (IF m[3] < 0 THEN 32 ELSE 0)
          /\ mouse_byte[2] = m[2] % 256 /\ mouse_byte[3] = m[3] % 256
      BY <1>3, <2>2 DEF Encoded
    <2>4. mouse_handler(sending[4])
      BY <1>3 DEF IRQ12
    <2>5. /\ mouse_buttons' = first % 8
          /\ mouse_x' = Clamped(mouse_x + Relative(mouse_byte[2], Bit(first, 16)), Width)
          /\ mouse_y' = Clamped(mouse_y - Relative(mouse_byte[3], Bit(first, 32)), Height)
      BY <2>2, <2>4 DEF mouse_handler
    <2> HIDE DEF first
    <2>6. first % 8 = m[1] /\ (Bit(first, 16) <=> m[2] < 0) /\ (Bit(first, 32) <=> m[3] < 0)
      <3> DEFINE left == m[2] < 0
                 upward == m[3] < 0
      <3>1. left \in BOOLEAN /\ upward \in BOOLEAN /\ m[1] \in 0 .. 7
        BY <2>1
      <3>2. first = 8 + m[1] + (IF left THEN 16 ELSE 0) + (IF upward THEN 32 ELSE 0)
        BY <2>3
      <3>3. (left <=> m[2] < 0) /\ (upward <=> m[3] < 0)
        OBVIOUS
      <3> HIDE DEF left, upward
      <3>4. first % 8 = m[1] /\ (Bit(first, 16) <=> left) /\ (Bit(first, 32) <=> upward)
        BY <3>1, <3>2 DEF Bit
      <3> QED BY <3>3, <3>4
    <2>7. Relative(mouse_byte[2], Bit(first, 16)) = m[2]
          /\ Relative(mouse_byte[3], Bit(first, 32)) = m[3]
      BY <2>1, <2>3, <2>6, RelativeTrue DEF Relative
    <2>8. mouse_x + m[2] \in Int /\ mouse_y - m[3] \in Int
      <3>1. mouse_x \in Int /\ mouse_y \in Int
        BY <1>3 DEF MouseInv
      <3>2. m[2] \in Int /\ m[3] \in Int
        BY <2>1
      <3> QED BY <3>1, <3>2
    <2>9. /\ Clamped(mouse_x + m[2], Width) = Closest(mouse_x + m[2], Width)
          /\ Clamped(mouse_y - m[3], Height) = Closest(mouse_y - m[3], Height)
      BY <2>8, ClampedIsClosest, MouseAssumption
    <2> QED BY <2>5, <2>6, <2>7, <2>9
  <1>4. PacketsTrue <=>
          [][ \A m \in Movements :
                ( /\ IRQ12 /\ InStep /\ sent = 3 /\ sending = Encoded(m)
                  /\ m[2] < 128 /\ m[3] < 128 ) => True(m) ]_mouseVars
    BY DEF PacketsTrue
  <1> HIDE DEF True
  <1>5. MouseInv => \A m \in Movements :
                      ( /\ IRQ12 /\ InStep /\ sent = 3 /\ sending = Encoded(m)
                        /\ m[2] < 128 /\ m[3] < 128 ) => True(m)
    BY <1>3
  <1> QED BY <1>1, <1>2, <1>4, <1>5, PTL DEF MouseSpec

-----------------------------------------------------------------------------
\* The SATA disk: what the driver computes.

\* The counter of a loop: one less, or all ones after 0.
LEMMA DecrementedValue ==
  /\ \A n \in 1 .. Polls : Decremented(n) = n - 1
  /\ Decremented(0) = Word - 1
<1>1. ASSUME NEW n \in 1 .. Polls PROVE Decremented(n) = n - 1
  BY AhciAssumption DEF Decremented
<1>2. Decremented(0) = Word - 1
  BY AhciAssumption DEF Decremented
<1> QED BY <1>1, <1>2

LEMMA Units == Unit[1] = 1 /\ Unit[2] = 256 /\ Unit[3] = 65536 /\ Unit[4] = 16777216
  BY SMT DEF Unit

\* What is in a command, for the controller and for the disk.
LEMMA CommandFields ==
  ASSUME NEW op \in {"read", "write"}, NEW lba \in Lbas
  PROVE  LET t == Command(op, lba)
         IN /\ t.w <=> op = "write"
            /\ t.command \in {"READ DMA EXT", "WRITE DMA EXT"} <=> lba48(lba)
            /\ t.low[1] = Octet(lba, 1) /\ t.low[2] = Octet(lba, 2) /\ t.low[3] = Octet(lba, 3)
            /\ lba48(lba) => t.high = Octet(lba, 4)
            /\ ~lba48(lba) => t.device = 224 + (Octet(lba, 4) % 16)
<1> DEFINE which == CASE op = "read" /\ lba48(lba)  -> "READ DMA EXT"
                      [] op = "read" /\ ~lba48(lba) -> "READ DMA"
                      [] op = "write" /\ lba48(lba) -> "WRITE DMA EXT"
                      [] OTHER                      -> "WRITE DMA"
<1>1. which \in {"READ DMA EXT", "WRITE DMA EXT"} <=> lba48(lba)
  BY DEF lba48
<1>2. Command(op, lba).command = which
  BY DEF Command
<1> HIDE DEF which
<1> QED BY <1>1, <1>2 DEF Command

\* Both forms of a command carry the whole address: the disk takes from it the
\* sector that was asked for.
THEOREM SectorOfCommand ==
  ASSUME NEW op \in {"read", "write"}, NEW lba \in Lbas
  PROVE  Sector(Command(op, lba)) = lba
<1> DEFINE t == Command(op, lba)
           o1 == Octet(lba, 1)
           o2 == Octet(lba, 2)
           o3 == Octet(lba, 3)
           o4 == Octet(lba, 4)
           top == IF t.command \in {"READ DMA EXT", "WRITE DMA EXT"}
                  THEN t.high ELSE t.device % 16
<1>1. lba \in Nat /\ lba \div 65536 < 65536
  BY AhciAssumption
<1>2. /\ o1 = lba % 256 /\ o2 = (lba \div 256) % 256
      /\ o3 = (lba \div 65536) % 256 /\ o4 = (lba \div 16777216) % 256
  BY SMT, <1>1, Units DEF Octet
<1>3. o1 \in 0 .. 255 /\ o2 \in 0 .. 255 /\ o3 \in 0 .. 255 /\ o4 \in 0 .. 255
  BY SMT, <1>1, <1>2
<1>4. t.low[1] = o1 /\ t.low[2] = o2 /\ t.low[3] = o3
  BY CommandFields
<1>5. Sector(t) = t.low[1] + Unit[2] * t.low[2] + Unit[3] * t.low[3] + Unit[4] * top
  BY DEF Sector
<1>6. lba48(lba) => top = o4
  BY CommandFields
<1>7. ~lba48(lba) => top = (224 + (o4 % 16)) % 16
  BY CommandFields
<1>8. ~lba48(lba) => lba < 268435456
  BY SMT, <1>1 DEF lba48
<1> HIDE DEF t, o1, o2, o3, o4, top
<1>9. top = o4
  BY SMT, <1>1, <1>2, <1>3, <1>6, <1>7, <1>8
<1>10. Sector(t) = o1 + 256 * o2 + 65536 * o3 + 16777216 * o4
  BY SMT, <1>3, <1>4, <1>5, <1>9, Units
<1>11. Sector(t) = lba
  BY SMT, <1>1, <1>2, <1>10
<1> QED BY <1>11 DEF t

-----------------------------------------------------------------------------
\* The invariant.

Pcs == {"idle", "fill", "table", "issue", "poll", "copy"}
Calls == [pc : Pcs, op : {"read", "write"}, lba : Nat, timeout : Nat,
          alone : BOOLEAN, after : BOOLEAN]

Types ==
  /\ call \in [Callers -> Calls]
  /\ disk \in [Lbas -> Values \cup {NoData}] /\ bounce \in Values \cup {NoData}
  /\ buffer \in [Callers -> Values \cup {NoData}] /\ result \in [Callers -> {0, 1}]
  /\ ci \in BOOLEAN /\ is30 \in BOOLEAN /\ tfd \in BOOLEAN

\* What a call is about, and the counter of its loop.
CallInv(c) ==
  /\ InCall(c) => call[c].lba \in Lbas
  /\ call[c].pc = "fill" => call[c].op = "write"
  /\ call[c].pc = "copy" => call[c].op = "read"
  /\ call[c].pc # "copy" => call[c].timeout \in 0 .. Polls

\* The sector has been moved: the bounce buffer, or the disk, has it.
Moved(c) == IF call[c].op = "read" THEN bounce = disk[call[c].lba]
            ELSE disk[call[c].lba] = buffer[c]

\* A call by itself: nobody else is in one.  The port is free until it issues
\* its command; a write's data stays in the bounce buffer, its command in the
\* table; and once the command has gone from the port the sector has been moved.
AloneInv(c) ==
  InCall(c) /\ call[c].alone =>
    /\ \A e \in Callers : e # c => ~InCall(e)
    /\ call[c].pc \in {"fill", "table", "issue"} => ~ci
    /\ call[c].op = "write" /\ call[c].pc # "fill" => bounce = buffer[c]
    /\ call[c].pc \in {"issue", "poll"} => table = Command(call[c].op, call[c].lba)
    /\ call[c].pc = "poll" /\ ~ci => Moved(c)
    /\ call[c].pc = "copy" /\ call[c].timeout # Word - 1 => Moved(c) /\ ~ci

\* A call that began after an error: the port stands still, so that the command
\* stays in it and the first round of the loop is the last.
AfterInv(c) ==
  InCall(c) /\ call[c].after =>
    /\ tfd /\ call[c].timeout = Polls /\ call[c].pc # "copy"
    /\ call[c].pc = "poll" => ci

AhciInv == Types /\ \A c \in Callers : CallInv(c) /\ AloneInv(c) /\ AfterInv(c)

LEMMA AhciInit == Init => AhciInv
<1> SUFFICES ASSUME Init PROVE AhciInv
  OBVIOUS
<1>1. Idle \in Calls
  BY DEF Idle, Calls, Pcs
<1>2. Types
  <2>1. /\ bounce = NoData /\ ci = FALSE /\ is30 = FALSE /\ tfd = FALSE
        /\ disk = [lba \in Lbas |-> Blank] /\ call = [c \in Callers |-> Idle]
        /\ buffer = [c \in Callers |-> NoData] /\ result = [c \in Callers |-> 1]
    BY DEF Init
  <2>2. Blank \in Values
    BY AhciAssumption
  <2> QED BY <1>1, <2>1, <2>2 DEF Types
<1>3. \A c \in Callers : ~InCall(c) /\ call[c].pc = "idle" /\ call[c].timeout = 0
  BY DEF Init, InCall, Idle
<1> QED BY <1>2, <1>3, AhciAssumption DEF AhciInv, CallInv, AloneInv, AfterInv

-----------------------------------------------------------------------------
\* A call begins: it is by itself if nobody is in a call and no command is left.
LEMMA BeginStep ==
  ASSUME AhciInv, NEW c \in Callers, NEW op \in {"read", "write"}, NEW lba \in Lbas,
         NEW v \in Values \cup {NoData}, Begin(c, op, lba, v)
  PROVE  AhciInv'
<1> USE DEF AhciInv
<1> DEFINE alone == ~ci /\ \A e \in Callers : ~InCall(e)
<1>1. alone \in BOOLEAN
  OBVIOUS
<1> DEFINE new == [pc |-> IF op = "write" THEN "fill" ELSE "table", op |-> op,
                   lba |-> lba, timeout |-> Polls, after |-> tfd, alone |-> alone]
<1>2. new \in Calls
  BY <1>1, AhciAssumption DEF Calls, Pcs, Types
<1>3. \A d \in Callers : [call[d] EXCEPT !.alone = FALSE] \in Calls
  BY DEF Types, Calls
<1>4. /\ ~InCall(c) /\ buffer' = [buffer EXCEPT ![c] = v]
      /\ UNCHANGED <<discos, table, bounce, port, disk, result>>
      /\ call' = [d \in Callers |-> IF d = c THEN new ELSE [call[d] EXCEPT !.alone = FALSE]]
  BY DEF Begin
<1>5. Types'
  BY <1>2, <1>3, <1>4 DEF Types, port
<1>6. call'[c] = new
  BY <1>4
<1>7. ASSUME NEW d \in Callers, d # c
      PROVE  /\ call'[d].pc = call[d].pc /\ call'[d].op = call[d].op
             /\ call'[d].lba = call[d].lba /\ call'[d].timeout = call[d].timeout
             /\ call'[d].after = call[d].after /\ call'[d].alone = FALSE
  BY <1>4, <1>7 DEF Types, Calls
<1>8. ASSUME NEW d \in Callers, d # c
      PROVE  (CallInv(d) /\ AloneInv(d) /\ AfterInv(d))'
  <2>1. /\ CallInv(d) /\ AloneInv(d) /\ AfterInv(d)
        /\ ci' = ci /\ tfd' = tfd
    BY <1>4 DEF port
  <2>2. CallInv(d)'
    BY <1>7, <1>8, <2>1 DEF CallInv, InCall
  <2>3. AloneInv(d)'
    BY <1>7, <1>8 DEF AloneInv
  <2>4. AfterInv(d)'
    BY <1>7, <1>8, <2>1 DEF AfterInv, InCall
  <2> QED BY <2>2, <2>3, <2>4
<1>9. CallInv(c)'
  BY <1>6, AhciAssumption DEF CallInv, InCall
<1>10. AloneInv(c)'
  <2>a. call'[c].alone = alone
    BY <1>6
  <2> SUFFICES ASSUME call'[c].alone PROVE AloneInv(c)'
    BY DEF AloneInv
  <2>b. alone
    BY <2>a
  <2>1. ~ci' /\ bounce' = bounce
    BY <1>4, <2>b DEF port
  <2>2. \A e \in Callers : e # c => ~InCall(e)'
    BY <1>7, <2>b DEF InCall
  <2>3. /\ call'[c].pc \in {"fill", "table"}
        /\ op = "write" => call'[c].pc = "fill"
        /\ call'[c].op = op
    BY <1>6
  <2> HIDE DEF alone
  <2> QED BY <2>1, <2>2, <2>3 DEF AloneInv
<1>11. AfterInv(c)'
  BY <1>4, <1>6 DEF AfterInv, InCall, port
<1> QED BY <1>5, <1>8, <1>9, <1>10, <1>11

\* What a step of a call leaves alone: everybody else's call.
LEMMA WorkFrame ==
  ASSUME AhciInv, NEW c \in Callers, Work(c), NEW d \in Callers, d # c
  PROVE  /\ InCall(c) /\ call'[d] = call[d] /\ buffer'[d] = buffer[d]
         /\ UNCHANGED <<disk, tfd>> /\ (ci' = ci \/ ci')
         /\ result'[d] = result[d]
  BY DEF AhciInv, Types, Work, FillBounce, BuildTable, Issue, Poll, Copy, AfterLoop,
         Return, InCall, port

LEMMA OthersKept ==
  ASSUME AhciInv, NEW c \in Callers, Work(c), NEW d \in Callers, d # c
  PROVE  (CallInv(d) /\ AloneInv(d) /\ AfterInv(d))'
<1>1. CallInv(d) /\ AfterInv(d) /\ (InCall(d) => ~call[d].alone)
  BY WorkFrame DEF AhciInv, AloneInv
<1> QED BY <1>1, WorkFrame DEF CallInv, AloneInv, AfterInv, InCall

\* A call that returns has no more to say.
LEMMA ReturnKeeps ==
  ASSUME AhciInv, NEW c \in Callers, Work(c), NEW r \in {0, 1}, Return(c, r),
         UNCHANGED <<disk, tfd, ci>>, bounce' \in Values \cup {NoData},
         buffer' \in [Callers -> Values \cup {NoData}], is30' \in BOOLEAN
  PROVE  AhciInv'
<1>1. Idle \in Calls /\ Idle.pc = "idle" /\ Idle.timeout = 0
  BY DEF Idle, Calls, Pcs
<1>2. call' = [call EXCEPT ![c] = Idle] /\ result' = [result EXCEPT ![c] = r]
  BY DEF Return
<1>3. Types'
  BY <1>1, <1>2 DEF AhciInv, Types
<1>4. call'[c] = Idle
  BY <1>2 DEF AhciInv, Types
<1>5. (CallInv(c) /\ AloneInv(c) /\ AfterInv(c))'
  BY <1>1, <1>4, AhciAssumption DEF CallInv, AloneInv, AfterInv, InCall
<1> QED BY <1>3, <1>5, OthersKept DEF AhciInv

\* A step that only takes the call further.
LEMMA CallOn ==
  ASSUME Types, NEW c \in Callers, NEW pc \in Pcs, call' = [call EXCEPT ![c].pc = pc]
  PROVE  /\ call' \in [Callers -> Calls]
         /\ call'[c].pc = pc /\ call'[c].op = call[c].op /\ call'[c].lba = call[c].lba
         /\ call'[c].timeout = call[c].timeout /\ call'[c].alone = call[c].alone
         /\ call'[c].after = call[c].after
<1>1. [call[c] EXCEPT !.pc = pc] \in Calls
  BY DEF Types, Calls
<1> QED BY <1>1 DEF Types, Calls

LEMMA WorkStep ==
  ASSUME AhciInv, NEW c \in Callers, Work(c)
  PROVE  AhciInv'
<1> USE DEF AhciInv
<1>a. \A d \in Callers : d # c => (CallInv(d) /\ AloneInv(d) /\ AfterInv(d))'
  BY OthersKept
<1>b. \A d \in Callers : d # c => call'[d] = call[d]
  BY WorkFrame
<1>c. "table" \in Pcs /\ "issue" \in Pcs /\ "poll" \in Pcs
  BY DEF Pcs
<1>1. CASE FillBounce(c)
  <2>1. /\ call[c].pc = "fill" /\ bounce' = buffer[c]
        /\ call' = [call EXCEPT ![c].pc = "table"]
        /\ UNCHANGED <<table, port, disk, buffer, result>>
    BY <1>1 DEF FillBounce
  <2>2. Types'
    BY <1>c, <2>1, CallOn DEF Types, port
  <2>3. (CallInv(c) /\ AloneInv(c) /\ AfterInv(c))'
    BY <1>b, <1>c, <2>1, CallOn DEF CallInv, AloneInv, AfterInv, InCall, port
  <2> QED BY <1>a, <2>2, <2>3
<1>2. CASE BuildTable(c)
  <2>1. /\ call[c].pc = "table" /\ table' = Command(call[c].op, call[c].lba)
        /\ is30' = FALSE /\ call' = [call EXCEPT ![c].pc = "issue"]
        /\ UNCHANGED <<bounce, ci, tfd, disk, buffer, result>>
    BY <1>2 DEF BuildTable
  <2>2. Types'
    BY <1>c, <2>1, CallOn DEF Types
  <2>3. /\ call'[c].pc = "issue" /\ call'[c].op = call[c].op
        /\ call'[c].lba = call[c].lba /\ call'[c].timeout = call[c].timeout
        /\ call'[c].alone = call[c].alone /\ call'[c].after = call[c].after
    BY <1>c, <2>1, CallOn
  <2>4. CallInv(c)' /\ AfterInv(c)'
    BY <2>1, <2>3 DEF CallInv, AfterInv, InCall
  <2>5. AloneInv(c)'
    BY <1>b, <2>1, <2>3 DEF AloneInv, InCall
  <2> QED BY <1>a, <2>2, <2>4, <2>5
<1>3. CASE Issue(c)
  <2>1. /\ call[c].pc = "issue" /\ ci' = TRUE
        /\ call' = [call EXCEPT ![c].pc = "poll"]
        /\ UNCHANGED <<table, bounce, is30, tfd, disk, buffer, result>>
    BY <1>3 DEF Issue
  <2>2. Types'
    BY <1>c, <2>1, CallOn DEF Types
  <2>3. /\ call'[c].pc = "poll" /\ call'[c].op = call[c].op
        /\ call'[c].lba = call[c].lba /\ call'[c].timeout = call[c].timeout
        /\ call'[c].alone = call[c].alone /\ call'[c].after = call[c].after
    BY <1>c, <2>1, CallOn
  <2>4. CallInv(c)' /\ AfterInv(c)'
    BY <2>1, <2>3 DEF CallInv, AfterInv, InCall
  <2>5. AloneInv(c)'
    BY <1>b, <2>1, <2>3 DEF AloneInv, InCall
  <2> QED BY <1>a, <2>2, <2>4, <2>5
<1>4. CASE Poll(c)
  <2> DEFINE left == Rounds(call[c].timeout)
  <2>1. /\ call[c].pc = "poll" /\ call[c].timeout \in 0 .. Polls
        /\ UNCHANGED <<table, bounce, ci, tfd, disk, buffer>>
    BY <1>4 DEF Poll, CallInv
  <2>2. /\ call[c].timeout = 0 => left = Word - 1
        /\ call[c].timeout # 0 => left = call[c].timeout - 1
    BY <2>1, DecrementedValue, AhciAssumption DEF Rounds
  <2>3. left \in Nat
    BY <2>1, <2>2, AhciAssumption
  <2> HIDE DEF left
  <2>4. CASE (call[c].timeout = 0 \/ ~ci) /\ AfterLoop(c, left)
    <3>1. CASE left # 0 /\ call[c].op = "read"
      <4>1. call' = [call EXCEPT ![c].pc = "copy", ![c].timeout = left]
            /\ UNCHANGED <<result, is30>>
        BY <2>4, <3>1 DEF AfterLoop
      <4>2. [call[c] EXCEPT !.pc = "copy", !.timeout = left] \in Calls
        BY <2>3 DEF Types, Calls, Pcs
      <4>3. call' = [call EXCEPT ![c] = [call[c] EXCEPT !.pc = "copy", !.timeout = left]]
        BY <4>1 DEF Types, Calls
      <4>4. call'[c] = [call[c] EXCEPT !.pc = "copy", !.timeout = left]
        BY <4>3 DEF Types
      <4>5. Types'
        BY <2>1, <4>1, <4>2, <4>3 DEF Types
      <4>6. /\ call'[c].pc = "copy" /\ call'[c].op = "read"
            /\ call'[c].lba = call[c].lba /\ call'[c].timeout = left
            /\ call'[c].alone = call[c].alone /\ call'[c].after = call[c].after
        BY <3>1, <4>4 DEF Types, Calls
      <4>7. CallInv(c)'
        BY <2>1, <4>6 DEF CallInv, InCall
      <4>8. call[c].timeout # 0 \/ left = Word - 1
        BY <2>2
      <4>9. AloneInv(c)'
        <5>1. call[c].timeout = 0 \/ ~ci
          BY <2>4
        <5>2. AloneInv(c)
          OBVIOUS
        <5> SUFFICES ASSUME call[c].alone PROVE AloneInv(c)'
          BY <4>6 DEF AloneInv
        <5>3. \A e \in Callers : e # c => ~InCall(e)'
          BY <1>b, <2>1, <5>2 DEF AloneInv, InCall
        <5>4. left # Word - 1 => ~ci /\ Moved(c)
          BY <2>1, <4>8, <5>1, <5>2 DEF AloneInv, InCall
        <5>5. left # Word - 1 => ~ci' /\ Moved(c)'
          BY <2>1, <3>1, <4>6, <5>4 DEF Moved
        <5> QED BY <4>6, <5>3, <5>5 DEF AloneInv
      <4>10. AfterInv(c)'
        <5>1. call[c].timeout = 0 \/ ~ci
          BY <2>4
        <5>2. AfterInv(c) /\ Polls # 0
          BY AhciAssumption
        <5> QED BY <2>1, <4>6, <5>1, <5>2 DEF AfterInv, InCall
      <4> QED BY <1>a, <4>5, <4>7, <4>9, <4>10
    <3>2. CASE ~(left # 0 /\ call[c].op = "read")
      <4>1. PICK r \in {0, 1} : Return(c, r)
        BY <2>4, <3>2 DEF AfterLoop
      <4>2. is30' = is30
        BY <2>4 DEF AfterLoop
      <4> QED BY <2>1, <4>1, <4>2, ReturnKeeps DEF Types
    <3> QED BY <3>1, <3>2
  <2>5. CASE Return(c, 0) /\ is30' = FALSE
    BY <2>1, <2>5, ReturnKeeps DEF Types
  <2>6. CASE /\ call[c].timeout # 0 /\ ci /\ ~PortError
             /\ call' = [call EXCEPT ![c].timeout = left]
             /\ UNCHANGED <<is30, result>>
    <3>1. [call[c] EXCEPT !.timeout = left] \in Calls
      BY <2>3 DEF Types, Calls
    <3>2. call'[c] = [call[c] EXCEPT !.timeout = left]
      BY <2>6 DEF Types
    <3>3. Types'
      BY <2>1, <2>6, <3>1 DEF Types
    <3>4. /\ call'[c].pc = "poll" /\ call'[c].op = call[c].op
          /\ call'[c].lba = call[c].lba /\ call'[c].timeout = left
          /\ call'[c].alone = call[c].alone /\ call'[c].after = call[c].after
      BY <2>1, <3>2 DEF Types, Calls
    <3>5. left \in 0 .. Polls
      BY <2>1, <2>2, <2>6, AhciAssumption
    <3>6. (CallInv(c) /\ AloneInv(c) /\ AfterInv(c))'
      BY <1>b, <2>1, <2>6, <3>4, <3>5 DEF CallInv, AloneInv, AfterInv, InCall, PortError
    <3> QED BY <1>a, <3>3, <3>6
  <2> QED BY <1>4, <2>4, <2>5, <2>6 DEF Poll, left
<1>5. CASE Copy(c)
  <2>1. /\ buffer' = [buffer EXCEPT ![c] = bounce] /\ Return(c, 1)
        /\ UNCHANGED <<bounce, port, disk>>
    BY <1>5 DEF Copy
  <2> QED BY <2>1, ReturnKeeps DEF Types, port
<1> QED BY <1>1, <1>2, <1>3, <1>4, <1>5 DEF Work

\* The disk executes the command that is in the port.
LEMMA TransferStep == ASSUME AhciInv, Transfer PROVE AhciInv'
<1> USE DEF AhciInv
<1> DEFINE s == Sector(table)
<1>1. /\ ci /\ ~tfd /\ ci' = FALSE /\ s \in Lbas
      /\ UNCHANGED <<table, is30, tfd, call, buffer, result>>
  BY DEF Transfer
<1>2. \/ table.w /\ disk' = [disk EXCEPT ![s] = bounce] /\ UNCHANGED bounce
      \/ ~table.w /\ bounce' = disk[s] /\ UNCHANGED disk
  BY DEF Transfer
<1> HIDE DEF s
<1>3. Types'
  <2>1. disk' \in [Lbas -> Values \cup {NoData}] /\ bounce' \in Values \cup {NoData}
    BY <1>1, <1>2 DEF Types
  <2> QED BY <1>1, <2>1 DEF Types
<1>4. ASSUME NEW c \in Callers
      PROVE  (CallInv(c) /\ AloneInv(c) /\ AfterInv(c))'
  <2>1. CallInv(c)' /\ AfterInv(c)'
    BY <1>1 DEF CallInv, AfterInv, InCall
  <2>2. AloneInv(c)'
    <3> SUFFICES ASSUME InCall(c), call[c].alone PROVE AloneInv(c)'
      BY <1>1 DEF AloneInv, InCall
    <3>1. CASE call[c].pc = "poll"
      <4>1. call[c].op \in {"read", "write"} /\ call[c].lba \in Lbas
        BY DEF Types, Calls, CallInv
      <4>2. table = Command(call[c].op, call[c].lba)
        BY <3>1 DEF AloneInv
      <4>3. s = call[c].lba
        BY <4>1, <4>2, SectorOfCommand DEF s
      <4>4. table.w <=> call[c].op = "write"
        BY <4>1, <4>2, CommandFields
      <4>5. call[c].op = "write" => bounce = buffer[c]
        BY <3>1 DEF AloneInv
      <4>6. Moved(c)' /\ (call[c].op = "write" => bounce' = buffer'[c])
        BY <1>1, <1>2, <4>1, <4>3, <4>4, <4>5 DEF Moved, Types
      <4> QED BY <1>1, <3>1, <4>2, <4>6 DEF AloneInv, InCall
    <3>2. CASE call[c].pc # "poll"
      <4>1. call[c].pc = "copy" /\ call[c].timeout = Word - 1
        BY <1>1, <3>2 DEF AloneInv, InCall, Types, Calls, Pcs
      <4>2. call[c].op = "read"
        BY <4>1 DEF CallInv
      <4> QED BY <1>1, <4>1, <4>2 DEF AloneInv, InCall
    <3> QED BY <3>1, <3>2
  <2> QED BY <2>1, <2>2
<1> QED BY <1>3, <1>4

LEMMA DiskErrorStep == ASSUME AhciInv, DiskError PROVE AhciInv'
  BY DEF AhciInv, Types, DiskError, CallInv, AloneInv, AfterInv, InCall, Moved

LEMMA AhciNext == AhciInv /\ [Next]_vars => AhciInv'
<1> SUFFICES ASSUME AhciInv, [Next]_vars PROVE AhciInv'
  OBVIOUS
<1>1. ASSUME NEW c \in Callers, Read(c) PROVE AhciInv'
  BY <1>1, BeginStep DEF Read
<1>2. ASSUME NEW c \in Callers, Write(c) PROVE AhciInv'
  BY <1>2, BeginStep DEF Write
<1>3. ASSUME NEW c \in Callers, Refuse(c) PROVE AhciInv'
  BY <1>3 DEF AhciInv, Types, Refuse, CallInv, AloneInv, AfterInv, InCall, Moved, port
<1>4. CASE UNCHANGED vars
  BY <1>4 DEF vars, AhciInv, Types, CallInv, AloneInv, AfterInv, InCall, Moved
<1> QED BY <1>1, <1>2, <1>3, <1>4, WorkStep, TransferStep, DiskErrorStep DEF Next

\* What holds of every call to the SATA disk, for any callers, masked or not,
\* whatever the disk does, and whenever.
THEOREM AhciInvariant == Spec => []AhciInv
  BY AhciInit, AhciNext, PTL DEF Spec

-----------------------------------------------------------------------------
\* Only a call that works returns, and it returns 1 only from its loop or with
\* its copy.
LEMMA WhoReturns ==
  ASSUME AhciInv, Next, NEW c \in Callers, Returns(c, 1)
  PROVE  \/ Copy(c)
         \/ /\ Poll(c) /\ call[c].op = "write"
            /\ call[c].timeout = 0 \/ ~ci
<1>1. ASSUME NEW d \in Callers, Read(d) \/ Write(d) PROVE FALSE
  <2>1. call'[c].pc = call[c].pc \/ call'[c].pc \in {"fill", "table"}
    BY <1>1 DEF Read, Write, Begin, AhciInv, Types, Calls
  <2> QED BY <2>1 DEF Returns, InCall
<1>2. ASSUME NEW d \in Callers, Refuse(d) PROVE FALSE
  BY <1>2 DEF Refuse, Returns, InCall
<1>3. ~Transfer /\ ~DiskError
  BY DEF Transfer, DiskError, Returns, InCall
<1>4. PICK d \in Callers : Work(d)
  BY <1>1, <1>2, <1>3 DEF Next
<1>5. d = c
  BY <1>4, WorkFrame DEF Returns, InCall
<1>6. ~FillBounce(c) /\ ~BuildTable(c) /\ ~Issue(c)
  BY CallOn DEF FillBounce, BuildTable, Issue, Returns, AhciInv, Types, Calls, Pcs
<1>7. ASSUME Poll(c)
      PROVE  call[c].op = "write" /\ (call[c].timeout = 0 \/ ~ci)
  <2>1. ~Return(c, 0)
    BY DEF Return, Returns, AhciInv, Types
  <2>2. \A n : call' # [call EXCEPT ![c].timeout = n]
    BY <1>7 DEF Poll, Returns, AhciInv, Types, Calls
  <2>3. PICK left : (call[c].timeout = 0 \/ ~ci) /\ AfterLoop(c, left)
    BY <1>7, <2>1, <2>2 DEF Poll
  <2>4. \A n : call' # [call EXCEPT ![c].pc = "copy", ![c].timeout = n]
    BY DEF Returns, AhciInv, Types, Calls
  <2>5. call[c].op # "read"
    BY <2>1, <2>3, <2>4 DEF AfterLoop
  <2> QED BY <2>3, <2>5 DEF AhciInv, Types, Calls
<1> QED BY <1>4, <1>5, <1>6, <1>7 DEF Work

\* TransferTrue: a call by itself that reports success, and whose wait did not
\* run out, has moved its sector between its own buffer and its own address.
THEOREM TransferIsTrue == Spec => TransferTrue
<1> DEFINE True == \A c \in Callers :
       Returns(c, 1) /\ call[c].alone /\ ~RanOut(c)
         => buffer'[c] = disk'[call[c].lba]
<1>1. ASSUME AhciInv, Next PROVE True
  <2> SUFFICES ASSUME NEW c \in Callers, Returns(c, 1), call[c].alone, ~RanOut(c)
               PROVE  buffer'[c] = disk'[call[c].lba]
    OBVIOUS
  <2>1. InCall(c) /\ AloneInv(c) /\ CallInv(c)
    BY <1>1 DEF Returns, AhciInv
  <2>2. CASE Copy(c)
    <3>1. call[c].pc = "copy" /\ call[c].timeout # Word - 1 /\ call[c].op = "read"
      BY <2>1, <2>2 DEF Copy, RanOut, CallInv
    <3>2. buffer'[c] = bounce /\ disk' = disk
      BY <1>1, <2>2 DEF Copy, AhciInv, Types
    <3> QED BY <2>1, <3>1, <3>2 DEF AloneInv, Moved
  <2>3. CASE Poll(c) /\ call[c].op = "write" /\ (call[c].timeout = 0 \/ ~ci)
    <3>1. call[c].pc = "poll" /\ ~ci /\ UNCHANGED <<buffer, disk>>
      BY <2>3 DEF Poll, RanOut
    <3> QED BY <2>1, <2>3, <3>1 DEF AloneInv, Moved
  <2> QED BY <1>1, <2>2, <2>3, WhoReturns
<1>2. TransferTrue <=> [][True]_vars
  BY DEF TransferTrue
<1> HIDE DEF True
<1> QED BY <1>1, <1>2, AhciInvariant, PTL DEF Spec

\* NoSuccessAfterError: no call that began after an error reports success, by
\* itself or not.
THEOREM ErrorIsFinal == Spec => NoSuccessAfterError
<1> DEFINE Final == \A c \in Callers : call[c].after => ~Returns(c, 1)
<1>1. ASSUME AhciInv, Next PROVE Final
  <2> SUFFICES ASSUME NEW c \in Callers, call[c].after, Returns(c, 1) PROVE FALSE
    OBVIOUS
  <2>1. InCall(c) /\ AfterInv(c)
    BY <1>1 DEF Returns, AhciInv
  <2>2. call[c].pc # "copy" /\ call[c].timeout # 0 /\ (call[c].pc = "poll" => ci)
    BY <2>1, AhciAssumption DEF AfterInv
  <2> QED BY <1>1, <2>2, WhoReturns DEF Copy, Poll
<1>2. NoSuccessAfterError <=> [][Final]_vars
  BY DEF NoSuccessAfterError
<1> HIDE DEF Final
<1> QED BY <1>1, <1>2, AhciInvariant, PTL DEF Spec
=============================================================================
