--------------------------- MODULE SerialTxProofs ---------------------------
(***************************************************************************)
(* Proofs about SerialTx for every ring size, depth of the USART and set   *)
(* of writers.                                                             *)
(***************************************************************************)
EXTENDS SerialTx, SequenceTheorems, TLAPS

(* Exactly the writer that holds xmit.sem is inside uart_write. *)
OneInside ==
  \A w \in Writers : (owner = w) <=> (pc[w] \notin {"idle", "lock"})

(* Without a waiter the semaphore holds no debt, and an announced wait     *)
(* that nobody waits for any more excludes a token.                        *)
TokenInv ==
  (\A w \in Writers : pc[w] # "wait") =>
     xmitsem \in 0 .. 1 /\ (xmitwaiting => xmitsem = 0)

(* The interrupt is never enabled over an empty ring, and disabled over a  *)
(* ring with bytes only while a writer is filling it.                      *)
Filling == {"loop", "put", "woken", "aborted", "finish"}

InterruptInv ==
  /\ txie => head # tail
  /\ (head # tail /\ ~txie) => \E w \in Writers : pc[w] \in Filling

(* A writer that has a byte to put has not yet counted it. *)
CountInv ==
  \A w \in Writers : pc[w] \in {"put", "wait", "woken"} => buflen > 0

TxInv ==
  TypeOK /\ OneInside /\ TokenInv /\ InterruptInv /\ CountInv /\ NoStall

-----------------------------------------------------------------------------
(* What uart_xmitchars may send is in the ring and fits the USART; it      *)
(* sends something unless the ring is empty or the USART busy.             *)
LEMMA SendableBounds ==
  ASSUME TypeOK, NEW n \in Sendable
  PROVE  /\ n \in 0 .. Count /\ n + Len(usart) <= Depth
         /\ Count \in 0 .. Size - 1 /\ (Count = 0 <=> head = tail)
         /\ n > 0 => head # tail
<1>1. Len(usart) \in Nat
  BY LenProperties DEF TypeOK
<1>2. Count \in 0 .. Size - 1 /\ (Count = 0 <=> head = tail)
  BY SerialTxAssumption DEF TypeOK, Count
<1>3. CASE head # tail /\ TxReady
  BY <1>1, <1>2, <1>3, SerialTxAssumption DEF Sendable, TypeOK, TxReady
<1>4. CASE ~(head # tail /\ TxReady)
  BY <1>1, <1>2, <1>4, SerialTxAssumption DEF Sendable, TypeOK
<1> QED
  BY <1>3, <1>4

(* Sending moves the tail up to the head but not beyond it, and fills the  *)
(* USART with bytes of the ring.                                           *)
LEMMA SendMovesTail ==
  ASSUME TypeOK, NEW n \in Sendable, Send(n)
  PROVE  /\ tail' \in 0 .. Size - 1 /\ UNCHANGED <<head, buffer>>
         /\ (n = Count) <=> (head' = tail')
         /\ usart' \in Seq(Bytes) /\ Len(usart') <= Depth
<1>1. /\ n \in 0 .. Count /\ n + Len(usart) <= Depth
      /\ Count \in 0 .. Size - 1
  BY SendableBounds
<1>2. tail' \in 0 .. Size - 1 /\ UNCHANGED <<head, buffer>>
  BY <1>1, SerialTxAssumption DEF Send, TypeOK, Wrap
<1>3. (n = Count) <=> (head' = tail')
  BY <1>1, SerialTxAssumption DEF Send, TypeOK, Wrap, Count
<1>4. Queued \in Seq(Bytes) /\ Len(Queued) = Count
  <2>1. \A i \in 1 .. Count : Wrap(tail + i - 1) \in 0 .. Size - 1
    BY <1>1, SerialTxAssumption DEF TypeOK, Wrap
  <2>2. \A i \in 1 .. Count : buffer[Wrap(tail + i - 1)] \in Bytes
    BY <2>1 DEF TypeOK
  <2> QED
    BY <1>1, <2>2 DEF Queued
<1>5. SubSeq(Queued, 1, n) \in Seq(Bytes) /\ Len(SubSeq(Queued, 1, n)) = n
  BY <1>1, <1>4, SubSeqProperties
<1>6. /\ usart' \in Seq(Bytes)
      /\ Len(usart') = Len(usart) + n
  BY <1>5, ConcatProperties DEF Send, TypeOK
<1> QED
  BY <1>1, <1>2, <1>3, <1>6, LenProperties DEF TypeOK

(* The console as configured satisfies the invariant.                      *)
LEMMA InitInv == Init => TxInv
<1> SUFFICES ASSUME Init PROVE TxInv
  OBVIOUS
<1>1. TypeOK
  BY SerialTxAssumption DEF Init, TypeOK, Bytes, Labels
<1>2. OneInside /\ TokenInv /\ InterruptInv /\ CountInv /\ NoStall
  BY SerialTxAssumption
     DEF Init, OneInside, TokenInv, InterruptInv, CountInv, NoStall
<1> QED
  BY <1>1, <1>2 DEF TxInv

(* The interrupt: it posts only for the writer that waits, which then no   *)
(* longer does.                                                            *)
LEMMA InterruptKeeps == TxInv /\ TransmitInterrupt => TxInv'
<1> SUFFICES ASSUME TxInv, TransmitInterrupt PROVE TxInv'
  OBVIOUS
<1> USE DEF TxInv
<1>1. PICK n \in Sendable :
        /\ Send(n) /\ Datasent(xmitwaiting, n, xmitsem)
        /\ txie' = (n # Count)
  BY DEF TransmitInterrupt
<1>2. /\ tail' \in 0 .. Size - 1 /\ UNCHANGED <<head, buffer>>
      /\ (n = Count) <=> (head' = tail')
      /\ usart' \in Seq(Bytes) /\ Len(usart') <= Depth
  BY <1>1, SendMovesTail
<1>3. /\ n \in 0 .. Count /\ n > 0 => head # tail
      /\ Count \in 0 .. Size - 1 /\ (Count = 0 <=> head = tail)
  BY SendableBounds
<1>4. head # tail /\ n > 0
  BY <1>3, SerialTxAssumption DEF InterruptInv, TransmitInterrupt, Sendable
<1>5. CASE \E w \in Writers : pc[w] = "wait"
  <2>1. PICK w \in Writers : pc[w] = "wait"
    BY <1>5
  <2>2. /\ owner = w /\ xmitwaiting /\ xmitsem = -1
        /\ \A v \in Writers : pc[v] = "wait" => v = w
    BY <2>1 DEF NoStall
  <2>3. xmitwaiting' = FALSE /\ xmitsem' = 0
    <3>1. n > 0 /\ xmitwaiting /\ xmitsem' = xmitsem + 1
      BY <1>1, <1>4, <2>2 DEF Datasent
    <3>2. xmitwaiting' = FALSE
      BY <1>1, <3>1, Zenon DEF Datasent
    <3> QED
      BY <2>2, <3>1, <3>2
  <2>4. pc' = [pc EXCEPT ![w] = "woken"]
    <3>1. Posted
      BY <2>2, <2>3 DEF Posted
    <3>2. pc' = [v \in Writers |-> IF v = w THEN "woken" ELSE pc[v]]
      BY <2>1, <2>2, <3>1 DEF TransmitInterrupt
    <3> QED
      BY <3>2, Zenon DEF TypeOK
  <2>5. TypeOK'
    <3>1. xmitwaiting' \in BOOLEAN /\ txie' \in BOOLEAN
      BY <1>1, <2>3, Zenon
    <3> QED
      BY <1>2, <2>3, <2>4, <3>1 DEF TypeOK, TransmitInterrupt, Labels, locals
  <2>6. OneInside' /\ TokenInv' /\ CountInv' /\ NoStall'
    BY <2>1, <2>2, <2>3, <2>4
       DEF OneInside, TokenInv, CountInv, NoStall, TransmitInterrupt, TypeOK,
           locals
  <2>7. InterruptInv'
    BY <1>1, <1>2, <2>1, <2>4, Zenon DEF InterruptInv, Filling, TypeOK
  <2> QED
    BY <2>5, <2>6, <2>7
<1>6. CASE \A w \in Writers : pc[w] # "wait"
  <2>1. pc' = pc
    BY <1>6 DEF TransmitInterrupt, TypeOK
  <2>2. xmitsem \in 0 .. 1 /\ (xmitwaiting => xmitsem = 0)
    BY <1>6 DEF TokenInv
  <2>3. xmitwaiting' = FALSE /\ xmitsem' \in 0 .. 1
    <3>1. xmitsem' \in 0 .. 1
      BY <1>1, <1>4, <2>2 DEF Datasent
    <3>2. xmitwaiting' = FALSE
      BY <1>1, <1>4, Zenon DEF Datasent, TypeOK
    <3> QED
      BY <3>1, <3>2
  <2>4. TypeOK'
    <3>1. xmitwaiting' \in BOOLEAN /\ txie' \in BOOLEAN
      BY <1>1, <2>3, Zenon
    <3> QED
      BY <1>2, <2>1, <2>3, <3>1 DEF TypeOK, TransmitInterrupt, locals
  <2>5. OneInside' /\ TokenInv' /\ CountInv' /\ NoStall'
    BY <1>6, <2>1, <2>3
       DEF OneInside, TokenInv, CountInv, NoStall, TransmitInterrupt, locals
  <2>6. InterruptInv'
    BY <1>1, <1>2, <2>1, Zenon DEF InterruptInv
  <2> QED
    BY <2>4, <2>5, <2>6
<1> QED
  BY <1>5, <1>6

(* While a writer is inside uart_write and does not wait, nobody waits and *)
(* the semaphore has its balance.                                          *)
LEMMA Alone ==
  ASSUME TxInv, NEW w \in Writers,
         pc[w] \notin {"idle", "lock", "wait"}
  PROVE  /\ owner = w
         /\ \A v \in Writers : pc[v] # "wait"
         /\ \A v \in Writers : v # w => pc[v] \in {"idle", "lock"}
         /\ xmitsem \in 0 .. 1 /\ (xmitwaiting => xmitsem = 0)
<1>1. owner = w
  BY DEF TxInv, OneInside
<1>2. \A v \in Writers : v # w => pc[v] \in {"idle", "lock"}
  BY <1>1 DEF TxInv, OneInside
<1>3. \A v \in Writers : pc[v] # "wait"
  BY <1>2, Zenon
<1> QED
  BY <1>1, <1>2, <1>3 DEF TxInv, TokenInv

(* Steps of a writer that leave the ring, the semaphores and the USART     *)
(* alone and move it between two places where it does not wait.            *)
LEMMA LocalSteps ==
  ASSUME TxInv, NEW w \in Writers,
         Begin(w) \/ NextByte(w) \/ ByteDone(w) \/ Wake(w) \/ Abort(w)
  PROVE  TxInv'
<1> USE DEF TxInv
<1>0. pc[w] \in {"begin", "loop", "put", "woken", "aborted"}
  BY DEF Begin, NextByte, ByteDone, Wake, Abort
<1>1. /\ owner = w
      /\ \A v \in Writers : pc[v] # "wait"
      /\ \A v \in Writers : v # w => pc[v] \in {"idle", "lock"}
      /\ xmitsem \in 0 .. 1 /\ (xmitwaiting => xmitsem = 0)
  BY <1>0, Alone
<1>2. PICK l \in Filling \ {"woken", "aborted"} : pc' = [pc EXCEPT ![w] = l]
  BY DEF Begin, NextByte, ByteDone, Wake, Abort, Goto, Filling
<1>3. UNCHANGED <<ring, owner, signal, usart, line>>
  BY DEF Begin, NextByte, ByteDone, Wake, Abort
<1>4. txie' = FALSE \/ txie' = txie
  BY DEF Begin, NextByte, ByteDone, Wake, Abort
<1>5. buflen' \in 0 .. MaxWrite /\ rest' \in Seq(Bytes) /\ Len(rest') <= 2
  <2>1. CASE Begin(w)
    BY <2>1, EmptySeq DEF Begin, TypeOK
  <2>2. CASE NextByte(w)
    <3>1. \A c \in Letters \union {LF} :
            ConsoleBytes(c) \in Seq(Bytes) /\ Len(ConsoleBytes(c)) <= 2
      <4> TAKE c \in Letters \union {LF}
      <4>1. c \in Bytes /\ CR \in Bytes /\ LF \in Bytes
        BY DEF Bytes
      <4>2. <<c>> \in Seq(Bytes) /\ Len(<<c>>) = 1
        BY <4>1
      <4>3. <<CR, LF>> \in Seq(Bytes) /\ Len(<<CR, LF>>) = 2
        BY <4>1
      <4> QED
        BY <4>2, <4>3 DEF ConsoleBytes
    <3> QED
      BY <2>2, <3>1 DEF NextByte, TypeOK
  <2>3. CASE ByteDone(w)
    <3>1. buflen > 0
      BY <2>3 DEF ByteDone, CountInv
    <3> QED
      BY <2>3, <3>1, SerialTxAssumption DEF ByteDone, TypeOK
  <2>4. CASE Wake(w) \/ Abort(w)
    BY <2>4 DEF Wake, Abort, TypeOK, locals
  <2> QED
    BY <2>1, <2>2, <2>3, <2>4
<1>6. TypeOK'
  <2>1. txie' \in BOOLEAN
    BY <1>4, Zenon DEF TypeOK
  <2>2. pc' \in [Writers -> Labels]
    BY <1>2 DEF TypeOK, Labels, Filling
  <2> QED
    BY <1>3, <1>5, <2>1, <2>2 DEF TypeOK, ring, signal
<1>7. OneInside' /\ TokenInv' /\ NoStall'
  BY <1>1, <1>2, <1>3
     DEF OneInside, TokenInv, NoStall, TypeOK, signal, Filling
<1>9. CountInv'
  <2>1. CASE pc'[w] # "put"
    BY <1>1, <1>2, <2>1 DEF CountInv, TypeOK, Filling
  <2>2. CASE NextByte(w) /\ buflen # 0
    BY <1>1, <2>2 DEF NextByte, CountInv, TypeOK, Goto
  <2>3. CASE Wake(w)
    BY <1>1, <2>3 DEF Wake, CountInv, TypeOK, Goto, locals
  <2> QED
    BY <2>1, <2>2, <2>3
       DEF Begin, NextByte, ByteDone, Abort, Goto, TypeOK
<1>8. InterruptInv'
  <2>1. pc'[w] \in Filling
    BY <1>2 DEF TypeOK
  <2>2. txie' => txie
    BY <1>4, Zenon DEF TypeOK
  <2> QED
    BY <1>3, <2>1, <2>2 DEF InterruptInv, ring
<1> QED
  BY <1>6, <1>7, <1>8, <1>9

(* A byte goes into the ring: the place behind the head is free, so the    *)
(* ring does not look empty afterwards.                                    *)
LEMMA PutKeeps ==
  ASSUME TxInv, NEW w \in Writers, PutChar(w)
  PROVE  TxInv'
<1> USE DEF TxInv
<1>1. head' \in 0 .. Size - 1 /\ head' # tail
  BY SerialTxAssumption DEF PutChar, NextHead, Wrap, TypeOK
<1>2. UNCHANGED <<tail, owner, signal, txie, usart, line, buflen, pc>>
  BY DEF PutChar
<1>3. rest # <<>> /\ rest \in Seq(Bytes) /\ Len(rest) <= 2
  BY DEF PutChar, TypeOK
<1>4. /\ Head(rest) \in Bytes /\ Tail(rest) \in Seq(Bytes)
      /\ Len(Tail(rest)) <= 2
  BY <1>3, HeadTailProperties
<1>5. TypeOK'
  <2>1. buffer' \in [0 .. Size - 1 -> Bytes]
    BY <1>4 DEF PutChar, TypeOK
  <2>2. rest' \in Seq(Bytes) /\ Len(rest') <= 2
    BY <1>4 DEF PutChar
  <2> QED
    BY <1>1, <1>2, <2>1, <2>2 DEF TypeOK, signal
<1>6. pc[w] \in Filling
  BY DEF PutChar, Filling
<1>7. InterruptInv'
  BY <1>1, <1>2, <1>6 DEF InterruptInv
<1>8. OneInside' /\ TokenInv' /\ CountInv' /\ NoStall'
  <2>1. \A v \in Writers : pc[v] # "wait"
    BY Alone DEF PutChar
  <2> QED
    BY <1>2, <2>1 DEF OneInside, TokenInv, CountInv, NoStall, signal
<1> QED
  BY <1>5, <1>7, <1>8

(* The ring is full: the writer waits only if the call of uart_xmitchars   *)
(* inside uart_enabletxint sent nothing, and then the interrupt stays      *)
(* enabled over the full ring.                                             *)
LEMMA FullKeeps ==
  ASSUME TxInv, NEW w \in Writers, RingFull(w)
  PROVE  TxInv'
<1> USE DEF TxInv
<1>1. PICK n \in Sendable :
        /\ Send(n)
        /\ LET sem == IF n > 0 THEN xmitsem + 1 ELSE xmitsem
           IN  /\ Datasent(TRUE, n, xmitsem - 1)
               /\ IF sem > 0
                  THEN txie' = FALSE /\ UNCHANGED pc
                  ELSE txie' = (n # Count) /\ Goto(w, "wait")
  BY Zenon DEF RingFull
<1>2. /\ tail' \in 0 .. Size - 1 /\ UNCHANGED <<head, buffer>>
      /\ (n = Count) <=> (head' = tail')
      /\ usart' \in Seq(Bytes) /\ Len(usart') <= Depth
  BY <1>1, SendMovesTail
<1>3. /\ n \in 0 .. Count /\ Count \in 0 .. Size - 1
      /\ (Count = 0 <=> head = tail)
  BY SendableBounds
<1>4. /\ owner = w /\ pc[w] = "put"
      /\ \A v \in Writers : pc[v] # "wait"
      /\ \A v \in Writers : v # w => pc[v] \in {"idle", "lock"}
      /\ xmitsem \in 0 .. 1
  BY Alone DEF RingFull
<1>5. head # tail
  BY SerialTxAssumption DEF RingFull, NextHead, Wrap, TypeOK
<1>6. UNCHANGED <<owner, line, buflen, rest>>
  BY DEF RingFull, locals
<1>7. CASE xmitsem > 0 \/ n > 0
  <2>1. txie' = FALSE /\ pc' = pc
    BY <1>1, <1>3, <1>4, <1>7
  <2>2. /\ n > 0 => xmitwaiting' = FALSE /\ xmitsem' = xmitsem
        /\ ~(n > 0) => xmitwaiting' = TRUE /\ xmitsem' = xmitsem - 1
    <3>1. /\ n > 0 => xmitsem' = (xmitsem - 1) + 1
          /\ ~(n > 0) => xmitsem' = xmitsem - 1
      BY <1>1 DEF Datasent
    <3>2. /\ n > 0 => xmitwaiting' = FALSE
          /\ ~(n > 0) => xmitwaiting' = TRUE
      BY <1>1, Zenon DEF Datasent
    <3> QED
      BY <1>4, <3>1, <3>2
  <2>3. xmitsem' \in 0 .. 1 /\ (xmitwaiting' => xmitsem' = 0)
    BY <1>3, <1>4, <1>7, <2>2
  <2>4. TypeOK'
    <3>1. xmitwaiting' \in BOOLEAN /\ txie' \in BOOLEAN
      BY <2>1, <2>2, Zenon
    <3> QED
      BY <1>2, <1>6, <2>1, <2>3, <3>1 DEF TypeOK
  <2>5. OneInside' /\ TokenInv' /\ CountInv' /\ NoStall'
    BY <1>4, <1>6, <2>1, <2>3 DEF OneInside, TokenInv, CountInv, NoStall
  <2>6. InterruptInv'
    BY <1>4, <2>1 DEF InterruptInv, Filling
  <2> QED
    BY <2>4, <2>5, <2>6
<1>8. CASE ~(xmitsem > 0 \/ n > 0)
  <2>1. xmitsem = 0 /\ n = 0
    BY <1>3, <1>4, <1>8
  <2>2. txie' = (n # Count) /\ pc' = [pc EXCEPT ![w] = "wait"]
    BY <1>1, <2>1 DEF Goto
  <2>3. txie' = TRUE /\ head' # tail'
    <3>1. n # Count
      BY <1>3, <1>5, <2>1
    <3>2. txie' = TRUE
      BY <2>2, <3>1, Zenon
    <3> QED
      BY <1>2, <3>1, <3>2
  <2>4. xmitwaiting' = TRUE /\ xmitsem' = -1
    <3>1. xmitsem' = -1
      BY <1>1, <2>1 DEF Datasent
    <3>2. ~(n > 0)
      BY <2>1
    <3>3. xmitwaiting' = TRUE
      BY <1>1, <3>2, Zenon DEF Datasent
    <3> QED
      BY <3>1, <3>3
  <2>5. TypeOK'
    <3>1. xmitwaiting' \in BOOLEAN /\ txie' \in BOOLEAN
      BY <2>3, <2>4, Zenon
    <3> QED
      BY <1>2, <1>6, <2>2, <2>4, <3>1 DEF TypeOK, Labels
  <2>6. OneInside' /\ CountInv'
    BY <1>4, <1>6, <2>2 DEF OneInside, CountInv, TypeOK
  <2>7. TokenInv' /\ NoStall'
    BY <1>4, <1>6, <2>2, <2>3, <2>4 DEF TokenInv, NoStall, TypeOK
  <2>8. InterruptInv'
    BY <2>3 DEF InterruptInv
  <2> QED
    BY <2>5, <2>6, <2>7, <2>8
<1> QED
  BY <1>7, <1>8

(* The end of uart_write starts the interrupt again if the ring has bytes. *)
LEMMA FinishKeeps ==
  ASSUME TxInv, NEW w \in Writers, Finish(w)
  PROVE  TxInv'
<1> USE DEF TxInv
<1>1. /\ owner = w /\ pc[w] = "finish"
      /\ \A v \in Writers : pc[v] # "wait"
      /\ \A v \in Writers : v # w => pc[v] \in {"idle", "lock"}
      /\ xmitsem \in 0 .. 1 /\ (xmitwaiting => xmitsem = 0)
  BY Alone DEF Finish
<1>2. pc' = [pc EXCEPT ![w] = "unlock"] /\ UNCHANGED <<owner, line, buflen, rest>>
  BY DEF Finish, Goto, locals
<1>3. /\ head' = head /\ buffer' = buffer /\ tail' \in 0 .. Size - 1
      /\ usart' \in Seq(Bytes) /\ Len(usart') <= Depth
      /\ xmitsem' \in 0 .. 1 /\ (xmitwaiting' => xmitsem' = 0)
      /\ xmitwaiting' \in BOOLEAN /\ txie' \in BOOLEAN
      /\ txie' <=> head' # tail'
  <2>1. CASE head = tail
    <3>1. UNCHANGED <<ring, signal, txie, usart>>
      BY <2>1 DEF Finish
    <3>2. txie = FALSE
      BY <2>1 DEF InterruptInv, TypeOK
    <3> QED
      BY <1>1, <2>1, <3>1, <3>2 DEF TypeOK, ring, signal
  <2>2. CASE head # tail
    <3>1. PICK n \in Sendable :
            /\ Send(n) /\ Datasent(xmitwaiting, n, xmitsem)
            /\ txie' = (n # Count)
      BY <2>2 DEF Finish
    <3>2. /\ tail' \in 0 .. Size - 1 /\ UNCHANGED <<head, buffer>>
          /\ (n = Count) <=> (head' = tail')
          /\ usart' \in Seq(Bytes) /\ Len(usart') <= Depth
      BY <3>1, SendMovesTail
    <3>3. xmitwaiting' \in BOOLEAN /\ txie' \in BOOLEAN
      BY <3>1, Zenon DEF Datasent, TypeOK
    <3>6. txie' <=> head' # tail'
      BY <3>1, <3>2, Zenon
    <3>4. CASE n > 0 /\ xmitwaiting
      <4>1. xmitsem' = 1
        BY <1>1, <3>1, <3>4 DEF Datasent
      <4>2. xmitwaiting' = FALSE
        BY <3>1, <3>4, Zenon DEF Datasent
      <4> QED
        BY <3>2, <3>3, <3>6, <4>1, <4>2
    <3>5. CASE ~(n > 0 /\ xmitwaiting)
      <4>1. xmitsem' = xmitsem
        BY <3>1, <3>5 DEF Datasent
      <4>2. xmitwaiting' = xmitwaiting
        BY <3>1, <3>5, Zenon DEF Datasent
      <4> QED
        BY <1>1, <3>2, <3>3, <3>6, <4>1, <4>2
    <3> QED
      BY <3>4, <3>5
  <2> QED
    BY <2>1, <2>2
<1>4. TypeOK'
  BY <1>2, <1>3 DEF TypeOK, Labels
<1>5. OneInside' /\ TokenInv' /\ CountInv' /\ NoStall'
  BY <1>1, <1>2, <1>3 DEF OneInside, TokenInv, CountInv, NoStall, TypeOK
<1>6. InterruptInv'
  BY <1>3 DEF InterruptInv
<1> QED
  BY <1>4, <1>5, <1>6

(* Taking and giving xmit.sem: the owner changes together with the one     *)
(* writer that is inside.                                                  *)
LEMMA LockKeeps ==
  ASSUME TxInv, NEW w \in Writers, TakeXmit(w) \/ GiveXmit(w)
  PROVE  TxInv'
<1> USE DEF TxInv
<1>1. UNCHANGED <<head, tail, buffer, xmitwaiting, xmitsem, txie, usart, line,
                  buflen, rest>>
  BY DEF TakeXmit, GiveXmit, ring, signal, locals
<1>2. /\ pc' \in [Writers -> Labels] /\ owner' \in Writers \union {"none"}
      /\ \A v \in Writers : pc'[v] = pc[v]
                            \/ (pc[v] \in {"idle", "lock", "unlock"}
                                /\ pc'[v] \in {"idle", "lock", "begin"})
  BY DEF TakeXmit, GiveXmit, Goto, TypeOK, Labels
<1>3. TypeOK'
  BY <1>1, <1>2 DEF TypeOK
<1>4. OneInside'
  <2>1. CASE TakeXmit(w)
    BY <2>1, SerialTxAssumption DEF TakeXmit, Goto, OneInside, TypeOK
  <2>2. CASE GiveXmit(w)
    <3>1. owner = w /\ \A v \in Writers : v # w => pc[v] \in {"idle", "lock"}
      BY <2>2, Alone DEF GiveXmit
    <3> QED
      BY <2>2, <3>1, SerialTxAssumption DEF GiveXmit, Goto, OneInside, TypeOK
  <2> QED
    BY <2>1, <2>2
<1>5. TokenInv' /\ CountInv'
  BY <1>1, <1>2 DEF TokenInv, CountInv
<1>6. NoStall'
  <2> SUFFICES ASSUME NEW v \in Writers, pc'[v] = "wait"
               PROVE  (owner = v /\ xmitwaiting /\ xmitsem = -1 /\ txie
                         /\ head # tail)'
    BY DEF NoStall
  <2>1. pc[v] = "wait"
    BY <1>2
  <2>2. owner' = v
    BY <1>4 DEF OneInside
  <2> QED
    BY <1>1, <2>1, <2>2 DEF NoStall
<1>7. InterruptInv'
  <2>1. \A v \in Writers : pc[v] \in Filling => pc'[v] \in Filling
    BY <1>2 DEF Filling
  <2> QED
    BY <1>1, <2>1 DEF InterruptInv
<1> QED
  BY <1>3, <1>4, <1>5, <1>6, <1>7

(* A signal: the announced wait stays announced, without its waiter.       *)
LEMMA SignalKeeps ==
  ASSUME TxInv, NEW w \in Writers, Signal(w)
  PROVE  TxInv'
<1> USE DEF TxInv
<1>1. UNCHANGED <<head, tail, buffer, owner, xmitwaiting, txie, usart, line,
                  buflen, rest>>
  BY DEF Signal, ring, locals
<1>2. CASE pc[w] = "wait" /\ xmitsem' = xmitsem + 1 /\ Goto(w, "aborted")
  <2>1. xmitsem' = 0 /\ owner = w /\ txie
    BY <1>2 DEF NoStall
  <2>2. pc' = [pc EXCEPT ![w] = "aborted"]
    BY <1>2 DEF Goto
  <2>3. \A v \in Writers : pc'[v] # "wait"
    BY <2>1, <2>2 DEF NoStall, TypeOK
  <2>4. TypeOK'
    BY <1>1, <2>1, <2>2 DEF TypeOK, Labels
  <2>5. OneInside' /\ CountInv'
    BY <1>1, <1>2, <2>2 DEF OneInside, CountInv, TypeOK
  <2>6. TokenInv' /\ NoStall' /\ InterruptInv'
    BY <1>1, <2>1, <2>3 DEF TokenInv, NoStall, InterruptInv
  <2> QED
    BY <2>4, <2>5, <2>6
<1>3. CASE pc[w] = "lock" /\ Goto(w, "idle") /\ UNCHANGED xmitsem
  <2>1. pc' = [pc EXCEPT ![w] = "idle"]
    BY <1>3 DEF Goto
  <2>2. \A v \in Writers : pc'[v] = pc[v] \/ (pc[v] = "lock" /\ pc'[v] = "idle")
    BY <1>3, <2>1 DEF TypeOK
  <2>3. TypeOK'
    BY <1>1, <1>3, <2>1 DEF TypeOK, Labels
  <2>4. OneInside' /\ CountInv' /\ TokenInv' /\ NoStall'
    BY <1>1, <1>3, <2>2 DEF OneInside, CountInv, TokenInv, NoStall
  <2>5. InterruptInv'
    BY <1>1, <2>2 DEF InterruptInv, Filling
  <2> QED
    BY <2>3, <2>4, <2>5
<1> QED
  BY <1>2, <1>3 DEF Signal

(* The USART sends on its own; nothing else depends on how far it is.      *)
LEMMA ShiftKeeps == TxInv /\ Shift => TxInv'
<1> SUFFICES ASSUME TxInv, Shift PROVE TxInv'
  OBVIOUS
<1> USE DEF TxInv
<1>1. /\ Head(usart) \in Bytes /\ Tail(usart) \in Seq(Bytes)
      /\ Len(Tail(usart)) <= Depth
  BY HeadTailProperties, SerialTxAssumption DEF Shift, TypeOK
<1>2. UNCHANGED <<head, tail, buffer, owner, xmitwaiting, xmitsem, txie, pc,
                  buflen, rest>>
  BY DEF Shift, ring, signal, locals
<1>3. TypeOK'
  BY <1>1, <1>2 DEF TypeOK, Shift
<1>4. OneInside' /\ TokenInv' /\ InterruptInv' /\ CountInv' /\ NoStall'
  BY <1>2 DEF OneInside, TokenInv, InterruptInv, CountInv, NoStall
<1> QED
  BY <1>3, <1>4

(* Doing nothing preserves it.                                             *)
LEMMA StutterKeeps == TxInv /\ UNCHANGED vars => TxInv'
  BY DEF TxInv, TypeOK, OneInside, TokenInv, InterruptInv, CountInv, NoStall,
         vars, ring, signal, locals

-----------------------------------------------------------------------------
(* The invariant holds for every size of the ring, depth of the USART and  *)
(* set of writers.                                                         *)
THEOREM Invariance == Spec => []TxInv
<1>1. TxInv /\ [Next]_vars => TxInv'
  <2> SUFFICES ASSUME TxInv, [Next]_vars PROVE TxInv'
    OBVIOUS
  <2>1. CASE TransmitInterrupt
    BY <2>1, InterruptKeeps
  <2>2. CASE Shift
    BY <2>2, ShiftKeeps
  <2>3. ASSUME NEW w \in Writers, TakeXmit(w) \/ Proceed(w) \/ Signal(w)
        PROVE  TxInv'
    BY <2>3, LocalSteps, PutKeeps, FullKeeps, FinishKeeps, LockKeeps,
       SignalKeeps DEF Proceed
  <2>4. CASE UNCHANGED vars
    BY <2>4, StutterKeeps
  <2> QED
    BY <2>1, <2>2, <2>3, <2>4 DEF Next
<1> QED
  BY InitInv, <1>1, PTL DEF Spec

(* Type correctness; in particular at most one token is ever left in       *)
(* xmitsem and the indices stay inside the ring.                           *)
THEOREM TypeCorrect == Spec => []TypeOK
  BY Invariance, PTL DEF TxInv

(* The answer to "Can that happen?" in uart_xmitchars is no: a writer that *)
(* waits for the ring always has the interrupt enabled over bytes to send. *)
THEOREM NoStallSafe == Spec => []NoStall
  BY Invariance, PTL DEF TxInv

(* Bytes left behind by uart_write are always on their way out.            *)
THEOREM NothingStrandedSafe == Spec => []NothingStranded
<1>1. TxInv => NothingStranded
  <2> SUFFICES ASSUME TxInv, owner = "none" PROVE txie <=> head # tail
    BY DEF NothingStranded
  <2>1. \A w \in Writers : pc[w] \notin Filling
    BY SerialTxAssumption, Zenon DEF TxInv, OneInside, Filling
  <2> QED
    BY <2>1 DEF TxInv, InterruptInv
<1> QED
  BY <1>1, Invariance, PTL

-----------------------------------------------------------------------------
(* The ring as a sequence: its bytes from the tail to the head.            *)
QueueOK ==
  /\ Count \in 0 .. Size - 1 /\ (Count = 0 <=> head = tail)
  /\ Queued \in Seq(Bytes) /\ Len(Queued) = Count
  /\ \A i \in 1 .. Count : Queued[i] = buffer[Wrap(tail + i - 1)]

(* The ring read as a sequence holds bytes.                                *)
LEMMA QueuedBytes == TypeOK => QueueOK
<1> SUFFICES ASSUME TypeOK PROVE QueueOK
  OBVIOUS
<1>1. Count \in 0 .. Size - 1 /\ (Count = 0 <=> head = tail)
  BY SerialTxAssumption DEF TypeOK, Count
<1>2. \A i \in 1 .. Count : Wrap(tail + i - 1) \in 0 .. Size - 1
  BY <1>1, SerialTxAssumption DEF TypeOK, Wrap
<1>3. \A i \in 1 .. Count : buffer[Wrap(tail + i - 1)] \in Bytes
  BY <1>2 DEF TypeOK
<1> QED
  BY <1>1, <1>3 DEF Queued, QueueOK

(* And so it does after a step.                                            *)
LEMMA QueuedBytesNext == TypeOK' => QueueOK'
  BY QueuedBytes, PTL

(* uart_xmitchars only carries bytes from the ring to the USART: the bytes *)
(* under way stay the same, in the same order.                             *)
LEMMA SendKeepsQueue ==
  ASSUME TypeOK, TypeOK', NEW n \in Sendable, Send(n)
  PROVE  (usart \o Queued)' = usart \o Queued
<1> DEFINE sub == SubSeq(Queued, 1, n)
           m == Len(usart)
<1>1. n \in 0 .. Count
  BY SendableBounds
<1>2. /\ Count \in 0 .. Size - 1
      /\ Queued \in Seq(Bytes) /\ Len(Queued) = Count
      /\ \A i \in 1 .. Count : Queued[i] = buffer[Wrap(tail + i - 1)]
  BY QueuedBytes DEF QueueOK
<1>3. /\ Queued' \in Seq(Bytes) /\ Len(Queued') = Count'
      /\ \A i \in 1 .. Count' : Queued'[i] = buffer'[Wrap(tail' + i - 1)]
  BY QueuedBytesNext DEF QueueOK, Wrap
<1>4. Count' = Count - n
  BY <1>1, SerialTxAssumption DEF Count, Send, Wrap, TypeOK
<1>5. \A i \in 1 .. Count' : Queued'[i] = Queued[n + i]
  <2> TAKE i \in 1 .. Count'
  <2>1. n + i \in 1 .. Count
    BY <1>1, <1>2, <1>4
  <2>2. Wrap(tail' + i - 1) = Wrap(tail + (n + i) - 1)
    BY <1>1, <1>2, <2>1, SerialTxAssumption DEF Send, Wrap, TypeOK, Count
  <2>3. buffer' = buffer
    BY DEF Send
  <2> QED
    BY <1>2, <1>3, <2>1, <2>2, <2>3
<1>6. sub \in Seq(Bytes) /\ Len(sub) = n /\ \A i \in 1 .. n : sub[i] = Queued[i]
  <2>1. \A i \in 1 .. n : Queued[i] \in Bytes
    BY <1>1, <1>2, ElementOfSeq
  <2> QED
    BY <1>1, <2>1, SubSeqProperties
<1>7. m \in Nat /\ usart \in Seq(Bytes)
  BY LenProperties DEF TypeOK
<1>8. /\ usart' \in Seq(Bytes) /\ Len(usart') = m + n
      /\ \A i \in 1 .. m + n :
           usart'[i] = IF i <= m THEN usart[i] ELSE Queued[i - m]
  <2> HIDE DEF sub
  <2>1. usart' = usart \o sub
    BY DEF Send, sub
  <2>2. /\ usart \o sub \in Seq(Bytes) /\ Len(usart \o sub) = m + n
        /\ \A i \in 1 .. m + n : (usart \o sub)[i] =
                 IF i <= m THEN usart[i] ELSE sub[i - m]
    BY <1>6, <1>7, ConcatProperties, Zenon
  <2> QED
    BY <1>1, <1>6, <1>7, <2>1, <2>2
<1>9. /\ usart \o Queued \in Seq(Bytes) /\ Len(usart \o Queued) = m + Count
      /\ \A i \in 1 .. m + Count : (usart \o Queued)[i] =
             IF i <= m THEN usart[i] ELSE Queued[i - m]
  BY <1>2, <1>7, ConcatProperties, Zenon
<1>10. /\ usart' \o Queued' \in Seq(Bytes)
       /\ Len(usart' \o Queued') = m + n + Count'
       /\ \A i \in 1 .. m + n + Count' : (usart' \o Queued')[i] =
             IF i <= m + n THEN usart'[i] ELSE Queued'[i - (m + n)]
  <2>1. usart' \in Seq(Bytes) /\ Queued' \in Seq(Bytes)
    BY <1>3, <1>8
  <2>2. /\ usart' \o Queued' \in Seq(Bytes)
        /\ Len(usart' \o Queued') = Len(usart') + Len(Queued')
        /\ \A i \in 1 .. Len(usart') + Len(Queued') : (usart' \o Queued')[i] =
              IF i <= Len(usart') THEN usart'[i] ELSE Queued'[i - Len(usart')]
    BY <2>1, ConcatProperties
  <2>3. Len(usart') = m + n /\ Len(Queued') = Count'
    BY <1>3, <1>8
  <2> HIDE DEF m
  <2> QED
    BY <2>2, <2>3
<1>11. Len(usart' \o Queued') = m + Count
  BY <1>1, <1>2, <1>4, <1>7, <1>10
<1>12. ASSUME NEW i \in 1 .. m + Count
       PROVE  (usart' \o Queued')[i] = (usart \o Queued)[i]
  <2> HIDE DEF m
  <2>1. CASE i <= m + n
    <3>1. i \in 1 .. m + n /\ i \in 1 .. m + n + Count'
      BY <1>1, <1>2, <1>4, <1>7, <2>1
    <3>2. (usart' \o Queued')[i] = usart'[i]
      BY <1>10, <2>1, <3>1
    <3> QED
      BY <1>8, <1>9, <3>1, <3>2
  <2>2. CASE ~(i <= m + n)
    <3>1. i - (m + n) \in 1 .. Count'
      BY <1>1, <1>2, <1>4, <1>7, <2>2
    <3>2. Queued'[i - (m + n)] = Queued[n + (i - (m + n))]
      BY <1>5, <3>1
    <3>3. n + (i - (m + n)) = i - m /\ ~(i <= m) /\ m + n + Count' = m + Count
      BY <1>1, <1>2, <1>4, <1>7, <2>2
    <3> QED
      BY <1>9, <1>10, <2>2, <3>2, <3>3
  <2> QED
    BY <2>1, <2>2, Zenon
<1> QED
  BY <1>9, <1>10, <1>11, <1>12, SeqEqual, Zenon

(* uart_putxmitchar adds one byte behind the ones under way, and there was *)
(* room for it.                                                            *)
LEMMA PutAppends ==
  ASSUME TypeOK, TypeOK', NEW w \in Writers, PutChar(w)
  PROVE  /\ Head(rest) \in Bytes
         /\ Len(usart \o Queued) < Size - 1 + Depth
         /\ (usart \o Queued)' = Append(usart \o Queued, Head(rest))
<1> DEFINE c == Head(rest)
<1>1. c \in Bytes
  BY HeadTailProperties DEF PutChar, TypeOK
<1> HIDE DEF c
<1>2. /\ Count \in 0 .. Size - 1
      /\ Queued \in Seq(Bytes) /\ Len(Queued) = Count
      /\ \A i \in 1 .. Count : Queued[i] = buffer[Wrap(tail + i - 1)]
  BY QueuedBytes DEF QueueOK
<1>3. /\ Queued' \in Seq(Bytes) /\ Len(Queued') = Count'
      /\ \A i \in 1 .. Count' : Queued'[i] = buffer'[Wrap(tail' + i - 1)]
  BY QueuedBytesNext DEF QueueOK, Wrap
<1>4. Count' = Count + 1 /\ Count < Size - 1
  BY SerialTxAssumption DEF PutChar, Count, NextHead, Wrap, TypeOK
<1>5. \A i \in 1 .. Count' :
        Queued'[i] = IF i <= Count THEN Queued[i] ELSE c
  <2> TAKE i \in 1 .. Count'
  <2>1. tail' = tail /\ buffer' = [buffer EXCEPT ![head] = c]
    BY DEF PutChar, c
  <2>2. CASE i <= Count
    <3>1. Wrap(tail + i - 1) # head /\ Wrap(tail + i - 1) \in 0 .. Size - 1
      <4>1. /\ head \in 0 .. Size - 1 /\ tail \in 0 .. Size - 1 /\ Size \in Nat
            /\ i \in Nat /\ i >= 1 /\ i <= Count
        BY <1>2, <1>4, <2>2, SerialTxAssumption DEF TypeOK
      <4>2. CASE head >= tail
        BY ONLY <4>1, <4>2 DEF Wrap, Count
      <4>3. CASE ~(head >= tail)
        BY ONLY <4>1, <4>3 DEF Wrap, Count
      <4> QED
        BY <4>2, <4>3
    <3>2. buffer'[Wrap(tail + i - 1)] = buffer[Wrap(tail + i - 1)]
      BY <2>1, <3>1 DEF TypeOK
    <3> QED
      BY <1>2, <1>3, <2>1, <2>2, <3>2
  <2>3. CASE ~(i <= Count)
    <3>0. i = Count + 1
      BY <1>2, <1>4, <2>3
    <3>1. Wrap(tail + i - 1) = head
      BY <3>0, SerialTxAssumption DEF Wrap, TypeOK, Count
    <3>2. buffer'[head] = c
      BY <2>1 DEF TypeOK
    <3> QED
      BY <1>3, <2>1, <2>3, <3>1, <3>2
  <2> QED
    BY <2>2, <2>3
<1>6. Queued' = Append(Queued, c)
  <2>1. /\ Append(Queued, c) \in Seq(Bytes)
        /\ Len(Append(Queued, c)) = Count + 1
        /\ \A i \in 1 .. Count : Append(Queued, c)[i] = Queued[i]
        /\ Append(Queued, c)[Count + 1] = c
    BY <1>1, <1>2, AppendProperties
  <2>2. \A i \in 1 .. Count + 1 : Queued'[i] = Append(Queued, c)[i]
    BY <1>2, <1>4, <1>5, <2>1
  <2> QED
    BY <1>3, <1>4, <2>1, <2>2, SeqEqual
<1>7. usart' = usart /\ usart \in Seq(Bytes) /\ Len(usart) <= Depth
  BY DEF PutChar, TypeOK
<1>8. usart \o Append(Queued, c) = Append(usart \o Queued, c)
  <2>1. Append(Queued, c) = Queued \o <<c>>
    BY <1>1, <1>2, AppendIsConcat
  <2>2. usart \o Queued \in Seq(Bytes)
    BY <1>2, <1>7, ConcatProperties
  <2>3. Append(usart \o Queued, c) = (usart \o Queued) \o <<c>>
    BY <1>1, <2>2, AppendIsConcat
  <2>4. <<c>> \in Seq(Bytes)
    BY <1>1
  <2> QED
    BY <1>2, <1>7, <2>1, <2>3, <2>4, ConcatAssociative
<1>9. Len(usart \o Queued) < Size - 1 + Depth
  <2>1. Len(usart \o Queued) = Len(usart) + Count
    BY <1>2, <1>7, ConcatProperties, Zenon
  <2>2. Len(usart) \in Nat
    BY <1>7, LenProperties
  <2> QED
    BY <1>2, <1>4, <1>7, <2>1, <2>2, SerialTxAssumption
<1> QED
  BY <1>1, <1>6, <1>7, <1>8, <1>9 DEF c

(* The USART takes the oldest byte under way.                              *)
LEMMA ShiftTakes ==
  ASSUME TypeOK, Shift
  PROVE  /\ usart \o Queued # <<>>
         /\ line' = Head(usart \o Queued)
         /\ (usart \o Queued)' = Tail(usart \o Queued)
<1>1. /\ usart \in Seq(Bytes) /\ usart # <<>>
      /\ Queued \in Seq(Bytes) /\ Queued' = Queued
  <2>1. Queued' = Queued
    BY DEF Shift, ring, Queued, Count, Wrap
  <2> QED
    BY <2>1, QueuedBytes DEF QueueOK, Shift, TypeOK
<1>2. /\ Len(usart) \in Nat \ {0}
      /\ Tail(usart) \in Seq(Bytes) /\ Len(Tail(usart)) = Len(usart) - 1
      /\ \A i \in 1 .. Len(usart) - 1 : Tail(usart)[i] = usart[i + 1]
  BY <1>1, EmptySeq, HeadTailProperties
<1> DEFINE q == usart \o Queued
           r == Tail(usart) \o Queued
<1>3. /\ q \in Seq(Bytes) /\ Len(q) = Len(usart) + Len(Queued)
      /\ \A i \in 1 .. Len(usart) + Len(Queued) : q[i] =
            IF i <= Len(usart) THEN usart[i] ELSE Queued[i - Len(usart)]
  BY <1>1, ConcatProperties
<1>4. /\ r \in Seq(Bytes) /\ Len(r) = Len(Tail(usart)) + Len(Queued)
      /\ \A i \in 1 .. Len(Tail(usart)) + Len(Queued) : r[i] =
            IF i <= Len(Tail(usart)) THEN Tail(usart)[i]
            ELSE Queued[i - Len(Tail(usart))]
  BY <1>1, <1>2, ConcatProperties
<1>5. Len(Queued) \in Nat
  BY <1>1, LenProperties
<1> HIDE DEF q, r
<1>6. q # <<>>
  BY <1>2, <1>3, <1>5, EmptySeq
<1>7. /\ Tail(q) \in Seq(Bytes) /\ Len(Tail(q)) = Len(q) - 1
      /\ \A i \in 1 .. Len(Tail(q)) : Tail(q)[i] = q[i + 1]
  BY <1>3, <1>6, HeadTailProperties
<1>8. r = Tail(q)
  <2>1. Len(r) = Len(Tail(q))
    BY <1>2, <1>3, <1>4, <1>5, <1>7
  <2>2. ASSUME NEW i \in 1 .. Len(r) PROVE r[i] = Tail(q)[i]
    <3>1. /\ i \in 1 .. Len(usart) - 1 + Len(Queued)
          /\ i + 1 \in 1 .. Len(usart) + Len(Queued)
          /\ Tail(q)[i] = q[i + 1]
      BY <1>2, <1>4, <1>5, <1>7, <2>1
    <3>2. CASE i <= Len(usart) - 1
      BY <1>2, <1>3, <1>4, <1>5, <3>1, <3>2
    <3>3. CASE ~(i <= Len(usart) - 1)
      <4>1. i - (Len(usart) - 1) = (i + 1) - Len(usart)
        BY <1>2, <3>1
      <4> QED
        BY <1>2, <1>3, <1>4, <1>5, <3>1, <3>3, <4>1
    <3> QED
      BY <3>2, <3>3, Zenon
  <2> QED
    BY <1>4, <1>7, <2>1, <2>2, SeqEqual
<1>9. Head(q) = Head(usart)
  <2>1. Head(q) = q[1] /\ Head(usart) = usart[1]
    BY <1>1, <1>3, <1>6
  <2> QED
    BY <1>2, <1>3, <1>5, <2>1
<1> QED
  BY <1>1, <1>6, <1>8, <1>9 DEF Shift, q, r

(* Every other step leaves the bytes under way as they are.                *)
LEMMA OtherSteps ==
  ASSUME TypeOK, TypeOK', [Next]_vars, ~Shift, \A w \in Writers : ~PutChar(w)
  PROVE  UNCHANGED <<usart \o Queued, line>>
<1>1. ASSUME UNCHANGED <<head, tail, buffer, usart, line>>
      PROVE  UNCHANGED <<usart \o Queued, line>>
  BY <1>1 DEF Queued, Count, Wrap
<1>2. ASSUME NEW n \in Sendable, Send(n), line' = line
      PROVE  UNCHANGED <<usart \o Queued, line>>
  BY <1>2, SendKeepsQueue
<1>3. CASE TransmitInterrupt
  BY <1>2, <1>3 DEF TransmitInterrupt
<1>4. ASSUME NEW w \in Writers, TakeXmit(w) \/ Proceed(w) \/ Signal(w)
      PROVE  UNCHANGED <<usart \o Queued, line>>
  <2>1. CASE RingFull(w)
    BY <1>2, <2>1 DEF RingFull
  <2>2. CASE Finish(w) /\ head # tail
    BY <1>2, <2>2 DEF Finish
  <2>3. CASE Finish(w) /\ head = tail
    BY <1>1, <2>3 DEF Finish, ring
  <2>4. CASE \/ TakeXmit(w) \/ Begin(w) \/ NextByte(w) \/ ByteDone(w)
            \/ Wake(w) \/ Abort(w) \/ GiveXmit(w) \/ Signal(w)
    BY <1>1, <2>4 DEF TakeXmit, Begin, NextByte, ByteDone, Wake, Abort,
       GiveXmit, Signal, ring
  <2> QED
    BY <1>4, <2>1, <2>2, <2>3, <2>4 DEF Proceed
<1>5. CASE UNCHANGED vars
  BY <1>1, <1>5 DEF vars, ring
<1> QED
  BY <1>3, <1>4, <1>5 DEF Next

(* Nothing is under way at first.                                          *)
LEMMA NothingUnderWay == Init => usart \o Queued = <<>>
<1> SUFFICES ASSUME Init PROVE usart \o Queued = <<>>
  OBVIOUS
<1>1. TypeOK /\ Count = 0
  BY InitInv DEF TxInv, Init, Count
<1>2. Queued \in Seq(Bytes) /\ Len(Queued) = 0
  BY <1>1, QueuedBytes DEF QueueOK
<1>3. Queued = <<>>
  BY <1>2, EmptySeq
<1> QED
  BY <1>2, <1>3, ConcatEmptySeq DEF Init

(* Ring and USART implement the FIFO of module Fifo, for every size: no    *)
(* byte printed is lost, repeated or reordered.                            *)
THEOREM FifoImplemented == Spec => IsFifo
<1>1. Init => Out!Init
  BY NothingUnderWay DEF Init, Out!Init
<1>2. TypeOK /\ TypeOK' /\ [Next]_vars =>
        [Out!Next]_<<usart \o Queued, line>>
  <2> SUFFICES ASSUME TypeOK, TypeOK', [Next]_vars
               PROVE  [Out!Next]_<<usart \o Queued, line>>
    OBVIOUS
  <2>1. CASE Shift
    BY <2>1, ShiftTakes, Zenon DEF Out!Next, Out!Get
  <2>2. ASSUME NEW w \in Writers, PutChar(w)
        PROVE  [Out!Next]_<<usart \o Queued, line>>
    <3>1. line' = line
      BY <2>2 DEF PutChar
    <3> QED
      BY <2>2, <3>1, PutAppends DEF Out!Next, Out!Put
  <2> QED
    BY <2>1, <2>2, OtherSteps
<1> QED
  BY <1>1, <1>2, TypeCorrect, PTL DEF Spec, IsFifo, Out!Spec

-----------------------------------------------------------------------------
(* Lines end with CR LF. *)

UnderWay == usart \o Queued

(* Every LF under way directly follows a CR, the first one the CR that     *)
(* left last.                                                              *)
Paired ==
  \A k \in 1 .. Len(UnderWay) : UnderWay[k] = LF =>
     IF k = 1 THEN line = CR ELSE UnderWay[k - 1] = CR

(* The byte put into the ring last.                                        *)
Newest == IF UnderWay = <<>> THEN line ELSE UnderWay[Len(UnderWay)]

(* What the writer has still to put: an LF only after its CR.              *)
RestPaired ==
  /\ (Len(rest) > 0 /\ rest[1] = LF) => Newest = CR
  /\ Len(rest) = 2 => rest[1] = CR

Putting == \E w \in Writers : pc[w] \in {"put", "wait", "woken"}

LineInv == Paired /\ (Putting => RestPaired)

(* A byte put after a CR, or that is no LF, keeps the pairs.               *)
LEMMA AppendPairs ==
  ASSUME NEW q \in Seq(Bytes), NEW c \in Bytes, NEW l,
         \A k \in 1 .. Len(q) : q[k] = LF => IF k = 1 THEN l = CR ELSE q[k - 1] = CR,
         c = LF => (IF q = <<>> THEN l ELSE q[Len(q)]) = CR
  PROVE  /\ Append(q, c) # <<>> /\ Append(q, c)[Len(Append(q, c))] = c
         /\ \A k \in 1 .. Len(Append(q, c)) : Append(q, c)[k] = LF =>
              IF k = 1 THEN l = CR ELSE Append(q, c)[k - 1] = CR
<1> DEFINE r == Append(q, c)
           n == Len(q)
<1>1. /\ n \in Nat /\ Len(r) = n + 1 /\ r # <<>>
      /\ \A k \in 1 .. n : r[k] = q[k]
      /\ r[n + 1] = c
  BY AppendProperties, LenProperties
<1>2. q = <<>> <=> n = 0
  BY EmptySeq
<1> HIDE DEF r, n
<1>3. ASSUME NEW k \in 1 .. n, r[k] = LF
      PROVE  IF k = 1 THEN l = CR ELSE r[k - 1] = CR
  <2>1. k # 1 => k - 1 \in 1 .. n
    BY <1>1
  <2>2. q[k] = LF
    BY <1>1, <1>3
  <2>3. IF k = 1 THEN l = CR ELSE q[k - 1] = CR
    BY <2>2 DEF n
  <2> QED
    BY <1>1, <2>1, <2>3
<1>4. ASSUME r[n + 1] = LF
      PROVE  IF n + 1 = 1 THEN l = CR ELSE r[(n + 1) - 1] = CR
  <2>1. (IF q = <<>> THEN l ELSE q[n]) = CR
    BY <1>1, <1>4 DEF n
  <2>2. CASE n = 0
    BY <1>2, <2>1, <2>2
  <2>3. CASE n # 0
    <3>1. n \in 1 .. n /\ (n + 1) - 1 = n /\ n + 1 # 1
      BY <1>1, <2>3
    <3> QED
      BY <1>1, <1>2, <2>1, <2>3, <3>1
  <2> QED
    BY <2>2, <2>3
<1>5. \A k \in 1 .. n + 1 : k \in 1 .. n \/ k = n + 1
  BY <1>1
<1> QED
  BY <1>1, <1>3, <1>4, <1>5 DEF r

(* The oldest byte leaves and the pairs are kept.                          *)
LEMMA TailPairs ==
  ASSUME NEW q \in Seq(Bytes), q # <<>>, NEW l,
         \A k \in 1 .. Len(q) : q[k] = LF => IF k = 1 THEN l = CR ELSE q[k - 1] = CR
  PROVE  /\ Head(q) = LF => l = CR
         /\ \A k \in 1 .. Len(Tail(q)) : Tail(q)[k] = LF =>
              IF k = 1 THEN Head(q) = CR ELSE Tail(q)[k - 1] = CR
         /\ (IF Tail(q) = <<>> THEN Head(q) ELSE Tail(q)[Len(Tail(q))]) = q[Len(q)]
<1> DEFINE r == Tail(q)
           n == Len(q)
<1>1. /\ n \in Nat /\ n # 0 /\ Len(r) = n - 1 /\ r \in Seq(Bytes) /\ Head(q) = q[1]
      /\ \A k \in 1 .. n - 1 : r[k] = q[k + 1]
  BY HeadTailProperties, LenProperties, EmptySeq
<1>2. r = <<>> <=> n - 1 = 0
  BY <1>1, EmptySeq, Zenon
<1> HIDE DEF r, n
<1>3. Head(q) = LF => l = CR
  BY <1>1 DEF n
<1>4. ASSUME NEW k \in 1 .. n - 1, r[k] = LF
      PROVE  IF k = 1 THEN Head(q) = CR ELSE r[k - 1] = CR
  <2>1. k + 1 \in 1 .. n /\ k + 1 # 1 /\ (k + 1) - 1 = k
    BY <1>1
  <2>2. q[k] = CR
    BY <1>1, <1>4, <2>1 DEF n
  <2>3. k # 1 => k - 1 \in 1 .. n - 1 /\ (k - 1) + 1 = k
    BY <1>1
  <2> QED
    BY <1>1, <2>2, <2>3
<1>5. (IF r = <<>> THEN Head(q) ELSE r[n - 1]) = q[n]
  <2>1. CASE n = 1
    BY <1>1, <1>2, <2>1
  <2>2. CASE n # 1
    <3>1. n - 1 \in 1 .. n - 1 /\ (n - 1) + 1 = n /\ n - 1 # 0
      BY <1>1, <2>2
    <3> QED
      BY <1>1, <1>2, <3>1
  <2> QED
    BY <2>1, <2>2
<1> QED
  BY <1>1, <1>3, <1>4, <1>5 DEF r, n

(* The bytes under way are bytes.                                          *)
LEMMA UnderWayBytes == TypeOK => UnderWay \in Seq(Bytes)
  BY QueuedBytes, ConcatProperties DEF QueueOK, TypeOK, UnderWay

(* Every step keeps CR before LF, in the ring and in what is to be put.    *)
LEMMA LineKept ==
  ASSUME TypeOK, TypeOK', LineInv, [Next]_vars
  PROVE  LineInv' /\ ((Shift /\ Head(usart) = LF) => line = CR)
<1>0. UnderWay \in Seq(Bytes)
  BY UnderWayBytes
<1>1. CASE Shift
  <2>1. UnderWay # <<>> /\ line' = Head(UnderWay) /\ UnderWay' = Tail(UnderWay)
    BY <1>1, ShiftTakes, Zenon DEF UnderWay
  <2>2. rest' = rest /\ pc' = pc /\ line' = Head(usart)
    BY <1>1 DEF Shift, locals
  <2>3. /\ Head(UnderWay) = LF => line = CR
        /\ \A k \in 1 .. Len(Tail(UnderWay)) : Tail(UnderWay)[k] = LF =>
             IF k = 1 THEN Head(UnderWay) = CR ELSE Tail(UnderWay)[k - 1] = CR
        /\ (IF Tail(UnderWay) = <<>> THEN Head(UnderWay)
            ELSE Tail(UnderWay)[Len(Tail(UnderWay))]) = UnderWay[Len(UnderWay)]
    BY <1>0, <2>1, TailPairs DEF LineInv, Paired
  <2>4. Paired' /\ Newest' = Newest
    BY <2>1, <2>3 DEF Paired, Newest, LF, CR
  <2> QED
    BY <2>1, <2>2, <2>3, <2>4 DEF LineInv, Putting, RestPaired, LF, CR
<1>2. ASSUME NEW w \in Writers, PutChar(w)
      PROVE  LineInv' /\ ~Shift
  <2> DEFINE c == Head(rest)
  <2>1. c \in Bytes /\ UnderWay' = Append(UnderWay, c)
    BY <1>2, PutAppends DEF UnderWay
  <2>2. /\ rest # <<>> /\ rest' = Tail(rest) /\ line' = line /\ pc' = pc
        /\ pc[w] = "put" /\ head' # head
    BY <1>2, SerialTxAssumption DEF PutChar, NextHead, Wrap, TypeOK
  <2>3. rest \in Seq(Bytes) /\ Len(rest) \in 1 .. 2 /\ c = rest[1]
    <3>1. rest \in Seq(Bytes) /\ Len(rest) <= 2
      BY DEF TypeOK
    <3>2. Len(rest) \in Nat \ {0}
      BY <2>2, <3>1, EmptySeq
    <3>3. \A n \in Nat \ {0} : n <= 2 => n \in 1 .. 2
      OBVIOUS
    <3>4. Head(rest) = rest[1]
      BY <2>2, <3>1
    <3> QED
      BY <3>1, <3>2, <3>3, <3>4, Zenon
  <2>4. RestPaired
    BY <2>2 DEF LineInv, Putting
  <2>5. c = LF => Newest = CR
    BY <2>3, <2>4 DEF RestPaired
  <2>6. Len(rest') = Len(rest) - 1
    BY <2>2, <2>3, HeadTailProperties
  <2>7. Len(rest') > 0 => c = CR
    BY <2>3, <2>4, <2>6 DEF RestPaired
  <2> HIDE DEF c
  <2>8. /\ UnderWay' # <<>> /\ UnderWay'[Len(UnderWay')] = c
        /\ \A k \in 1 .. Len(UnderWay') : UnderWay'[k] = LF =>
             IF k = 1 THEN line = CR ELSE UnderWay'[k - 1] = CR
    BY <1>0, <2>1, <2>5, AppendPairs DEF LineInv, Paired, Newest
  <2>9. Paired' /\ Newest' = c
    BY <2>2, <2>8 DEF Paired, Newest, LF, CR
  <2>10. RestPaired'
    <3>1. Len(rest') # 2
      BY <2>3, <2>6
    <3>2. Len(rest') > 0 => Newest' = CR
      BY <2>7, <2>9
    <3> QED
      BY <3>1, <3>2 DEF RestPaired, LF, CR
  <2>11. ~Shift
    BY <2>2 DEF Shift, ring
  <2> QED
    BY <2>9, <2>10, <2>11 DEF LineInv
<1>3. CASE ~Shift /\ \A w \in Writers : ~PutChar(w)
  <2>1. UnderWay' = UnderWay /\ line' = line
    BY <1>3, OtherSteps DEF UnderWay
  <2>2. Paired' /\ Newest' = Newest
    BY <2>1 DEF LineInv, Paired, Newest, LF, CR
  <2>3. ASSUME NEW w \in Writers, NextByte(w) PROVE Putting' => RestPaired'
    <3>1. CASE buflen = 0
      <4>1. pc' = [pc EXCEPT ![w] = "finish"] /\ rest' = rest
        BY <2>3, <3>1 DEF NextByte, Goto
      <4>2. Putting' => Putting
        BY <4>1 DEF Putting, TypeOK
      <4> QED
        BY <2>2, <4>1, <4>2 DEF LineInv, RestPaired, LF, CR
    <3>2. CASE buflen # 0
      <4>1. PICK ch \in Letters \union {LF} : rest' = ConsoleBytes(ch)
        BY <2>3, <3>2 DEF NextByte
      <4>2. CASE ch = LF
        BY <4>1, <4>2 DEF ConsoleBytes, RestPaired, LF, CR
      <4>3. CASE ch # LF
        BY <4>1, <4>3 DEF ConsoleBytes, RestPaired, LF, CR
      <4> QED
        BY <4>2, <4>3
    <3> QED
      BY <3>1, <3>2
  <2>4. ASSUME NEW w \in Writers, Begin(w) PROVE Putting' => RestPaired'
    BY <2>4 DEF Begin, RestPaired
  <2>5. ASSUME rest' = rest, Putting' => Putting
        PROVE  Putting' => RestPaired'
    BY <2>2, <2>5 DEF LineInv, RestPaired, LF, CR
  <2>6. ASSUME NEW w \in Writers,
               TakeXmit(w) \/ ByteDone(w) \/ RingFull(w) \/ Wake(w) \/ Abort(w)
               \/ Finish(w) \/ GiveXmit(w) \/ Signal(w)
        PROVE  rest' = rest /\ (Putting' => Putting)
    <3>1. rest' = rest
      BY <2>6, Zenon DEF TakeXmit, ByteDone, RingFull, Wake, Abort, Finish, GiveXmit, Signal, locals
    <3>2. \A v \in Writers : pc'[v] \in {"put", "wait", "woken"} =>
                               pc[v] \in {"put", "wait", "woken"}
      BY <2>6, Zenon
      DEF TakeXmit, ByteDone, RingFull, Wake, Abort, Finish, GiveXmit, Signal, Goto, TypeOK
    <3> QED
      BY <3>1, <3>2 DEF Putting
  <2>7. ASSUME TransmitInterrupt PROVE Putting' => RestPaired'
    <3>1. rest' = rest
      BY <2>7 DEF TransmitInterrupt, locals
    <3>2. \A v \in Writers : pc'[v] \in {"put", "wait", "woken"} =>
                               pc[v] \in {"put", "wait", "woken"}
      BY <2>7 DEF TransmitInterrupt
    <3> QED
      BY <2>5, <3>1, <3>2 DEF Putting
  <2>8. ASSUME UNCHANGED vars PROVE Putting' => RestPaired'
    BY <2>5, <2>8 DEF vars, locals, Putting
  <2>9. Putting' => RestPaired'
    BY <1>3, <2>3, <2>4, <2>5, <2>6, <2>7, <2>8 DEF Next, Proceed
  <2> QED
    BY <1>3, <2>2, <2>9 DEF LineInv
<1> QED
  BY <1>1, <1>2, <1>3

(* Every \n on the line directly follows its \r (CrBeforeLf), for every    *)
(* size of the ring and any number of writers, signalled or not.           *)
THEOREM LinesSafe == Spec => CrBeforeLf
<1>1. Init => LineInv
  <2> SUFFICES ASSUME Init PROVE LineInv
    OBVIOUS
  <2>1. UnderWay = <<>>
    BY NothingUnderWay DEF UnderWay
  <2> QED
    BY <2>1 DEF Init, LineInv, Paired, Putting
<1>2. TypeOK /\ TypeOK' /\ LineInv /\ [Next]_vars =>
        LineInv' /\ [(Shift /\ Head(usart) = LF) => line = CR]_vars
  BY LineKept
<1> QED
  BY <1>1, <1>2, TypeCorrect, PTL DEF Spec, CrBeforeLf
=============================================================================
