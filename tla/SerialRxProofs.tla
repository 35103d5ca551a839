--------------------------- MODULE SerialRxProofs ---------------------------
(***************************************************************************)
(* Proofs about SerialRx for every ring size and set of readers.           *)
(***************************************************************************)
EXTENDS SerialRx, SequenceTheorems, TLAPS

(* Exactly the reader that holds recv.sem is inside uart_read. *)
OneInside ==
  \A r \in Readers : (owner = r) <=> (pc[r] \notin {"idle", "lock"})

(* Without a waiter the semaphore holds no debt, and an announced wait     *)
(* that nobody waits for any more excludes a token.                        *)
TokenInv ==
  (\A r \in Readers : pc[r] # "wait") =>
     recvsem \in 0 .. 1 /\ (recvwaiting => recvsem = 0)

(* The receive interrupt is disabled exactly while a reader retests.       *)
MaskInv == \A r \in Readers : pc[r] = "retest" => ~rxie

(* A reader about to move the tail holds the byte at the tail, which the   *)
(* interrupt cannot have overwritten.                                      *)
StoreInv ==
  \A r \in Readers : pc[r] = "store" =>
     head # tail /\ ch = buffer[tail] /\ room > 0

RxInv ==
  /\ TypeOK /\ OneInside /\ TokenInv /\ MaskInv /\ StoreInv
  /\ NeverDeaf /\ NotSleptThrough

-----------------------------------------------------------------------------
(* The console as configured satisfies the invariant.                      *)
LEMMA InitInv == Init => RxInv
<1> SUFFICES ASSUME Init PROVE RxInv
  OBVIOUS
<1>1. TypeOK
  <2>1. /\ recvwaiting \in BOOLEAN /\ rxie \in BOOLEAN /\ err \in BOOLEAN
        /\ empty \in BOOLEAN
    BY Zenon DEF Init
  <2> QED
    BY <2>1, SerialRxAssumption DEF Init, TypeOK, Labels
<1>2. /\ OneInside /\ TokenInv /\ MaskInv /\ StoreInv
      /\ NeverDeaf /\ NotSleptThrough
  BY SerialRxAssumption DEF Init, OneInside, TokenInv, MaskInv, StoreInv,
     NeverDeaf, NotSleptThrough
<1> QED
  BY <1>1, <1>2 DEF RxInv

(* While a reader is inside uart_read and does not wait, nobody waits and  *)
(* the semaphore has its balance.                                          *)
LEMMA Alone ==
  ASSUME RxInv, NEW r \in Readers,
         pc[r] \notin {"idle", "lock", "wait"}
  PROVE  /\ owner = r
         /\ \A v \in Readers : pc[v] # "wait"
         /\ \A v \in Readers : v # r => pc[v] \in {"idle", "lock"}
         /\ recvsem \in 0 .. 1 /\ (recvwaiting => recvsem = 0)
<1>1. owner = r
  BY DEF RxInv, OneInside
<1>2. \A v \in Readers : v # r => pc[v] \in {"idle", "lock"}
  BY <1>1 DEF RxInv, OneInside
<1>3. \A v \in Readers : pc[v] # "wait"
  BY <1>2, Zenon
<1> QED
  BY <1>1, <1>2, <1>3 DEF RxInv, TokenInv

(* A byte at the register, taken by nobody or lost to an overrun, concerns *)
(* no reader.                                                              *)
LEMMA UsartKeeps ==
  ASSUME RxInv, Arrive \/ ErrorInterrupt
  PROVE  RxInv'
<1> USE DEF RxInv
<1>1. UNCHANGED <<head, tail, buffer, owner, recvwaiting, recvsem, rxie, pc,
                  room, ch, empty, last>>
  BY DEF Arrive, ErrorInterrupt, ring, signal, locals
<1>2. rdr' \in Bytes \union {"none"}
  BY DEF Arrive, ErrorInterrupt, TypeOK
<1>3. err' \in BOOLEAN
  BY Zenon DEF Arrive, ErrorInterrupt, TypeOK
<1>4. TypeOK'
  BY <1>1, <1>2, <1>3 DEF TypeOK
<1>5. /\ OneInside' /\ TokenInv' /\ MaskInv' /\ StoreInv'
      /\ NeverDeaf' /\ NotSleptThrough'
  BY <1>1 DEF OneInside, TokenInv, MaskInv, StoreInv, NeverDeaf,
     NotSleptThrough
<1> QED
  BY <1>4, <1>5

(* uart_recvchars writes at the head, which is not the tail of a ring that *)
(* has bytes.                                                              *)
LEMMA RecvcharsKeeps ==
  ASSUME TypeOK, rdr # "none", Recvchars
  PROVE  /\ head' \in 0 .. Size - 1 /\ tail' = tail
         /\ buffer' \in [0 .. Size - 1 -> Bytes]
         /\ head' # head => head' # tail
         /\ head # tail => head' # tail /\ buffer'[tail] = buffer[tail]
<1>1. rdr \in Bytes
  BY DEF TypeOK
<1>2. CASE NextHead # tail
  BY <1>1, <1>2, SerialRxAssumption DEF Recvchars, NextHead, Wrap, TypeOK
<1>3. CASE NextHead = tail
  BY <1>3 DEF Recvchars, TypeOK
<1> QED
  BY <1>2, <1>3

(* The interrupt posts only when a byte went into the ring, and then wakes *)
(* the reader that waits.                                                  *)
LEMMA InterruptKeeps == RxInv /\ ReceiveInterrupt => RxInv'
<1> SUFFICES ASSUME RxInv, ReceiveInterrupt PROVE RxInv'
  OBVIOUS
<1> USE DEF RxInv
<1>1. /\ head' \in 0 .. Size - 1 /\ tail' = tail
      /\ buffer' \in [0 .. Size - 1 -> Bytes]
      /\ head' # head => head' # tail
      /\ head # tail => head' # tail /\ buffer'[tail] = buffer[tail]
  BY RecvcharsKeeps DEF ReceiveInterrupt
<1>2. /\ UNCHANGED <<owner, room, ch, empty, last, rxie>>
      /\ rdr' = "none" /\ err' = FALSE /\ rxie
  BY DEF ReceiveInterrupt, locals
<1>3. CASE \E r \in Readers : pc[r] = "wait"
  <2>1. PICK r \in Readers : pc[r] = "wait"
    BY <1>3
  <2>2. /\ owner = r /\ recvwaiting /\ recvsem = -1 /\ rxie /\ head = tail
        /\ \A v \in Readers : pc[v] = "wait" => v = r
    BY <2>1 DEF NotSleptThrough
  <2>3. head' # head
    BY <2>2, SerialRxAssumption
       DEF ReceiveInterrupt, Recvchars, NextHead, Wrap, TypeOK
  <2>4. recvsem' = 0 /\ pc' = [v \in Readers |-> IF v = r THEN "woken" ELSE pc[v]]
    BY <2>1, <2>2, <2>3 DEF ReceiveInterrupt, Datareceived
  <2>5. recvwaiting' = FALSE
    BY <2>2, <2>3, Zenon DEF ReceiveInterrupt, Datareceived
  <2>6. TypeOK'
    <3>1. recvwaiting' \in BOOLEAN /\ err' \in BOOLEAN /\ rxie' \in BOOLEAN
      BY <1>2, <2>5, Zenon DEF TypeOK
    <3> QED
      BY <1>1, <1>2, <2>4, <3>1 DEF TypeOK, Labels
  <2>7. OneInside' /\ TokenInv' /\ MaskInv' /\ NeverDeaf'
    BY <1>2, <2>1, <2>2, <2>4, <2>5
       DEF OneInside, TokenInv, MaskInv, NeverDeaf, TypeOK
  <2>8. StoreInv' /\ NotSleptThrough'
    BY <2>2, <2>4 DEF StoreInv, NotSleptThrough
  <2> QED
    BY <2>6, <2>7, <2>8
<1>4. CASE \A r \in Readers : pc[r] # "wait"
  <2>1. pc' = pc
    BY <1>4 DEF ReceiveInterrupt, Datareceived, TypeOK
  <2>2. recvsem \in 0 .. 1 /\ (recvwaiting => recvsem = 0)
    BY <1>4 DEF TokenInv
  <2>3. /\ recvsem' \in 0 .. 1 /\ recvwaiting' \in BOOLEAN
        /\ (recvwaiting' => recvsem' = 0)
    <3>1. CASE head' # head /\ recvwaiting
      <4>1. recvsem' = 1
        BY <2>2, <3>1 DEF ReceiveInterrupt, Datareceived
      <4>2. recvwaiting' = FALSE
        BY <3>1, Zenon DEF ReceiveInterrupt, Datareceived
      <4>3. recvwaiting' \in BOOLEAN
        BY <4>2, Zenon
      <4> QED
        BY <4>1, <4>2, <4>3
    <3>2. CASE ~(head' # head /\ recvwaiting)
      <4>1. recvsem' = recvsem
        BY <3>2 DEF ReceiveInterrupt, Datareceived
      <4>2. recvwaiting' = recvwaiting
        BY <3>2, Zenon DEF ReceiveInterrupt, Datareceived, TypeOK
      <4>3. recvwaiting' \in BOOLEAN
        BY <4>2, Zenon DEF TypeOK
      <4> QED
        BY <2>2, <4>1, <4>2, <4>3
    <3> QED
      BY <3>1, <3>2
  <2>4. TypeOK'
    <3>1. err' \in BOOLEAN /\ rxie' \in BOOLEAN
      BY <1>2, Zenon DEF TypeOK
    <3> QED
      BY <1>1, <1>2, <2>1, <2>3, <3>1 DEF TypeOK
  <2>5. OneInside' /\ TokenInv' /\ MaskInv' /\ NeverDeaf' /\ NotSleptThrough'
    BY <1>2, <1>4, <2>1, <2>3
       DEF OneInside, TokenInv, MaskInv, NeverDeaf, NotSleptThrough
  <2>6. StoreInv'
    BY <1>1, <1>2, <2>1 DEF StoreInv
  <2> QED
    BY <2>4, <2>5, <2>6
<1> QED
  BY <1>3, <1>4

(* Steps of a reader that leave the ring and the semaphores alone.         *)
LEMMA LocalSteps ==
  ASSUME RxInv, NEW r \in Readers,
         Begin(r) \/ Test(r) \/ Mask(r) \/ Wake(r)
  PROVE  RxInv'
<1> USE DEF RxInv
<1>0. pc[r] \in {"begin", "loop", "mask", "woken", "aborted"}
  BY DEF Begin, Test, Mask, Wake
<1>1. /\ owner = r
      /\ \A v \in Readers : pc[v] # "wait"
      /\ \A v \in Readers : v # r => pc[v] \in {"idle", "lock"}
      /\ recvsem \in 0 .. 1 /\ (recvwaiting => recvsem = 0)
  BY <1>0, Alone
<1>2. PICK l \in {"loop", "store", "mask", "retest", "unlock"} :
        pc' = [pc EXCEPT ![r] = l]
  BY DEF Begin, Test, Mask, Wake, Goto
<1>3. UNCHANGED <<head, tail, buffer, owner, recvwaiting, recvsem, rdr, err,
                  last>>
  BY DEF Begin, Test, Mask, Wake, ring, signal, usart
<1>4. rxie
  BY <1>0, <1>1 DEF NeverDeaf
<1>5. IF pc'[r] = "retest" THEN rxie' = FALSE ELSE rxie' = rxie
  BY <1>0 DEF Begin, Test, Mask, Wake, Goto, TypeOK
<1>6. /\ room' \in 0 .. MaxRead /\ ch' \in Bytes \union {"none"}
      /\ empty' \in BOOLEAN
  <2>1. empty' \in BOOLEAN
    BY Zenon DEF Begin, Test, Mask, Wake, locals, TypeOK
  <2>2. room' \in 0 .. MaxRead /\ ch' \in Bytes \union {"none"}
    BY SerialRxAssumption DEF Begin, Test, Mask, Wake, locals, TypeOK
  <2> QED
    BY <2>1, <2>2
<1>7. pc'[r] = "store" => head # tail /\ ch' = buffer[tail] /\ room' > 0
  BY <1>0 DEF Begin, Test, Mask, Wake, Goto, TypeOK
<1>8. TypeOK'
  <2>1. rxie' \in BOOLEAN
    BY <1>5, Zenon DEF TypeOK
  <2>2. pc' \in [Readers -> Labels]
    BY <1>2 DEF TypeOK, Labels
  <2> QED
    BY <1>3, <1>6, <2>1, <2>2 DEF TypeOK
<1>9. OneInside' /\ TokenInv' /\ NotSleptThrough'
  BY <1>1, <1>2, <1>3 DEF OneInside, TokenInv, NotSleptThrough, TypeOK
<1>10. MaskInv' /\ NeverDeaf'
  BY <1>1, <1>2, <1>3, <1>4, <1>5, SerialRxAssumption, Zenon
     DEF MaskInv, NeverDeaf, TypeOK
<1>11. StoreInv'
  BY <1>1, <1>2, <1>3, <1>7 DEF StoreInv, TypeOK
<1> QED
  BY <1>8, <1>9, <1>10, <1>11

(* The tail moves behind a byte that is in the ring.                       *)
LEMMA StoreKeeps ==
  ASSUME RxInv, NEW r \in Readers, Store(r)
  PROVE  RxInv'
<1> USE DEF RxInv
<1>1. /\ owner = r /\ pc[r] = "store"
      /\ \A v \in Readers : pc[v] # "wait"
      /\ \A v \in Readers : v # r => pc[v] \in {"idle", "lock"}
      /\ recvsem \in 0 .. 1 /\ (recvwaiting => recvsem = 0)
  BY Alone DEF Store
<1>2. ch = buffer[tail] /\ room > 0 /\ rxie
  BY <1>1 DEF StoreInv, NeverDeaf
<1>3. /\ UNCHANGED <<head, buffer, owner, recvwaiting, recvsem, rxie, rdr, err>>
      /\ pc' = [pc EXCEPT ![r] = "loop"]
      /\ tail' = Wrap(tail + 1) /\ last' = ch /\ ch' = "none"
      /\ room' = room - 1 /\ empty' = FALSE
  BY DEF Store, Goto, signal, usart
<1>4. TypeOK'
  <2>1. empty' \in BOOLEAN
    BY <1>3, Zenon
  <2>2. tail' \in 0 .. Size - 1 /\ room' \in 0 .. MaxRead
    BY <1>2, <1>3, SerialRxAssumption DEF Wrap, TypeOK
  <2>3. last' \in Bytes
    BY <1>2, <1>3 DEF TypeOK
  <2> QED
    BY <1>3, <2>1, <2>2, <2>3 DEF TypeOK, Labels
<1>5. /\ OneInside' /\ TokenInv' /\ MaskInv' /\ StoreInv'
      /\ NeverDeaf' /\ NotSleptThrough'
  BY <1>1, <1>2, <1>3 DEF OneInside, TokenInv, MaskInv, StoreInv, NeverDeaf,
     NotSleptThrough, TypeOK
<1> QED
  BY <1>4, <1>5

(* The wait begins with the ring empty, announced, and the interrupt       *)
(* enabled.                                                                *)
LEMMA RetestKeeps ==
  ASSUME RxInv, NEW r \in Readers, Retest(r)
  PROVE  RxInv'
<1> USE DEF RxInv
<1>1. /\ owner = r /\ pc[r] = "retest"
      /\ \A v \in Readers : pc[v] # "wait"
      /\ \A v \in Readers : v # r => pc[v] \in {"idle", "lock"}
      /\ recvsem \in 0 .. 1 /\ (recvwaiting => recvsem = 0)
  BY Alone DEF Retest
<1>2. /\ UNCHANGED <<head, tail, buffer, owner, rdr, err, room, ch, empty, last>>
      /\ rxie' = TRUE
  BY DEF Retest, ring, usart, locals
<1>3. CASE head = tail /\ recvsem = 0
  <2>1. recvsem' = -1 /\ pc' = [pc EXCEPT ![r] = "wait"]
    BY <1>3 DEF Retest, Goto
  <2>2. recvwaiting' = TRUE
    BY <1>3, Zenon DEF Retest
  <2>3. TypeOK'
    <3>1. recvwaiting' \in BOOLEAN /\ rxie' \in BOOLEAN
      BY <1>2, <2>2, Zenon
    <3> QED
      BY <1>2, <2>1, <3>1 DEF TypeOK, Labels
  <2>4. /\ OneInside' /\ TokenInv' /\ MaskInv' /\ StoreInv'
        /\ NeverDeaf' /\ NotSleptThrough'
    BY <1>1, <1>2, <1>3, <2>1, <2>2 DEF OneInside, TokenInv, MaskInv,
       StoreInv, NeverDeaf, NotSleptThrough, TypeOK
  <2> QED
    BY <2>3, <2>4
<1>4. CASE ~(head = tail /\ recvsem = 0)
  <2>1. pc' = [pc EXCEPT ![r] = "loop"]
    BY <1>1, <1>4 DEF Retest, Goto, signal
  <2>2. /\ recvsem' \in 0 .. 1 /\ recvwaiting' \in BOOLEAN
        /\ (recvwaiting' => recvsem' = 0)
    <3>1. CASE head = tail
      <4>1. recvsem' = 0
        BY <1>1, <1>4, <3>1 DEF Retest
      <4>2. recvwaiting' \in BOOLEAN
        BY <3>1, Zenon DEF Retest
      <4> QED
        BY <4>1, <4>2
    <3>2. CASE head # tail
      <4>1. recvsem' = recvsem /\ recvwaiting' = recvwaiting
        BY <3>2 DEF Retest, signal
      <4>2. recvwaiting' \in BOOLEAN
        BY <4>1, Zenon DEF TypeOK
      <4> QED
        BY <1>1, <4>1, <4>2
    <3> QED
      BY <3>1, <3>2
  <2>3. TypeOK'
    <3>1. rxie' \in BOOLEAN
      BY <1>2, Zenon
    <3> QED
      BY <1>2, <2>1, <2>2, <3>1 DEF TypeOK, Labels
  <2>4. /\ OneInside' /\ TokenInv' /\ MaskInv' /\ StoreInv'
        /\ NeverDeaf' /\ NotSleptThrough'
    BY <1>1, <1>2, <2>1, <2>2 DEF OneInside, TokenInv, MaskInv, StoreInv,
       NeverDeaf, NotSleptThrough, TypeOK
  <2> QED
    BY <2>3, <2>4
<1> QED
  BY <1>3, <1>4

(* Taking and giving recv.sem: the owner changes together with the one     *)
(* reader that is inside.                                                  *)
LEMMA LockKeeps ==
  ASSUME RxInv, NEW r \in Readers, TakeRecv(r) \/ GiveRecv(r)
  PROVE  RxInv'
<1> USE DEF RxInv
<1>1. UNCHANGED <<head, tail, buffer, recvwaiting, recvsem, rxie, rdr, err,
                  room, ch, empty, last>>
  BY DEF TakeRecv, GiveRecv, ring, signal, usart, locals
<1>2. /\ pc' \in [Readers -> Labels] /\ owner' \in Readers \union {"none"}
      /\ \A v \in Readers : pc'[v] = pc[v]
                            \/ (pc[v] \in {"idle", "lock", "unlock"}
                                /\ pc'[v] \in {"idle", "lock", "begin"})
  BY DEF TakeRecv, GiveRecv, Goto, TypeOK, Labels
<1>3. TypeOK'
  BY <1>1, <1>2 DEF TypeOK
<1>4. OneInside' /\ (pc[r] = "unlock" => owner = r)
  <2>1. CASE TakeRecv(r)
    BY <2>1, SerialRxAssumption DEF TakeRecv, Goto, OneInside, TypeOK
  <2>2. CASE GiveRecv(r)
    <3>1. owner = r /\ \A v \in Readers : v # r => pc[v] \in {"idle", "lock"}
      BY <2>2, Alone DEF GiveRecv
    <3> QED
      BY <2>2, <3>1, SerialRxAssumption DEF GiveRecv, Goto, OneInside, TypeOK
  <2> QED
    BY <2>1, <2>2
<1>5. TokenInv' /\ MaskInv' /\ StoreInv'
  BY <1>1, <1>2 DEF TokenInv, MaskInv, StoreInv
<1>6. NotSleptThrough'
  <2> SUFFICES ASSUME NEW v \in Readers, pc'[v] = "wait"
               PROVE  (owner = v /\ recvwaiting /\ recvsem = -1 /\ rxie
                         /\ head = tail)'
    BY DEF NotSleptThrough
  <2>1. pc[v] = "wait"
    BY <1>2
  <2>2. owner' = v
    BY <1>4 DEF OneInside
  <2> QED
    BY <1>1, <2>1, <2>2 DEF NotSleptThrough
<1>7. NeverDeaf'
  <2> SUFFICES ASSUME ~rxie' PROVE owner' # "none" /\ pc'[owner'] = "retest"
    BY DEF NeverDeaf
  <2>1. owner \in Readers /\ pc[owner] = "retest"
    BY <1>1 DEF NeverDeaf, TypeOK
  <2>2. pc'[owner] = "retest"
    BY <1>2, <2>1
  <2>3. owner' = owner
    BY <1>4, <2>1, <2>2 DEF OneInside
  <2> QED
    BY <2>1, <2>2, <2>3, SerialRxAssumption
<1> QED
  BY <1>3, <1>4, <1>5, <1>6, <1>7

(* A signal: the announced wait stays announced, without its waiter.       *)
LEMMA SignalKeeps ==
  ASSUME RxInv, NEW r \in Readers, Signal(r)
  PROVE  RxInv'
<1> USE DEF RxInv
<1>1. UNCHANGED <<head, tail, buffer, owner, recvwaiting, rxie, rdr, err,
                  room, ch, empty, last>>
  BY DEF Signal, ring, usart, locals
<1>2. CASE pc[r] = "wait" /\ recvsem' = recvsem + 1 /\ Goto(r, "aborted")
  <2>1. recvsem' = 0 /\ owner = r /\ rxie
    BY <1>2 DEF NotSleptThrough
  <2>2. pc' = [pc EXCEPT ![r] = "aborted"]
    BY <1>2 DEF Goto
  <2>3. \A v \in Readers : pc'[v] # "wait"
    BY <2>1, <2>2 DEF NotSleptThrough, TypeOK
  <2>4. TypeOK'
    BY <1>1, <2>1, <2>2 DEF TypeOK, Labels
  <2>5. OneInside' /\ MaskInv' /\ StoreInv'
    BY <1>1, <1>2, <2>2 DEF OneInside, MaskInv, StoreInv, TypeOK
  <2>6. TokenInv' /\ NotSleptThrough' /\ NeverDeaf'
    BY <1>1, <2>1, <2>3 DEF TokenInv, NotSleptThrough, NeverDeaf
  <2> QED
    BY <2>4, <2>5, <2>6
<1>3. CASE pc[r] = "lock" /\ Goto(r, "idle") /\ UNCHANGED recvsem
  <2>1. pc' = [pc EXCEPT ![r] = "idle"]
    BY <1>3 DEF Goto
  <2>2. \A v \in Readers : pc'[v] = pc[v] \/ (pc[v] = "lock" /\ pc'[v] = "idle")
    BY <1>3, <2>1 DEF TypeOK
  <2>3. TypeOK'
    BY <1>1, <1>3, <2>1 DEF TypeOK, Labels
  <2>4. /\ OneInside' /\ MaskInv' /\ StoreInv' /\ TokenInv'
        /\ NotSleptThrough'
    BY <1>1, <1>3, <2>2
       DEF OneInside, MaskInv, StoreInv, TokenInv, NotSleptThrough
  <2>5. NeverDeaf'
    BY <1>1, <2>2 DEF NeverDeaf, TypeOK
  <2> QED
    BY <2>3, <2>4, <2>5
<1> QED
  BY <1>2, <1>3 DEF Signal

(* Doing nothing preserves it.                                             *)
LEMMA StutterKeeps == RxInv /\ UNCHANGED vars => RxInv'
  BY DEF RxInv, TypeOK, OneInside, TokenInv, MaskInv, StoreInv, NeverDeaf,
         NotSleptThrough, vars, ring, signal, usart, locals

-----------------------------------------------------------------------------
(* The invariant holds for every size of the ring and set of readers.      *)
THEOREM Invariance == Spec => []RxInv
<1>1. RxInv /\ [Next]_vars => RxInv'
  <2> SUFFICES ASSUME RxInv, [Next]_vars PROVE RxInv'
    OBVIOUS
  <2>1. CASE ReceiveInterrupt
    BY <2>1, InterruptKeeps
  <2>2. CASE Arrive \/ ErrorInterrupt
    BY <2>2, UsartKeeps
  <2>3. ASSUME NEW r \in Readers, TakeRecv(r) \/ Proceed(r) \/ Signal(r)
        PROVE  RxInv'
    BY <2>3, LocalSteps, StoreKeeps, RetestKeeps, LockKeeps, SignalKeeps
       DEF Proceed
  <2>4. CASE UNCHANGED vars
    BY <2>4, StutterKeeps
  <2> QED
    BY <2>1, <2>2, <2>3, <2>4 DEF Next
<1> QED
  BY InitInv, <1>1, PTL DEF Spec

(* Type correctness, with at most one token left over in recvsem.          *)
THEOREM TypeCorrect == Spec => []TypeOK
  BY Invariance, PTL DEF RxInv

(* No byte is slept through: uart_read waits only with an empty ring, an   *)
(* announced wait and the receive interrupt enabled.                       *)
THEOREM NotSleptThroughSafe == Spec => []NotSleptThrough
  BY Invariance, PTL DEF RxInv

(* No path through uart_read leaves the receive interrupt disabled.        *)
THEOREM NeverDeafSafe == Spec => []NeverDeaf
  BY Invariance, PTL DEF RxInv

-----------------------------------------------------------------------------
(* The ring as a sequence: its bytes from the tail to the head.            *)
QueueOK ==
  /\ Count \in 0 .. Size - 1 /\ (Count = 0 <=> head = tail)
  /\ Queued \in Seq(Bytes) /\ Len(Queued) = Count
  /\ \A i \in 1 .. Count : Queued[i] = buffer[Wrap(tail + i - 1)]

(* The ring read as a sequence holds bytes.                                *)
LEMMA QueuedBytes == TypeOK => QueueOK
<1> SUFFICES ASSUME TypeOK PROVE QueueOK
  OBVIOUS
<1>1. Count \in 0 .. Size - 1 /\ (Count = 0 <=> head = tail)
  BY SerialRxAssumption DEF TypeOK, Count
<1>2. \A i \in 1 .. Count : Wrap(tail + i - 1) \in 0 .. Size - 1
  BY <1>1, SerialRxAssumption DEF TypeOK, Wrap
<1>3. \A i \in 1 .. Count : buffer[Wrap(tail + i - 1)] \in Bytes
  BY <1>2 DEF TypeOK
<1> QED
  BY <1>1, <1>3 DEF Queued, QueueOK

(* And so it does after a step.                                            *)
LEMMA QueuedBytesNext == TypeOK' => QueueOK'
  BY QueuedBytes, PTL

(* uart_recvchars with room adds the byte of the register to the ring; a   *)
(* full ring stays as it is.                                               *)
LEMMA RecvcharsAppends ==
  ASSUME TypeOK, TypeOK', rdr # "none", Recvchars
  PROVE  /\ NextHead # tail => Queued' = Append(Queued, rdr)
         /\ NextHead = tail => Queued' = Queued
<1>1. /\ Count \in 0 .. Size - 1
      /\ Queued \in Seq(Bytes) /\ Len(Queued) = Count
      /\ \A i \in 1 .. Count : Queued[i] = buffer[Wrap(tail + i - 1)]
  BY QueuedBytes DEF QueueOK
<1>2. /\ Queued' \in Seq(Bytes) /\ Len(Queued') = Count'
      /\ \A i \in 1 .. Count' : Queued'[i] = buffer'[Wrap(tail' + i - 1)]
  BY QueuedBytesNext DEF QueueOK, Wrap
<1>3. ASSUME NextHead # tail PROVE Queued' = Append(Queued, rdr)
  <2>0. head' = NextHead /\ tail' = tail
    BY <1>3 DEF Recvchars
  <2>1. Count' = Count + 1
    BY <1>3, <2>0, SerialRxAssumption DEF Count, NextHead, Wrap, TypeOK
  <2>2. tail' = tail /\ buffer' = [buffer EXCEPT ![head] = rdr] /\ rdr \in Bytes
    BY <1>3 DEF Recvchars, TypeOK
  <2>3. \A i \in 1 .. Count : Queued'[i] = Queued[i]
    <3> TAKE i \in 1 .. Count
    <3>1. Wrap(tail + i - 1) # head /\ Wrap(tail + i - 1) \in 0 .. Size - 1
      BY <1>1, SerialRxAssumption DEF Wrap, TypeOK, Count
    <3>2. buffer'[Wrap(tail + i - 1)] = buffer[Wrap(tail + i - 1)]
      BY <2>2, <3>1 DEF TypeOK
    <3>3. i \in 1 .. Count'
      BY <1>1, <2>1
    <3> QED
      BY <1>1, <1>2, <2>2, <3>2, <3>3
  <2>4. Queued'[Count + 1] = rdr
    <3>1. Wrap(tail + (Count + 1) - 1) = head
      BY SerialRxAssumption DEF Wrap, TypeOK, Count
    <3>2. buffer'[head] = rdr
      BY <2>2 DEF TypeOK
    <3>3. Count + 1 \in 1 .. Count'
      BY <1>1, <2>1
    <3> QED
      BY <1>2, <2>2, <3>1, <3>2, <3>3
  <2>5. /\ Append(Queued, rdr) \in Seq(Bytes)
        /\ Len(Append(Queued, rdr)) = Count + 1
        /\ \A i \in 1 .. Count : Append(Queued, rdr)[i] = Queued[i]
        /\ Append(Queued, rdr)[Count + 1] = rdr
    BY <1>1, <2>2, AppendProperties
  <2>6. \A i \in 1 .. Count + 1 : Queued'[i] = Append(Queued, rdr)[i]
    BY <1>1, <2>3, <2>4, <2>5
  <2> QED
    BY <1>2, <2>1, <2>5, <2>6, SeqEqual
<1>4. ASSUME NextHead = tail PROVE Queued' = Queued
  <2>1. UNCHANGED <<head, tail, buffer>>
    BY <1>4 DEF Recvchars
  <2> QED
    BY <2>1 DEF Queued, Count, Wrap
<1> QED
  BY <1>3, <1>4

(* uart_read takes the oldest byte of the ring.                            *)
LEMMA StoreTakes ==
  ASSUME RxInv, RxInv', NEW r \in Readers, Store(r)
  PROVE  /\ Queued # <<>> /\ Queued \in Seq(Bytes)
         /\ last' = Head(Queued) /\ Queued' = Tail(Queued)
<1>1. /\ Count \in 0 .. Size - 1 /\ (Count = 0 <=> head = tail)
      /\ Queued \in Seq(Bytes) /\ Len(Queued) = Count
      /\ \A i \in 1 .. Count : Queued[i] = buffer[Wrap(tail + i - 1)]
  BY QueuedBytes DEF QueueOK, RxInv
<1>2. /\ Queued' \in Seq(Bytes) /\ Len(Queued') = Count'
      /\ \A i \in 1 .. Count' : Queued'[i] = buffer'[Wrap(tail' + i - 1)]
  BY QueuedBytesNext DEF QueueOK, Wrap, RxInv
<1>3. head # tail /\ ch = buffer[tail] /\ TypeOK
  BY DEF RxInv, StoreInv, Store
<1>4. UNCHANGED <<head, buffer>> /\ tail' = Wrap(tail + 1) /\ last' = ch
  BY DEF Store
<1>5. Count' = Count - 1 /\ Count >= 1
  <2>1. head \in 0 .. Size - 1 /\ tail \in 0 .. Size - 1 /\ Size \in Nat /\ Size >= 2
    BY <1>3, SerialRxAssumption DEF TypeOK
  <2>2. head' = head /\ tail' = Wrap(tail + 1) /\ head # tail
    BY <1>3, <1>4
  <2>3. CASE head >= tail
    BY ONLY <2>1, <2>2, <2>3 DEF Count, Wrap
  <2>4. CASE ~(head >= tail)
    BY ONLY <2>1, <2>2, <2>4 DEF Count, Wrap
  <2> QED
    BY <2>3, <2>4
<1>6. Queued # <<>>
  BY <1>1, <1>5, EmptySeq
<1>7. /\ Tail(Queued) \in Seq(Bytes) /\ Len(Tail(Queued)) = Count - 1
      /\ \A i \in 1 .. Count - 1 : Tail(Queued)[i] = Queued[i + 1]
  BY <1>1, <1>6, HeadTailProperties
<1>8. ASSUME NEW i \in 1 .. Count - 1 PROVE Queued'[i] = Tail(Queued)[i]
  <2>1. Wrap(tail' + i - 1) = Wrap(tail + (i + 1) - 1)
    <3>1. i \in 1 .. Size - 1 /\ tail \in 0 .. Size - 1
      BY <1>1, <1>3, SerialRxAssumption DEF TypeOK
    <3> QED
      BY <1>4, <3>1, SerialRxAssumption DEF Wrap
  <2>2. i + 1 \in 1 .. Count /\ i \in 1 .. Count'
    BY <1>1, <1>5
  <2> QED
    BY <1>1, <1>2, <1>4, <1>7, <2>1, <2>2
<1>9. Queued' = Tail(Queued)
  BY <1>2, <1>5, <1>7, <1>8, SeqEqual
<1>10. Head(Queued) = buffer[tail]
  <2>1. Head(Queued) = Queued[1]
    BY <1>1, <1>6
  <2>2. Wrap(tail + 1 - 1) = tail
    BY <1>3, SerialRxAssumption DEF Wrap, TypeOK
  <2>3. 1 \in 1 .. Count
    BY <1>1, <1>5
  <2> QED
    BY <1>1, <2>1, <2>2, <2>3
<1> QED
  BY <1>1, <1>3, <1>4, <1>6, <1>9, <1>10

(* The receive side implements the lossy FIFO, for every size: bytes are   *)
(* delivered in order and once, and a byte can be lost only while it is in *)
(* the data register.                                                      *)
THEOREM LossyFifoImplemented == Spec => IsLossyFifo
<1>1. Init => In!Init
  <2> SUFFICES ASSUME Init PROVE In!Init
    OBVIOUS
  <2>1. TypeOK /\ Count = 0
    BY InitInv DEF RxInv, Init, Count
  <2>2. Queued = <<>>
    BY <2>1, QueuedBytes, EmptySeq DEF QueueOK
  <2> QED
    BY <2>2 DEF Init, In!Init
<1>2. RxInv /\ RxInv' /\ [Next]_vars => [In!Next]_<<rdr, Queued, last>>
  <2> SUFFICES ASSUME RxInv, RxInv', [Next]_vars
               PROVE  [In!Next]_<<rdr, Queued, last>>
    OBVIOUS
  <2>0. /\ TypeOK /\ TypeOK' /\ Queued \in Seq(Bytes)
        /\ Len(Queued) \in Nat /\ Len(Queued') <= Size - 1
    BY QueuedBytes, QueuedBytesNext, SerialRxAssumption DEF QueueOK, RxInv
  <2>1. ASSUME UNCHANGED <<head, tail, buffer>>
        PROVE  Queued' = Queued
    BY <2>1 DEF Queued, Count, Wrap
  <2>2. CASE Arrive
    <3>1. Queued' = Queued /\ last' = last
      BY <2>1, <2>2 DEF Arrive, ring
    <3>2. \/ rdr = "none" /\ rdr' \in Bytes
          \/ rdr' = rdr
      BY <2>2 DEF Arrive
    <3> QED
      BY <3>1, <3>2 DEF In!Next, In!Arrive
  <2>3. CASE ReceiveInterrupt
    <3>1. rdr \in Bytes /\ rdr # "none" /\ rdr' = "none" /\ last' = last
      BY <2>0, <2>3 DEF ReceiveInterrupt, TypeOK
    <3>2. /\ NextHead # tail => Queued' = Append(Queued, rdr)
          /\ NextHead = tail => Queued' = Queued
      BY <2>0, <2>3, RecvcharsAppends DEF ReceiveInterrupt
    <3>3. CASE NextHead # tail
      <4>1. Len(Queued') = Len(Queued) + 1
        BY <2>0, <3>1, <3>2, <3>3, AppendProperties
      <4>2. Len(Queued) < Size - 1
        BY <2>0, <4>1, SerialRxAssumption
      <4> QED
        BY <3>1, <3>2, <3>3, <4>2 DEF In!Next, In!Accept
    <3>4. CASE NextHead = tail
      BY <3>1, <3>2, <3>4 DEF In!Next, In!Lose
    <3> QED
      BY <3>3, <3>4
  <2>4. CASE ErrorInterrupt
    <3>1. Queued' = Queued /\ last' = last /\ rdr' = "none"
      BY <2>1, <2>4 DEF ErrorInterrupt, ring
    <3> QED
      BY <3>1 DEF In!Next, In!Lose
  <2>5. ASSUME NEW r \in Readers, TakeRecv(r) \/ Proceed(r) \/ Signal(r)
        PROVE  [In!Next]_<<rdr, Queued, last>>
    <3>1. CASE Store(r)
      <4>1. /\ Queued # <<>>
            /\ last' = Head(Queued) /\ Queued' = Tail(Queued)
        BY <3>1, StoreTakes
      <4>2. rdr' = rdr
        BY <3>1 DEF Store, usart
      <4> QED
        BY <4>1, <4>2 DEF In!Next, In!Get
    <3>2. CASE \/ TakeRecv(r) \/ Begin(r) \/ Test(r) \/ Mask(r) \/ Retest(r)
              \/ Wake(r) \/ GiveRecv(r) \/ Signal(r)
      BY <2>1, <3>2 DEF TakeRecv, Begin, Test, Mask, Retest, Wake, GiveRecv,
         Signal, ring, usart
    <3> QED
      BY <2>5, <3>1, <3>2 DEF Proceed
  <2>6. CASE UNCHANGED vars
    BY <2>1, <2>6 DEF vars, ring, usart
  <2> QED
    BY <2>2, <2>3, <2>4, <2>5, <2>6 DEF Next
<1> QED
  BY <1>1, <1>2, Invariance, PTL DEF Spec, IsLossyFifo, In!Spec
=============================================================================
