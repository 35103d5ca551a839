------------------------------ MODULE SerialTx ------------------------------
(***************************************************************************)
(* The transmit half of the console: uart_write and uart_putxmitchar of    *)
(* serial.c, called by any number of tasks, against the transmit interrupt *)
(* (up_interrupt_common, uart_xmitchars, uart_datasent) and the USART.     *)
(* This is the wait inside every printf of the feeder.  Code that runs     *)
(* with interrupts disabled is one action.  A signal may interrupt either  *)
(* wait.  A definition just above another one and named after a slip is a  *)
(* wrong variant that no specification uses.                               *)
(***************************************************************************)
EXTENDS Integers, Sequences

CONSTANTS Writers,   \* tasks that print
          Size,      \* 256: CONFIG_USART1_TXBUFSIZE
          Depth,     \* 2: data register and shift register of the USART
          Letters,   \* bytes other than \n and \r
          MaxWrite   \* longest buffer given to uart_write (a bound)

ASSUME SerialTxAssumption ==
  /\ Size \in Nat /\ Size >= 2
  /\ Depth \in Nat \ {0} /\ MaxWrite \in Nat
  /\ "none" \notin Writers

VARIABLES
  head, tail, buffer,  \* dev->xmit
  owner,               \* the writer that holds xmit.sem, or "none"
  xmitwaiting,
  xmitsem,             \* count of that semaphore, -1 when a writer waits
  txie,                \* TXEIE: the transmit interrupt is enabled
  usart,               \* bytes in the data and shift registers, oldest first
  line,                \* the byte that left last
  pc,                  \* where each writer is
  buflen, rest         \* of the owner: bytes to go, and what is still to be
                       \* put for the current one (<<CR, LF>>, <<LF>>, <<ch>>)

ring   == <<head, tail, buffer>>
signal == <<xmitwaiting, xmitsem>>
locals == <<buflen, rest>>
vars == <<ring, owner, signal, txie, usart, line, pc, locals>>

LF == "\n"
CR == "\r"
Bytes == Letters \union {LF, CR}

Labels == {"idle", "lock", "begin", "loop", "put", "wait", "woken",
           "aborted", "finish", "unlock"}

Init ==
  /\ head = 0 /\ tail = 0 /\ buffer = [i \in 0 .. Size - 1 |-> CR]
  /\ owner = "none" /\ xmitwaiting = FALSE /\ xmitsem = 0 /\ txie = FALSE
  /\ usart = <<>> /\ line = "none"
  /\ pc = [w \in Writers |-> "idle"] /\ buflen = 0 /\ rest = <<>>

-----------------------------------------------------------------------------
(* The ring *)

Wrap(i) == IF i >= Size THEN i - Size ELSE i

Count == IF head >= tail THEN head - tail ELSE Size - tail + head

Queued == [i \in 1 .. Count |-> buffer[Wrap(tail + i - 1)]]

NextHead == Wrap(head + 1)

-----------------------------------------------------------------------------
(* The interrupt side *)

(* uart_txready *)
TxReady == Len(usart) < Depth

(* How many bytes uart_xmitchars may send in one call: it goes on for as   *)
(* long as the USART is ready, which after each byte depends on how fast   *)
(* the shift register takes it.                                            *)
Sendable ==
  IF head # tail /\ TxReady
  THEN {n \in 1 .. Depth : n <= Count /\ n <= Depth - Len(usart)}
  ELSE {0}

(* uart_datasent after n bytes, with xmitwaiting = wake and the semaphore  *)
(* at sem.                                                                 *)
Datasent(wake, n, sem) ==
  IF n > 0 /\ wake
  THEN xmitwaiting' = FALSE /\ xmitsem' = sem + 1
  ELSE xmitwaiting' = wake /\ xmitsem' = sem

(* The loop of uart_xmitchars. *)
Send(n) ==
  /\ usart' = usart \o SubSeq(Queued, 1, n)
  /\ tail' = Wrap(tail + n)
  /\ UNCHANGED <<head, buffer>>

(* A token posted on xmitsem wakes the writer that waits for one. *)
Posted == xmitsem' > xmitsem /\ xmitsem < 0

(* up_interrupt_common with TXE and TXEIE set: uart_xmitchars.  The ring   *)
(* run empty, it disables the interrupt.                                   *)
TransmitInterrupt ==
  /\ txie /\ TxReady
  /\ \E n \in Sendable :
       /\ Send(n) /\ Datasent(xmitwaiting, n, xmitsem)
       /\ txie' = (n # Count)
  /\ pc' = [w \in Writers |-> IF Posted /\ pc[w] = "wait" THEN "woken" ELSE pc[w]]
  /\ UNCHANGED <<owner, line, locals>>

(* The USART finishes a byte. *)
Shift ==
  /\ usart # <<>>
  /\ line' = Head(usart) /\ usart' = Tail(usart)
  /\ UNCHANGED <<ring, owner, signal, txie, pc, locals>>

-----------------------------------------------------------------------------
(* uart_write *)

Goto(w, l) == pc' = [pc EXCEPT ![w] = l]

(* uart_takesem(&dev->xmit.sem, true) *)
TakeXmit(w) ==
  /\ pc[w] = "idle"
  /\ IF owner = "none"
     THEN owner' = w /\ Goto(w, "begin")
     ELSE Goto(w, "lock") /\ UNCHANGED owner
  /\ UNCHANGED <<ring, signal, txie, usart, line, locals>>

(* uart_disabletxint; the caller's buffer is of any length. *)
Begin(w) ==
  /\ pc[w] = "begin"
  /\ txie' = FALSE /\ rest' = <<>>
  /\ \E n \in 0 .. MaxWrite : buflen' = n
  /\ Goto(w, "loop")
  /\ UNCHANGED <<ring, owner, signal, usart, line>>

ConsoleBytesLfFirst(ch) == IF ch = LF THEN <<LF, CR>> ELSE <<ch>>

(* The console converts \n to \r\n. *)
ConsoleBytes(ch) == IF ch = LF THEN <<CR, LF>> ELSE <<ch>>

(* The head of the for loop. *)
NextByte(w) ==
  /\ pc[w] = "loop"
  /\ IF buflen = 0
     THEN Goto(w, "finish") /\ UNCHANGED rest
     ELSE /\ \E ch \in Letters \union {LF} : rest' = ConsoleBytes(ch)
          /\ Goto(w, "put")
  /\ UNCHANGED <<ring, owner, signal, txie, usart, line, buflen>>

PutCharNoFullTest(w) ==
  /\ pc[w] = "put" /\ rest # <<>>
  /\ buffer' = [buffer EXCEPT ![head] = Head(rest)]
  /\ head' = NextHead
  /\ rest' = Tail(rest)
  /\ UNCHANGED <<tail, owner, signal, txie, usart, line, buflen, pc>>

(* uart_putxmitchar with room in the ring. *)
PutChar(w) ==
  /\ pc[w] = "put" /\ rest # <<>> /\ NextHead # tail
  /\ buffer' = [buffer EXCEPT ![head] = Head(rest)]
  /\ head' = NextHead
  /\ rest' = Tail(rest)
  /\ UNCHANGED <<tail, owner, signal, txie, usart, line, buflen, pc>>

(* The end of the body of the for loop. *)
ByteDone(w) ==
  /\ pc[w] = "put" /\ rest = <<>>
  /\ buflen' = buflen - 1
  /\ Goto(w, "loop")
  /\ UNCHANGED <<ring, owner, signal, txie, usart, line, rest>>

RingFullMuted(w) ==
  /\ pc[w] = "put" /\ rest # <<>> /\ NextHead = tail
  /\ xmitwaiting' = TRUE /\ xmitsem' = xmitsem - 1
  /\ IF xmitsem > 0 THEN UNCHANGED pc ELSE Goto(w, "wait")
  /\ UNCHANGED <<ring, usart, txie, owner, line, locals>>

(* uart_putxmitchar with the ring full, with interrupts disabled: announce *)
(* the wait, enable the transmit interrupt (which calls uart_xmitchars at  *)
(* once) and take xmitsem.  If that call already freed a place, or an      *)
(* earlier wait left a token, the writer does not wait.                    *)
RingFull(w) ==
  /\ pc[w] = "put" /\ rest # <<>> /\ NextHead = tail
  /\ \E n \in Sendable :
       /\ Send(n)
       /\ LET sem == IF n > 0 THEN xmitsem + 1 ELSE xmitsem
          IN  /\ Datasent(TRUE, n, xmitsem - 1)
              /\ IF sem > 0
                 THEN txie' = FALSE /\ UNCHANGED pc
                 ELSE txie' = (n # Count) /\ Goto(w, "wait")
  /\ UNCHANGED <<owner, line, locals>>

(* sem_wait returns: the transmit interrupt is disabled and the ring       *)
(* tested again.                                                           *)
Wake(w) ==
  /\ pc[w] = "woken"
  /\ txie' = FALSE
  /\ Goto(w, "put")
  /\ UNCHANGED <<ring, owner, signal, usart, line, locals>>

(* A signal ends a wait for the ring or for xmit.sem: sem_waitirq takes    *)
(* the waiter off the semaphore.                                           *)
Signal(w) ==
  /\ \/ /\ pc[w] = "wait"
        /\ xmitsem' = xmitsem + 1
        /\ Goto(w, "aborted")
     \/ /\ pc[w] = "lock"
        /\ Goto(w, "idle") /\ UNCHANGED xmitsem
  /\ UNCHANGED <<ring, owner, xmitwaiting, txie, usart, line, locals>>

(* sem_wait returned EINTR: the transfer ends early. *)
Abort(w) ==
  /\ pc[w] = "aborted"
  /\ txie' = FALSE
  /\ Goto(w, "finish")
  /\ UNCHANGED <<ring, owner, signal, usart, line, locals>>

FinishQuiet(w) ==
  /\ pc[w] = "finish"
  /\ Goto(w, "unlock")
  /\ UNCHANGED <<ring, signal, txie, usart, owner, line, locals>>

(* The end of uart_write: with bytes in the ring, enable the transmit      *)
(* interrupt.                                                              *)
Finish(w) ==
  /\ pc[w] = "finish"
  /\ IF head # tail
     THEN \E n \in Sendable :
            /\ Send(n) /\ Datasent(xmitwaiting, n, xmitsem)
            /\ txie' = (n # Count)
     ELSE UNCHANGED <<ring, signal, txie, usart>>
  /\ Goto(w, "unlock")
  /\ UNCHANGED <<owner, line, locals>>

GiveXmitMissing(w) ==
  /\ pc[w] = "unlock"
  /\ Goto(w, "idle")
  /\ UNCHANGED <<owner, ring, signal, txie, usart, line, locals>>

(* uart_givesem(&dev->xmit.sem) hands the semaphore to a waiting writer. *)
GiveXmit(w) ==
  /\ pc[w] = "unlock"
  /\ \/ /\ \A v \in Writers : pc[v] # "lock"
        /\ owner' = "none" /\ Goto(w, "idle")
     \/ \E v \in Writers :
          /\ pc[v] = "lock"
          /\ owner' = v
          /\ pc' = [pc EXCEPT ![w] = "idle", ![v] = "begin"]
  /\ UNCHANGED <<ring, signal, txie, usart, line, locals>>

-----------------------------------------------------------------------------
Proceed(w) ==
  \/ Begin(w) \/ NextByte(w) \/ PutChar(w) \/ ByteDone(w) \/ RingFull(w)
  \/ Wake(w) \/ Abort(w) \/ Finish(w) \/ GiveXmit(w)

Next ==
  \/ \E w \in Writers : TakeXmit(w) \/ Proceed(w) \/ Signal(w)
  \/ TransmitInterrupt \/ Shift

(* The interrupt comes when it is enabled, the USART sends, and a writer   *)
(* that is ready gets the processor.  Nobody has to write, and no signal   *)
(* has to come.                                                            *)
Fairness ==
  /\ WF_vars(TransmitInterrupt) /\ WF_vars(Shift)
  /\ \A w \in Writers : WF_vars(Proceed(w))

Spec == Init /\ [][Next]_vars /\ Fairness

-----------------------------------------------------------------------------
(* Types and ranges; xmitsem holds at most one token left by a wait that a  *)
(* signal ended.                                                            *)
TypeOK ==
  /\ head \in 0 .. Size - 1 /\ tail \in 0 .. Size - 1
  /\ buffer \in [0 .. Size - 1 -> Bytes]
  /\ owner \in Writers \union {"none"}
  /\ xmitwaiting \in BOOLEAN /\ txie \in BOOLEAN
  /\ xmitsem \in -1 .. 1
  /\ usart \in Seq(Bytes) /\ Len(usart) <= Depth
  /\ line \in Bytes \union {"none"}
  /\ pc \in [Writers -> Labels]
  /\ buflen \in 0 .. MaxWrite
  /\ rest \in Seq(Bytes) /\ Len(rest) <= 2

(* A writer blocked on a full ring can count on being woken: it is the one *)
(* writer inside uart_write, its wait is announced, no token is left over, *)
(* and the interrupt is enabled over a ring that is not empty.  This is    *)
(* the answer to the comment of uart_xmitchars, "Potential bug? ... Can    *)
(* that happen?".                                                          *)
NoStall ==
  \A w \in Writers : pc[w] = "wait" =>
     owner = w /\ xmitwaiting /\ xmitsem = -1 /\ txie /\ head # tail

(* With no writer inside uart_write, bytes left in the ring are on their   *)
(* way out: the interrupt is enabled, or the ring is empty.                *)
NothingStranded ==
  owner = "none" => (txie <=> head # tail)

(* Every \n on the line directly follows its \r, although writers          *)
(* interrupt each other, wait between the two bytes and are signalled.     *)
CrBeforeLf == [][(Shift /\ Head(usart) = LF) => line = CR]_vars

Out == INSTANCE Fifo WITH
  Values <- Bytes, Capacity <- Size - 1 + Depth,
  queue <- usart \o Queued, last <- line

(* Ring and USART together are a FIFO: nothing that was put into the ring  *)
(* is lost, repeated or reordered.                                         *)
IsFifo == Out!Spec

(* A call of uart_write returns, also with the ring full. *)
WriteReturns == \A w \in Writers : (pc[w] # "idle") ~> (pc[w] = "idle")
=============================================================================
