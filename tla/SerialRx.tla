------------------------------ MODULE SerialRx ------------------------------
(***************************************************************************)
(* The receive half of the console, on which the shell that starts the     *)
(* feeder waits for its commands: uart_read of serial.c against the        *)
(* receive interrupt (up_interrupt_common, uart_recvchars,                 *)
(* uart_datareceived) and a USART with a data register of one byte.  Code  *)
(* that runs with interrupts disabled is one action.  A definition just    *)
(* above another one and named after a slip is a wrong variant that no     *)
(* specification uses.                                                     *)
(***************************************************************************)
EXTENDS Integers, Sequences

CONSTANTS Readers,   \* tasks that read the console
          Size,      \* 256: CONFIG_USART1_RXBUFSIZE
          Bytes,     \* what may be typed
          MaxRead    \* longest buffer given to uart_read (a bound)

ASSUME SerialRxAssumption ==
  /\ Size \in Nat /\ Size >= 2
  /\ MaxRead \in Nat /\ "none" \notin Readers /\ "none" \notin Bytes

VARIABLES
  head, tail, buffer,  \* dev->recv
  owner,               \* the reader that holds recv.sem, or "none"
  recvwaiting,
  recvsem,             \* count of that semaphore, -1 when a reader waits
  rxie,                \* RXNEIE: the receive interrupt is enabled
  rdr,                 \* the data register (RXNE: not "none")
  err,                 \* ORE, NE or FE: an overrun, noise or a framing error
  pc,                  \* where each reader is
  room, ch,            \* of the owner: buflen - recvd, and the byte it holds
  empty,               \* of the owner: recvd = 0
  last                 \* the byte given to a caller last

ring   == <<head, tail, buffer>>
signal == <<recvwaiting, recvsem>>
usart  == <<rdr, err>>
locals == <<room, ch, empty>>
vars == <<ring, owner, signal, rxie, usart, pc, locals, last>>

Labels == {"idle", "lock", "begin", "loop", "store", "mask", "retest", "wait",
           "woken", "aborted", "unlock"}

Init ==
  /\ head = 0 /\ tail = 0
  /\ buffer \in [0 .. Size - 1 -> Bytes] /\ \A i \in 0 .. Size - 1 : buffer[i] = buffer[0]
  /\ owner = "none" /\ recvwaiting = FALSE /\ recvsem = 0 /\ rxie = TRUE
  /\ rdr = "none" /\ err = FALSE
  /\ pc = [r \in Readers |-> "idle"]
  /\ room = 0 /\ ch = "none" /\ empty = TRUE /\ last = "none"

-----------------------------------------------------------------------------
(* The ring *)

Wrap(i) == IF i >= Size THEN i - Size ELSE i

Count == IF head >= tail THEN head - tail ELSE Size - tail + head

Queued == [i \in 1 .. Count |-> buffer[Wrap(tail + i - 1)]]

NextHead == Wrap(head + 1)

-----------------------------------------------------------------------------
(* The interrupt side *)

(* A byte arrives, with or without noise or a framing error; with the      *)
(* register still full it is lost, an overrun.                             *)
Arrive ==
  /\ \/ rdr = "none" /\ rdr' \in Bytes /\ err' \in BOOLEAN
     \/ rdr # "none" /\ err' = TRUE /\ UNCHANGED rdr
  /\ UNCHANGED <<ring, owner, signal, rxie, pc, locals, last>>

RecvcharsOverwriting ==
  /\ buffer' = [buffer EXCEPT ![head] = rdr]
  /\ head' = NextHead
  /\ UNCHANGED tail

(* The loop of uart_recvchars, which finds one byte: it goes into the ring *)
(* or, the ring being full, nowhere.                                       *)
Recvchars ==
  /\ IF NextHead # tail
     THEN buffer' = [buffer EXCEPT ![head] = rdr] /\ head' = NextHead
     ELSE UNCHANGED <<buffer, head>>
  /\ UNCHANGED tail

(* uart_datareceived, called when a byte went into the ring. *)
Datareceived ==
  LET post == head' # head /\ recvwaiting
  IN  /\ recvwaiting' = (recvwaiting /\ ~post)
      /\ recvsem' = IF post THEN recvsem + 1 ELSE recvsem
      /\ pc' = [r \in Readers |->
                  IF post /\ pc[r] = "wait" THEN "woken" ELSE pc[r]]

(* up_interrupt_common with RXNE and RXNEIE set: the byte goes the way of  *)
(* a good one, whatever its error flags.  Reading the register clears them *)
(* with RXNE.                                                              *)
ReceiveInterrupt ==
  /\ rxie /\ rdr # "none"
  /\ Recvchars /\ Datareceived
  /\ rdr' = "none" /\ err' = FALSE
  /\ UNCHANGED <<owner, rxie, locals, last>>

(* up_interrupt_common entered for the transmitter while the receive       *)
(* interrupt is disabled: an overrun, noise or framing error is cleared by *)
(* reading the register, and the byte in it is lost.                       *)
ErrorInterrupt ==
  /\ err /\ ~rxie
  /\ rdr' = "none" /\ err' = FALSE
  /\ UNCHANGED <<ring, owner, signal, rxie, pc, locals, last>>

-----------------------------------------------------------------------------
(* uart_read *)

Goto(r, l) == pc' = [pc EXCEPT ![r] = l]

(* uart_takesem(&rxbuf->sem, true) *)
TakeRecv(r) ==
  /\ pc[r] = "idle"
  /\ IF owner = "none"
     THEN owner' = r /\ Goto(r, "begin")
     ELSE Goto(r, "lock") /\ UNCHANGED owner
  /\ UNCHANGED <<ring, signal, rxie, usart, locals, last>>

(* The caller's buffer is of any length. *)
Begin(r) ==
  /\ pc[r] = "begin"
  /\ \E n \in 1 .. MaxRead : room' = n
  /\ empty' = TRUE /\ ch' = "none"
  /\ Goto(r, "loop")
  /\ UNCHANGED <<ring, owner, signal, rxie, usart, last>>

TestFillsBuffer(r) ==
  /\ pc[r] = "loop"
  /\ \/ room = 0 /\ Goto(r, "unlock") /\ UNCHANGED ch
     \/ room > 0 /\ head # tail /\ ch' = buffer[tail] /\ Goto(r, "store")
     \/ room > 0 /\ head = tail /\ Goto(r, "mask") /\ UNCHANGED ch
  /\ UNCHANGED <<ring, owner, signal, rxie, usart, room, empty, last>>

(* The head of the loop: full buffer, a byte in the ring, something read   *)
(* before, or else a wait is due.                                          *)
Test(r) ==
  /\ pc[r] = "loop"
  /\ \/ room = 0 /\ Goto(r, "unlock") /\ UNCHANGED ch
     \/ room > 0 /\ head # tail /\ ch' = buffer[tail] /\ Goto(r, "store")
     \/ room > 0 /\ head = tail /\ ~empty /\ Goto(r, "unlock") /\ UNCHANGED ch
     \/ room > 0 /\ head = tail /\ empty /\ Goto(r, "mask") /\ UNCHANGED ch
  /\ UNCHANGED <<ring, owner, signal, rxie, usart, room, empty, last>>

(* The tail is moved behind the byte, and the caller has it. *)
Store(r) ==
  /\ pc[r] = "store"
  /\ tail' = Wrap(tail + 1)
  /\ last' = ch /\ ch' = "none" /\ room' = room - 1 /\ empty' = FALSE
  /\ Goto(r, "loop")
  /\ UNCHANGED <<head, buffer, owner, signal, rxie, usart>>

(* uart_disablerxint *)
Mask(r) ==
  /\ pc[r] = "mask"
  /\ rxie' = FALSE
  /\ Goto(r, "retest")
  /\ UNCHANGED <<ring, owner, signal, usart, locals, last>>

RetestLeavesMasked(r) ==
  /\ pc[r] = "retest"
  /\ IF head = tail
     THEN /\ recvwaiting' = TRUE /\ recvsem' = recvsem - 1
          /\ rxie' = TRUE
          /\ Goto(r, IF recvsem > 0 THEN "loop" ELSE "wait")
     ELSE Goto(r, "loop") /\ UNCHANGED <<signal, rxie>>
  /\ UNCHANGED <<ring, owner, usart, locals, last>>

RetestSkipped(r) ==
  /\ pc[r] = "retest"
  /\ rxie' = TRUE
  /\ recvwaiting' = TRUE /\ recvsem' = recvsem - 1
  /\ Goto(r, IF recvsem > 0 THEN "loop" ELSE "wait")
  /\ UNCHANGED <<ring, owner, usart, locals, last>>

(* The ring is tested again with the receive interrupt disabled; if it is  *)
(* still empty the interrupt is enabled, the wait announced and recvsem    *)
(* taken, all with interrupts off.                                         *)
Retest(r) ==
  /\ pc[r] = "retest"
  /\ rxie' = TRUE
  /\ IF head = tail
     THEN /\ recvwaiting' = TRUE /\ recvsem' = recvsem - 1
          /\ Goto(r, IF recvsem > 0 THEN "loop" ELSE "wait")
     ELSE Goto(r, "loop") /\ UNCHANGED signal
  /\ UNCHANGED <<ring, owner, usart, locals, last>>

(* sem_wait returns, after a post or because of a signal. *)
Wake(r) ==
  /\ pc[r] \in {"woken", "aborted"}
  /\ Goto(r, IF pc[r] = "woken" THEN "loop" ELSE "unlock")
  /\ UNCHANGED <<ring, owner, signal, rxie, usart, locals, last>>

(* A signal ends a wait for a byte or for recv.sem. *)
Signal(r) ==
  /\ \/ /\ pc[r] = "wait"
        /\ recvsem' = recvsem + 1
        /\ Goto(r, "aborted")
     \/ /\ pc[r] = "lock"
        /\ Goto(r, "idle") /\ UNCHANGED recvsem
  /\ UNCHANGED <<ring, owner, recvwaiting, rxie, usart, locals, last>>

(* uart_givesem(&dev->recv.sem) hands the semaphore to a waiting reader. *)
GiveRecv(r) ==
  /\ pc[r] = "unlock"
  /\ \/ /\ \A v \in Readers : pc[v] # "lock"
        /\ owner' = "none" /\ Goto(r, "idle")
     \/ \E v \in Readers :
          /\ pc[v] = "lock"
          /\ owner' = v
          /\ pc' = [pc EXCEPT ![r] = "idle", ![v] = "begin"]
  /\ UNCHANGED <<ring, signal, rxie, usart, locals, last>>

-----------------------------------------------------------------------------
Proceed(r) ==
  \/ Begin(r) \/ Test(r) \/ Store(r) \/ Mask(r) \/ Retest(r) \/ Wake(r)
  \/ GiveRecv(r)

Next ==
  \/ \E r \in Readers : TakeRecv(r) \/ Proceed(r) \/ Signal(r)
  \/ Arrive \/ ReceiveInterrupt \/ ErrorInterrupt

(* The interrupt comes when it is enabled, and a reader that is ready gets *)
(* the processor.  Nobody has to type or to read, and no signal has to     *)
(* come.                                                                   *)
Fairness ==
  /\ WF_vars(ReceiveInterrupt)
  /\ \A r \in Readers : WF_vars(Proceed(r))

Spec == Init /\ [][Next]_vars /\ Fairness

-----------------------------------------------------------------------------
(* Types and ranges; recvsem holds at most one token left by a wait that a  *)
(* signal ended.                                                            *)
TypeOK ==
  /\ head \in 0 .. Size - 1 /\ tail \in 0 .. Size - 1
  /\ buffer \in [0 .. Size - 1 -> Bytes]
  /\ owner \in Readers \union {"none"}
  /\ recvwaiting \in BOOLEAN /\ rxie \in BOOLEAN /\ err \in BOOLEAN
  /\ empty \in BOOLEAN
  /\ recvsem \in -1 .. 1
  /\ rdr \in Bytes \union {"none"} /\ ch \in Bytes \union {"none"}
  /\ last \in Bytes \union {"none"}
  /\ pc \in [Readers -> Labels] /\ room \in 0 .. MaxRead

(* A reader that waits for a byte can count on being woken: its wait is     *)
(* announced, no token is left over, the ring is empty and the receive      *)
(* interrupt enabled.  A byte that arrives between the test of the ring and *)
(* the wait is never slept through.                                         *)
NotSleptThrough ==
  \A r \in Readers : pc[r] = "wait" =>
     owner = r /\ recvwaiting /\ recvsem = -1 /\ rxie /\ head = tail

(* The receive interrupt is disabled only while a reader retests the ring:  *)
(* no path out of uart_read leaves the console deaf.                        *)
NeverDeaf ==
  ~rxie => owner # "none" /\ pc[owner] = "retest"

In == INSTANCE LossyFifo WITH
  Values <- Bytes, Capacity <- Size - 1, arriving <- rdr, queue <- Queued

(* What readers get is what was typed, in order and without repetition.  A  *)
(* byte may be lost while it is in the data register (ring full, overrun,   *)
(* error cleared with the interrupt disabled); a byte once in the ring is   *)
(* delivered, although uart_read moves the tail without a lock against the  *)
(* interrupt.                                                               *)
IsLossyFifo == In!Spec

(* A waiting reader returns once a byte has arrived. *)
ReadReturns ==
  \A r \in Readers : (pc[r] = "wait" /\ rdr # "none") ~> (pc[r] = "idle")
=============================================================================
