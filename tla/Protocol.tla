------------------------------ MODULE Protocol ------------------------------
(***************************************************************************)
(* create_server of apps/examples/dogfeed/server.c: the sockets, the one   *)
(* recv per connection, and the scanner that turns the received bytes into *)
(* commands.  Carrying out a command, the tests of dog_cmd, is module      *)
(* DogServer; here it is one step that records the command in executed.    *)
(* A definition just above another one and named after a slip is a wrong   *)
(* variant that no specification uses (see DogFeed).                       *)
(***************************************************************************)
EXTENDS Integers, Sequences, SequencesExt

CONSTANTS
  Messages,      \* byte sequences a client may send over one connection
  RXBUFFER_SIZE  \* 128

Letters == {"A", "B", "C", "D", "E", "F", "G", "H", "I"}
Digits  == {"0", "1", "2", "3", "4", "5", "6", "7", "8", "9"}
Figures == Digits \cup {"?"}    \* what the scanner takes as an argument byte

ASSUME MessageAssumption ==
  /\ RXBUFFER_SIZE \in Nat \ {0}
  /\ \A m \in Messages : m \in Seq(STRING) /\ m # <<>>

VARIABLES
  at,           \* where create_server is
  sockets,      \* its open descriptors
  sent,         \* what the client of this connection sends
  ret,          \* how many bytes of it the recv returned (mybuffer)
  i,            \* next byte of mybuffer to look at, from 1
  dog_cmd,      \* command letter waiting for its figures, "none" for 0
  first_digit, value,
  executed      \* the commands carried out for this connection

scanner == <<i, dog_cmd, first_digit, value>>
vars    == <<at, sockets, sent, ret, scanner, executed>>

Setup == {"socket", "setsockopt", "bind", "listen"}

-----------------------------------------------------------------------------
Digit(c) ==
  CASE c = "0" -> 0 [] c = "1" -> 1 [] c = "2" -> 2 [] c = "3" -> 3
    [] c = "4" -> 4 [] c = "5" -> 5 [] c = "6" -> 6 [] c = "7" -> 7
    [] c = "8" -> 8 [] c = "9" -> 9

(* atoi of the two collected bytes: it stops at the first '?'.             *)
atoi(v) == IF v[1] \notin Digits THEN 0
           ELSE IF v[2] \notin Digits THEN Digit(v[1])
           ELSE 10 * Digit(v[1]) + Digit(v[2])

NoValue == <<"", "">>    \* value[] before it is written

Init ==
  /\ at = "socket" /\ sockets = {}
  /\ sent = <<>> /\ ret = 0
  /\ i = 1 /\ dog_cmd = "none" /\ first_digit = TRUE /\ value = NoValue
  /\ executed = <<>>

-----------------------------------------------------------------------------
(* Sockets *)

Socket ==
  /\ at = "socket"
  /\ \/ at' = "setsockopt" /\ sockets' = {"listensd"}
     \/ at' = "exit" /\ UNCHANGED sockets
  /\ UNCHANGED <<sent, ret, scanner, executed>>

(* setsockopt, bind and listen; a failure goes to errout_with_socket.      *)
Configure ==
  /\ at \in Setup \ {"socket"}
  /\ \/ at' = CASE at = "setsockopt" -> "bind"
                [] at = "bind"       -> "listen"
                [] at = "listen"     -> "accept"
     \/ at' = "errout"
  /\ UNCHANGED <<sockets, sent, ret, scanner, executed>>

(* accept, then connected = 1; its failure ends the server as well.        *)
Accept ==
  /\ at = "accept"
  /\ \/ at' = "recv" /\ sockets' = sockets \cup {"acceptsd"}
     \/ at' = "errout" /\ UNCHANGED sockets
  /\ UNCHANGED <<sent, ret, scanner, executed>>

(* The only recv of the connection: some beginning of what the client      *)
(* sends, as the network delivered it and as far as mybuffer holds it.     *)
Recv ==
  /\ at = "recv"
  /\ \E m \in Messages : \E n \in 1 .. Len(m) :
       /\ n <= RXBUFFER_SIZE
       /\ sent' = m /\ ret' = n
  /\ at' = "scan"
  /\ UNCHANGED <<sockets, scanner, executed>>

(* recv returns 0 (the client closed) or an error.                         *)
RecvNothing ==
  /\ at = "recv"
  /\ at' = "close"
  /\ UNCHANGED <<sockets, sent, ret, scanner, executed>>

(* close(acceptsd), usleep, and out of while(connected): back to accept.   *)
(* The variables of the connection end with it.                            *)
Open(fds) == fds

Closed(fds) == fds \ {"acceptsd"}

Close ==
  /\ at = "close"
  /\ sockets' = Closed(sockets)
  /\ sent' = <<>> /\ ret' = 0 /\ executed' = <<>>
  /\ i' = 1 /\ dog_cmd' = "none" /\ first_digit' = TRUE /\ value' = NoValue
  /\ at' = "accept"

Errout ==
  /\ at = "errout"
  /\ sockets' = sockets \ {"listensd"}
  /\ at' = "exit"
  /\ UNCHANGED <<sent, ret, scanner, executed>>

-----------------------------------------------------------------------------
(* Scanner: one step per received byte *)

byte == sent[i]

StuckAt(n) == n

NextByte(n) == n + 1

ScanLetter ==
  /\ at = "scan" /\ i <= ret /\ byte \in Letters
  /\ dog_cmd' = byte    \* first_digit keeps its value
  /\ i' = NextByte(i)
  /\ UNCHANGED <<at, sockets, sent, ret, first_digit, value, executed>>

(* A figure without a letter: continue.                                    *)
ScanStray ==
  /\ at = "scan" /\ i <= ret /\ byte \in Figures /\ dog_cmd = "none"
  /\ i' = NextByte(i)
  /\ UNCHANGED <<at, sockets, sent, ret, dog_cmd, first_digit, value,
                 executed>>

ScanFirst ==
  /\ at = "scan" /\ i <= ret /\ byte \in Figures /\ dog_cmd # "none"
  /\ first_digit
  /\ value' = [value EXCEPT ![1] = byte]
  /\ first_digit' = FALSE
  /\ i' = NextByte(i)
  /\ UNCHANGED <<at, sockets, sent, ret, dog_cmd, executed>>

(* The second figure completes the command, which is carried out.          *)
NoReset == FALSE

Reset == TRUE

ScanSecond ==
  /\ at = "scan" /\ i <= ret /\ byte \in Figures /\ dog_cmd # "none"
  /\ ~first_digit
  /\ value' = [value EXCEPT ![2] = byte]
  /\ executed' = Append(executed, <<dog_cmd, atoi(value')>>)
  /\ dog_cmd' = "none" /\ first_digit' = Reset
  /\ i' = NextByte(i)
  /\ UNCHANGED <<at, sockets, sent, ret>>

(* Any other byte only forgets the letter.                                 *)
ScanOther ==
  /\ at = "scan" /\ i <= ret /\ byte \notin Letters \cup Figures
  /\ dog_cmd' = "none"    \* first_digit keeps its value
  /\ i' = NextByte(i)
  /\ UNCHANGED <<at, sockets, sent, ret, first_digit, value, executed>>

ScanEnd ==
  /\ at = "scan" /\ i > ret
  /\ at' = "close"
  /\ UNCHANGED <<sockets, sent, ret, scanner, executed>>

Scan == ScanLetter \/ ScanStray \/ ScanFirst \/ ScanSecond \/ ScanOther
          \/ ScanEnd

Next == Socket \/ Configure \/ Accept \/ Recv \/ RecvNothing \/ Scan \/ Close
          \/ Errout

(* The server goes on by itself once it has its bytes.  Nobody has to      *)
(* connect, and a client that has connected need not send: accept and recv *)
(* have no timeout.                                                        *)
Spec == Init /\ [][Next]_vars /\ WF_vars(Scan \/ Close)

-----------------------------------------------------------------------------
(* The protocol of the comment at the head of server.c: a command is a      *)
(* letter and the two bytes after it.  Framed(s) is the commands of s read  *)
(* that way.                                                                *)
Complete(s, k) ==
  /\ s[k] \in Letters
  /\ k + 2 <= Len(s) /\ s[k + 1] \in Figures /\ s[k + 2] \in Figures

Starts(s) == {k \in 1 .. Len(s) : Complete(s, k)}

(* The member of a set of numbers that has n members up to itself.          *)
Nth(T, n) == Min({k \in T : Cardinality({j \in T : j <= k}) = n})

CommandAt(s, k) == <<s[k], atoi(<<s[k + 1], s[k + 2]>>)>>

(* The commands of s that begin at the places T, in order.                  *)
CommandsAt(s, T) == [n \in 1 .. Cardinality(T) |-> CommandAt(s, Nth(T, n))]

Framed(s) == CommandsAt(s, Starts(s))

(* Every letter of s begins a complete command.                             *)
WellFormed(s) == \A k \in 1 .. Len(s) : s[k] \in Letters => Complete(s, k)

(* A client that sends only complete commands gets exactly those carried    *)
(* out, each with its own value and in order, whatever bytes stand between  *)
(* them; when the recv returns only a beginning, exactly the commands that  *)
(* are complete in it: a cut command is dropped, never misread.             *)
WellFormedExact ==
  (at = "close" /\ ret > 0 /\ WellFormed(sent)) =>
     /\ executed = Framed(SubSeq(sent, 1, ret))
     /\ IsPrefix(executed, Framed(sent))

(* Every descriptor is closed again: one socket while waiting for a client, *)
(* none after the server has ended, whichever call failed.                  *)
SocketsClosed ==
  /\ at = "accept" => sockets = {"listensd"}
  /\ at = "exit"   => sockets = {}

(* Once it has bytes the server gets back to accept.                        *)
ConnectionEnds == (at = "scan") ~> (at = "accept")

(* The head of server.c without restriction on the input: "AXX (65 XX XX)   *)
(* -> Set Food Percentage", a letter takes the two bytes after it.          *)
FramingExact ==
  (at = "close" /\ ret > 0) => executed = Framed(SubSeq(sent, 1, ret))
=============================================================================
