--------------------------- MODULE ProtocolProofs ---------------------------
(***************************************************************************)
(* Proofs about Protocol, for all messages and every size of the buffer.   *)
(***************************************************************************)
EXTENDS Protocol, FiniteSetTheorems, SequenceTheorems, TLAPS

(* The open descriptors at each point of create_server.                    *)
SocketsInv ==
  /\ at \in Setup \cup {"accept", "recv", "scan", "close", "errout", "exit"}
  /\ at \in {"socket", "exit"} => sockets = {}
  /\ at \in {"setsockopt", "bind", "listen", "accept", "errout"} =>
       sockets = {"listensd"}
  /\ at \in {"recv", "scan", "close"} => sockets = {"listensd", "acceptsd"}

(* What the scanner carries out is what module DogServer takes as its      *)
(* Commands: a letter of the protocol and a value of two decimal digits.   *)
CommandsValid == executed \in Seq(Letters \X (0 .. 99))

(* The scanner reads only what the recv returned, and value[0] was written *)
(* on this connection when the second figure comes.                        *)
ScannerInv ==
  /\ CommandsValid
  /\ dog_cmd \in Letters \cup {"none"} /\ first_digit \in BOOLEAN
  /\ DOMAIN value = 1 .. 2
  /\ ~first_digit => value[1] \in Figures
  /\ i \in 1 .. ret + 1 /\ ret \in 0 .. RXBUFFER_SIZE /\ ret <= Len(sent)
  /\ sent \in Seq(STRING)
  /\ at \notin {"scan", "close"} => i = 1 /\ ret = 0

-----------------------------------------------------------------------------
(* atoi of two figures has at most two digits.                             *)
LEMMA AtoiRange ==
  ASSUME NEW v, v[1] \in Figures, v[2] \in Figures
  PROVE  atoi(v) \in 0 .. 99
<1>1. \A c \in Digits : Digit(c) \in 0 .. 9
  BY DEF Digits, Digit
<1>2. CASE v[1] \notin Digits
  BY <1>2 DEF atoi
<1>3. CASE v[1] \in Digits /\ v[2] \notin Digits
  BY <1>1, <1>3 DEF atoi
<1>4. CASE v[1] \in Digits /\ v[2] \in Digits
  <2>1. Digit(v[1]) \in 0 .. 9 /\ Digit(v[2]) \in 0 .. 9
    BY <1>1, <1>4
  <2>2. atoi(v) = 10 * Digit(v[1]) + Digit(v[2])
    BY <1>4 DEF atoi
  <2> QED
    BY <2>1, <2>2
<1> QED
  BY <1>2, <1>3, <1>4

(* Before the first byte of a connection there is nothing to be wrong.     *)
LEMMA Fresh ==
  /\ DOMAIN NoValue = 1 .. 2
  /\ << >> \in Seq(Letters \X (0 .. 99)) /\ << >> \in Seq(STRING)
  /\ Len(<< >>) = 0 /\ 0 \in 0 .. RXBUFFER_SIZE
<1>1. DOMAIN NoValue = 1 .. 2
  BY DEF NoValue
<1>2. << >> \in Seq(Letters \X (0 .. 99)) /\ << >> \in Seq(STRING)
  OBVIOUS
<1>3. Len(<< >>) = 0 /\ 0 \in 0 .. RXBUFFER_SIZE
  BY MessageAssumption
<1> QED
  BY <1>1, <1>2, <1>3

(* Every socket call, failed or not, keeps the account of what is open.    *)
LEMMA SocketsKept == SocketsInv /\ [Next]_vars => SocketsInv'
<1> SUFFICES ASSUME SocketsInv, [Next]_vars PROVE SocketsInv'
  OBVIOUS
<1>1. CASE Socket \/ Configure \/ Accept
  BY <1>1 DEF SocketsInv, Socket, Configure, Accept, Setup
<1>2. CASE Recv \/ RecvNothing
  BY <1>2 DEF SocketsInv, Recv, RecvNothing, Setup
<1>3. CASE Scan
  BY <1>3 DEF SocketsInv, Scan, ScanLetter, ScanStray, ScanFirst, ScanSecond,
     ScanOther, ScanEnd, Setup
<1>4. CASE Close \/ Errout
  BY <1>4 DEF SocketsInv, Close, Closed, Errout, Setup
<1>5. CASE UNCHANGED vars
  BY <1>5 DEF SocketsInv, vars
<1> QED
  BY <1>1, <1>2, <1>3, <1>4, <1>5 DEF Next

(* Every descriptor is closed again (SocketsClosed).                       *)
THEOREM SocketsSafe == Spec => []SocketsClosed
<1>1. Init => SocketsInv
  BY DEF Init, SocketsInv, Setup
<1>2. SocketsInv => SocketsClosed
  BY DEF SocketsInv, SocketsClosed
<1> QED
  BY <1>1, <1>2, SocketsKept, PTL DEF Spec

-----------------------------------------------------------------------------
(* Every byte scanned keeps what is collected well-formed.                 *)
LEMMA ScanKeeps == ScannerInv /\ Scan => ScannerInv'
<1> SUFFICES ASSUME ScannerInv, Scan PROVE ScannerInv'
  OBVIOUS
<1>1. i \in Nat /\ ret \in Nat
  BY MessageAssumption DEF ScannerInv
<1>2. CASE ScanLetter \/ ScanStray \/ ScanOther
  BY <1>1, <1>2
  DEF ScannerInv, CommandsValid, ScanLetter, ScanStray, ScanOther, NextByte
<1>3. CASE ScanFirst
  <2>1. first_digit' \in BOOLEAN
    BY <1>3, Zenon DEF ScanFirst
  <2>2. DOMAIN value' = 1 .. 2 /\ value'[1] \in Figures
    BY <1>3 DEF ScannerInv, ScanFirst
  <2> QED
    BY <1>1, <1>3, <2>1, <2>2 DEF ScannerInv, CommandsValid, ScanFirst, NextByte
<1>4. CASE ScanSecond
  <2>1. first_digit' \in BOOLEAN /\ first_digit'
    BY <1>4, Zenon DEF ScanSecond, Reset
  <2>2. /\ DOMAIN value' = 1 .. 2
        /\ value'[1] \in Figures /\ value'[2] \in Figures
    BY <1>4 DEF ScannerInv, ScanSecond
  <2>3. <<dog_cmd, atoi(value')>> \in Letters \X (0 .. 99)
    BY <1>4, <2>2, AtoiRange, Zenon DEF ScannerInv, ScanSecond
  <2>4. CommandsValid'
    BY <1>4, <2>3 DEF ScannerInv, CommandsValid, ScanSecond
  <2> QED
    BY <1>1, <1>4, <2>1, <2>2, <2>4 DEF ScannerInv, ScanSecond, NextByte
<1>5. CASE ScanEnd
  BY <1>5 DEF ScannerInv, CommandsValid, ScanEnd, scanner
<1> QED
  BY <1>2, <1>3, <1>4, <1>5 DEF Scan

(* The scanner starts well-formed.                                         *)
LEMMA ScannerInit == Init => ScannerInv
<1> SUFFICES ASSUME Init PROVE ScannerInv
  OBVIOUS
<1>1. first_digit /\ first_digit \in BOOLEAN
  BY Zenon DEF Init
<1> QED
  BY <1>1, Fresh DEF Init, ScannerInv, CommandsValid

(* Every step of the server keeps it so.                                   *)
LEMMA ScannerKept == ScannerInv /\ [Next]_vars => ScannerInv'
<1> SUFFICES ASSUME ScannerInv, [Next]_vars PROVE ScannerInv'
  OBVIOUS
<1>1. CASE Socket \/ Configure \/ Accept \/ RecvNothing \/ Errout
  BY <1>1 DEF ScannerInv, CommandsValid, Socket, Configure, Accept,
     RecvNothing, Errout, Setup, scanner
<1>2. CASE Recv
  BY <1>2, MessageAssumption DEF ScannerInv, CommandsValid, Recv, scanner
<1>3. CASE Close
  <2>1. first_digit' /\ first_digit' \in BOOLEAN
    BY <1>3, Zenon DEF Close
  <2> QED
    BY <1>3, <2>1, Fresh DEF Close, ScannerInv, CommandsValid
<1>4. CASE UNCHANGED vars
  BY <1>4 DEF ScannerInv, CommandsValid, vars, scanner
<1> QED
  BY <1>1, <1>2, <1>3, <1>4, ScanKeeps DEF Next

(* Every command handed to the tests of dog_cmd has a known letter and a   *)
(* value below 100, which is what module DogServer assumes of Commands.    *)
THEOREM CommandsSafe == Spec => []CommandsValid
<1>1. ScannerInv => CommandsValid
  BY DEF ScannerInv
<1> QED
  BY <1>1, ScannerInit, ScannerKept, PTL DEF Spec

-----------------------------------------------------------------------------
(* The commands of a message. *)

(* The members of T that have n members of T up to themselves.             *)
Rank(T, n) == {k \in T : Cardinality({j \in T : j <= k}) = n}

(* The complete commands among the first m bytes.                          *)
Read(s, m) == {k \in Starts(s) : k + 2 <= m}

(* A set of numbers grows by a new largest one.                            *)
LEMMA RankGrows ==
  ASSUME NEW T, T \subseteq Nat, IsFiniteSet(T), NEW x \in Nat, \A k \in T : k < x
  PROVE  /\ Cardinality(T) \in Nat
         /\ IsFiniteSet(T \cup {x}) /\ Cardinality(T \cup {x}) = Cardinality(T) + 1
         /\ \A n \in 1 .. Cardinality(T) : Rank(T \cup {x}, n) = Rank(T, n)
         /\ Rank(T \cup {x}, Cardinality(T) + 1) = {x}
<1> DEFINE U == T \cup {x}
           Upto(S, k) == {j \in S : j <= k}
           c == Cardinality(T)
<1>1. x \notin T /\ c \in Nat /\ IsFiniteSet(U) /\ Cardinality(U) = c + 1
  BY FS_CardinalityType, FS_AddElement
<1>2. ASSUME NEW k \in T
      PROVE  Cardinality(Upto(U, k)) = Cardinality(Upto(T, k)) /\ Cardinality(Upto(T, k)) <= c
             /\ Cardinality(Upto(T, k)) \in Nat
  <2>1. Upto(U, k) = Upto(T, k)
    OBVIOUS
  <2>2. Upto(T, k) \subseteq T
    OBVIOUS
  <2> HIDE DEF Upto
  <2>3. Cardinality(Upto(T, k)) <= c /\ IsFiniteSet(Upto(T, k))
    BY <2>2, FS_Subset
  <2>4. Cardinality(Upto(T, k)) \in Nat
    BY <2>3, FS_CardinalityType
  <2> QED
    BY <2>1, <2>3, <2>4
<1>3. Cardinality(Upto(U, x)) = c + 1
  <2>1. Upto(U, x) = U
    <3>1. \A j \in U : j <= x
      OBVIOUS
    <3> QED
      BY <3>1, Zenon
  <2> HIDE DEF Upto, U
  <2> QED
    BY <1>1, <2>1
<1> HIDE DEF c
<1>4. \A n \in 1 .. c : Rank(U, n) = Rank(T, n)
  <2> SUFFICES ASSUME NEW n \in 1 .. c PROVE Rank(U, n) = Rank(T, n)
    OBVIOUS
  <2>1. Rank(U, n) = {k \in U : Cardinality(Upto(U, k)) = n}
    BY DEF Rank
  <2>2. Rank(T, n) = {k \in T : Cardinality(Upto(T, k)) = n}
    BY DEF Rank
  <2> HIDE DEF Upto
  <2>3. Cardinality(Upto(U, x)) # n
    BY <1>1, <1>3
  <2> QED
    BY <1>2, <2>1, <2>2, <2>3, Zenon
<1>5. Rank(U, c + 1) = {x}
  <2>1. Rank(U, c + 1) = {k \in U : Cardinality(Upto(U, k)) = c + 1}
    BY DEF Rank
  <2> HIDE DEF Upto
  <2>2. \A k \in T : Cardinality(Upto(U, k)) # c + 1
    BY <1>1, <1>2
  <2> QED
    BY <1>3, <2>1, <2>2, Zenon
<1> QED
  BY <1>1, <1>4, <1>5 DEF c

(* A new last command is appended.                                         *)
LEMMA CommandAdded ==
  ASSUME NEW s, NEW T, T \subseteq Nat, IsFiniteSet(T), NEW x \in Nat, \A k \in T : k < x
  PROVE  CommandsAt(s, T \cup {x}) = Append(CommandsAt(s, T), CommandAt(s, x))
<1> DEFINE U == T \cup {x}
           c == Cardinality(T)
           old == CommandsAt(s, T)
           new == CommandsAt(s, U)
<1>1. /\ c \in Nat /\ Cardinality(U) = c + 1
      /\ \A n \in 1 .. c : Rank(U, n) = Rank(T, n)
      /\ Rank(U, c + 1) = {x}
  BY RankGrows, Zenon
<1>2. Min({x}) = x
  BY DEF Min
<1>3. \A n \in 1 .. c : Nth(U, n) = Nth(T, n)
  <2>1. \A n : Nth(U, n) = Min(Rank(U, n)) /\ Nth(T, n) = Min(Rank(T, n))
    BY DEF Nth, Rank
  <2> QED
    BY <1>1, <2>1
<1>4. Nth(U, c + 1) = x
  <2>1. Nth(U, c + 1) = Min(Rank(U, c + 1))
    BY DEF Nth, Rank
  <2> QED
    BY <1>1, <1>2, <2>1
<1>5. new = [n \in 1 .. (c + 1) |-> CommandAt(s, Nth(U, n))]
  BY <1>1 DEF CommandsAt
<1>6. old = [n \in 1 .. c |-> CommandAt(s, Nth(T, n))]
  BY DEF CommandsAt
<1> HIDE DEF new, old, U, c
<1>7. Len(old) = c /\ DOMAIN old = 1 .. c
  BY <1>1, <1>6
<1> DEFINE app == Append(old, CommandAt(s, x))
<1>8. app = [n \in 1 .. (c + 1) |-> IF n = c + 1 THEN CommandAt(s, x) ELSE old[n]]
  <2> DEFINE S == {old[n] : n \in 1 .. c} \cup {CommandAt(s, x)}
             e == CommandAt(s, x)
  <2>1. e \in S /\ old \in [1 .. c -> S]
    BY <1>6, <1>7
  <2> HIDE DEF S, e
  <2>2. old \in Seq(S)
    BY <1>1, <2>1, SeqDef
  <2>3. Append(old, e) = [n \in 1 .. (c + 1) |-> IF n = c + 1 THEN e ELSE old[n]]
    <3>1. /\ Append(old, e) \in Seq(S) /\ Len(Append(old, e)) = c + 1
          /\ \A n \in 1 .. c : Append(old, e)[n] = old[n]
          /\ Append(old, e)[c + 1] = e
      BY <1>7, <2>1, <2>2, AppendProperties
    <3> DEFINE longer == Append(old, e)
    <3>2. longer \in [1 .. (c + 1) -> S]
      BY <3>1, LenProperties, Zenon
    <3> HIDE DEF longer
    <3>3. \A n \in 1 .. (c + 1) : longer[n] = IF n = c + 1 THEN e ELSE old[n]
      BY <1>1, <3>1 DEF longer
    <3>4. longer = [n \in 1 .. (c + 1) |-> IF n = c + 1 THEN e ELSE old[n]]
      BY ONLY <3>2, <3>3
    <3> QED
      BY <3>4 DEF longer
  <2> QED
    BY <2>3 DEF e
<1>9. \A n \in 1 .. (c + 1) : app[n] = new[n]
  <2> SUFFICES ASSUME NEW n \in 1 .. (c + 1) PROVE app[n] = new[n]
    BY Zenon
  <2>1. CASE n = c + 1
    BY <1>4, <1>5, <1>8, <2>1
  <2>2. CASE n # c + 1
    <3>1. n \in 1 .. c
      BY <1>1, <2>2
    <3> QED
      BY <1>3, <1>5, <1>6, <1>8, <2>2, <3>1, Zenon
  <2> QED
    BY <2>1, <2>2, Zenon
<1>10. new = app
  BY <1>5, <1>8, <1>9
<1> QED
  BY <1>10, Zenon DEF new, old, U

(* The members of a set that grows stay where they are.                    *)
LEMMA NthKept ==
  ASSUME NEW T, T \subseteq Nat, IsFiniteSet(T), NEW x \in Nat, \A k \in T : k < x,
         \A n \in 1 .. Cardinality(T) : Nth(T, n) \in T
  PROVE  \A n \in 1 .. Cardinality(T \cup {x}) : Nth(T \cup {x}, n) \in T \cup {x}
<1> DEFINE U == T \cup {x}
           c == Cardinality(T)
<1>1. /\ c \in Nat /\ Cardinality(U) = c + 1
      /\ \A n \in 1 .. c : Rank(U, n) = Rank(T, n)
      /\ Rank(U, c + 1) = {x}
  BY RankGrows, Zenon
<1>2. Min({x}) = x
  BY DEF Min
<1>3. \A n : Nth(U, n) = Min(Rank(U, n)) /\ Nth(T, n) = Min(Rank(T, n))
  BY DEF Nth, Rank
<1>4. T \subseteq U /\ x \in U
  OBVIOUS
<1> HIDE DEF U, c
<1>5. ASSUME NEW n \in 1 .. (c + 1) PROVE Nth(U, n) \in U
  <2>1. CASE n = c + 1
    BY <1>1, <1>2, <1>3, <1>4, <2>1
  <2>2. CASE n # c + 1
    <3>1. n \in 1 .. c
      BY <1>1, <2>2
    <3> QED
      BY <1>1, <1>3, <1>4, <3>1, Zenon DEF c
  <2> QED
    BY <2>1, <2>2
<1> QED
  BY <1>1, <1>5 DEF U

(* The commands among the first bytes are finitely many.                   *)
LEMMA ReadFinite ==
  ASSUME NEW s \in Seq(STRING), NEW m \in Nat
  PROVE  /\ Starts(s) \subseteq Nat /\ IsFiniteSet(Starts(s))
         /\ Read(s, m) \subseteq Nat /\ IsFiniteSet(Read(s, m))
<1>1. IsFiniteSet(1 .. Len(s)) /\ Len(s) \in Nat
  BY LenProperties, FS_Interval
<1>2. Starts(s) \subseteq 1 .. Len(s) /\ Read(s, m) \subseteq 1 .. Len(s)
  BY DEF Starts, Read
<1> QED
  BY <1>1, <1>2, FS_Subset

(* The next byte completes at most one command.                            *)
LEMMA ReadGrows ==
  ASSUME NEW s \in Seq(STRING), NEW m \in Nat
  PROVE  /\ m - 1 \notin Starts(s) => Read(s, m + 1) = Read(s, m)
         /\ m - 1 \in Starts(s) =>
              /\ Read(s, m + 1) = Read(s, m) \cup {m - 1}
              /\ m - 1 \in Nat /\ \A k \in Read(s, m) : k < m - 1
<1>1. \A k \in Starts(s) : k \in Nat
  BY ReadFinite
<1>2. \A k \in Starts(s) : k + 2 <= m + 1 <=> (k + 2 <= m \/ k = m - 1)
  BY <1>1
<1> QED
  BY <1>1, <1>2 DEF Read

(* A beginning of a message holds the commands complete in it.             *)
LEMMA StartsCut ==
  ASSUME NEW s \in Seq(STRING), NEW m \in 0 .. Len(s)
  PROVE  /\ Starts(SubSeq(s, 1, m)) = Read(s, m)
         /\ \A k \in Read(s, m) : CommandAt(SubSeq(s, 1, m), k) = CommandAt(s, k)
<1> DEFINE cut == SubSeq(s, 1, m)
<1>1. Len(s) \in Nat
  BY LenProperties
<1>2. Len(cut) = m /\ \A k \in 1 .. m : cut[k] = s[k]
  BY <1>1
<1> HIDE DEF cut
<1>3. ASSUME NEW k \in 1 .. Len(s), k + 2 <= m
      PROVE  /\ k \in 1 .. m /\ cut[k] = s[k] /\ cut[k + 1] = s[k + 1] /\ cut[k + 2] = s[k + 2]
  <2>1. k \in 1 .. m /\ k + 1 \in 1 .. m /\ k + 2 \in 1 .. m
    BY <1>1, <1>3
  <2> QED
    BY <1>2, <2>1
<1>4. \A k \in 1 .. m : k \in 1 .. Len(s) /\ (k + 2 <= m => k + 2 <= Len(s))
  BY <1>1
<1>5. Starts(cut) = Read(s, m)
  BY <1>1, <1>2, <1>3, <1>4, Zenon DEF Starts, Read, Complete
<1>6. \A k \in Read(s, m) : CommandAt(cut, k) = CommandAt(s, k)
  BY <1>3 DEF Read, Starts, CommandAt
<1> QED
  BY <1>5, <1>6 DEF cut

(* What is read of a message is the beginning of its commands.             *)
LEMMA ReadPrefix ==
  ASSUME NEW s \in Seq(STRING), NEW m \in Nat
  PROVE  IsPrefix(CommandsAt(s, Read(s, m)), Framed(s))
<1> DEFINE T == Read(s, m)
           V == Starts(s)
           c == Cardinality(T)
           d == Cardinality(V)
           a == CommandsAt(s, T)
           b == CommandsAt(s, V)
<1>1. T \subseteq V /\ V \subseteq Nat /\ IsFiniteSet(V) /\ IsFiniteSet(T)
  BY ReadFinite, Zenon DEF Read
<1>2. c \in Nat /\ d \in Nat /\ c <= d
  BY <1>1, FS_CardinalityType, FS_Subset
<1> DEFINE Upto(S, k) == {j \in S : j <= k}
<1>3. ASSUME NEW k \in T PROVE Upto(V, k) = Upto(T, k)
  BY <1>1 DEF Read
<1>4. ASSUME NEW k \in V, k \notin T
      PROVE  Cardinality(Upto(V, k)) > c
  <2>1. T \cup {k} \subseteq Upto(V, k) /\ Upto(V, k) \subseteq V
    BY <1>1, <1>4 DEF Read
  <2>2. Cardinality(T \cup {k}) = c + 1
    BY <1>1, <1>4, FS_AddElement, Zenon
  <2> HIDE DEF Upto, T, V
  <2>3. IsFiniteSet(Upto(V, k))
    BY <1>1, <2>1, FS_Subset
  <2>4. Cardinality(T \cup {k}) <= Cardinality(Upto(V, k)) /\ Cardinality(Upto(V, k)) \in Nat
    BY <2>1, <2>3, FS_Subset, FS_CardinalityType
  <2> QED
    BY <1>2, <2>2, <2>4
<1>5. \A n \in 1 .. c : Rank(V, n) = Rank(T, n)
  <2> SUFFICES ASSUME NEW n \in 1 .. c PROVE Rank(V, n) = Rank(T, n)
    OBVIOUS
  <2>1. Rank(V, n) = {k \in V : Cardinality(Upto(V, k)) = n}
    BY DEF Rank
  <2>2. Rank(T, n) = {k \in T : Cardinality(Upto(T, k)) = n}
    BY DEF Rank
  <2> HIDE DEF Upto, T, V
  <2>3. \A k \in V : k \notin T => Cardinality(Upto(V, k)) # n
    BY <1>2, <1>4
  <2>4. \A k \in T : Cardinality(Upto(V, k)) = Cardinality(Upto(T, k))
    BY <1>3
  <2> QED
    BY <1>1, <2>1, <2>2, <2>3, <2>4, Zenon
<1>6. \A n \in 1 .. c : Nth(V, n) = Nth(T, n)
  <2>1. \A n : Nth(V, n) = Min(Rank(V, n)) /\ Nth(T, n) = Min(Rank(T, n))
    BY DEF Nth, Rank
  <2> QED
    BY <1>5, <2>1
<1>7. /\ a = [n \in 1 .. c |-> CommandAt(s, Nth(T, n))]
      /\ b = [n \in 1 .. d |-> CommandAt(s, Nth(V, n))]
  BY DEF CommandsAt
<1> HIDE DEF a, b, c, d, T, V
<1>8. \A n \in 1 .. c : n \in 1 .. d /\ a[n] = b[n]
  BY <1>2, <1>6, <1>7
<1> DEFINE S == {a[n] : n \in 1 .. c} \cup {b[n] : n \in 1 .. d}
<1>9. a \in [1 .. c -> S] /\ b \in [1 .. d -> S]
  BY <1>7
<1> HIDE DEF S
<1>10. a \in Seq(S) /\ Len(a) = c /\ b \in Seq(S) /\ Len(b) = d
  BY <1>2, <1>9, SeqDef, LenProperties
<1>11. SubSeq(a, 1, c) = SubSeq(b, 1, c)
  BY <1>2, <1>8, <1>9, <1>10
<1>12. IsPrefix(a, b)
  BY <1>2, <1>10, <1>11 DEF IsPrefix
<1> QED
  BY <1>12 DEF a, b, T, V, Framed

(* The scanner within a message in which every letter begins a complete    *)
(* command: it has carried out the commands whose last byte it has seen,   *)
(* and what it has collected is the part seen of the next one.             *)
ReadsExact ==
  LET T == Read(sent, i - 1) IN
    /\ executed = CommandsAt(sent, T)
    /\ \A n \in 1 .. Cardinality(T) : Nth(T, n) \in T
    /\ (dog_cmd # "none" /\ first_digit) => i > 1 /\ sent[i - 1] = dog_cmd
    /\ (dog_cmd # "none" /\ ~first_digit) =>
         i > 2 /\ sent[i - 2] = dog_cmd /\ value[1] = sent[i - 1]
    /\ dog_cmd = "none" =>
         /\ first_digit
         /\ i > 1 => sent[i - 1] \notin Letters
         /\ i > 2 => sent[i - 2] \notin Letters

ReadInv ==
  /\ ScannerInv
  /\ WellFormed(sent) => ReadsExact
  /\ (at = "close" /\ ret > 0) => i = ret + 1
  /\ at \notin {"scan", "close"} =>
       sent = <<>> /\ executed = <<>> /\ dog_cmd = "none" /\ first_digit

(* No byte is both a letter and a figure.                                  *)
LEMMA Apart == Letters \cap Figures = {} /\ "none" \notin Letters
<1>1. Letters \cap Figures = {}
  BY DEF Letters, Figures, Digits
<1>2. "none" \notin Letters
  BY DEF Letters
<1> QED
  BY <1>1, <1>2

(* A byte that completes no command: nothing more is carried out.          *)
LEMMA NoneRead ==
  ASSUME ReadsExact, ScannerInv, i - 2 \notin Starts(sent),
         sent' = sent, executed' = executed, i' = i + 1
  PROVE  /\ executed' = CommandsAt(sent', Read(sent', i' - 1))
         /\ \A n \in 1 .. Cardinality(Read(sent', i' - 1)) :
              Nth(Read(sent', i' - 1), n) \in Read(sent', i' - 1)
<1>1. i - 1 \in Nat /\ i' - 1 = (i - 1) + 1 /\ (i - 1) - 1 = i - 2
  BY MessageAssumption DEF ScannerInv
<1>2. Read(sent', i' - 1) = Read(sent, i - 1)
  BY <1>1, ReadGrows DEF ScannerInv
<1> QED
  BY <1>2 DEF ReadsExact

(* The byte that completes a command: that command is carried out.         *)
LEMMA OneRead ==
  ASSUME ReadsExact, ScannerInv, i - 2 \in Starts(sent),
         sent' = sent, executed' = Append(executed, CommandAt(sent, i - 2)),
         i' = i + 1
  PROVE  /\ executed' = CommandsAt(sent', Read(sent', i' - 1))
         /\ \A n \in 1 .. Cardinality(Read(sent', i' - 1)) :
              Nth(Read(sent', i' - 1), n) \in Read(sent', i' - 1)
<1> DEFINE T == Read(sent, i - 1)
           x == i - 2
<1>1. /\ i - 1 \in Nat /\ i' - 1 = (i - 1) + 1 /\ (i - 1) - 1 = x
      /\ sent \in Seq(STRING)
  BY MessageAssumption DEF ScannerInv
<1>2. Read(sent', i' - 1) = T \cup {x} /\ x \in Nat /\ \A k \in T : k < x
  <2> DEFINE m == i - 1
  <2>1. m \in Nat /\ m - 1 = x /\ i' - 1 = m + 1 /\ m - 1 \in Starts(sent)
    BY <1>1
  <2> HIDE DEF m
  <2>2. /\ Read(sent, m + 1) = Read(sent, m) \cup {m - 1}
        /\ m - 1 \in Nat /\ \A k \in Read(sent, m) : k < m - 1
    BY <1>1, <2>1, ReadGrows, Zenon
  <2>3. T = Read(sent, m)
    BY DEF m
  <2> QED
    BY <2>1, <2>2, <2>3
<1>3. T \subseteq Nat /\ IsFiniteSet(T)
  BY <1>1, ReadFinite
<1>4. executed = CommandsAt(sent, T) /\ \A n \in 1 .. Cardinality(T) : Nth(T, n) \in T
  BY DEF ReadsExact
<1>5. executed' = Append(executed, CommandAt(sent, x))
  OBVIOUS
<1> HIDE DEF T, x
<1>6. CommandsAt(sent, T \cup {x}) = Append(CommandsAt(sent, T), CommandAt(sent, x))
  BY <1>1, <1>2, <1>3, CommandAdded, Zenon
<1>7. \A n \in 1 .. Cardinality(T \cup {x}) : Nth(T \cup {x}, n) \in T \cup {x}
  BY <1>2, <1>3, <1>4, NthKept, Zenon
<1> QED
  BY <1>2, <1>4, <1>5, <1>6, <1>7, Zenon

(* Every byte of a well-formed message is read as what it is.              *)
LEMMA ScanReads ==
  ASSUME ReadsExact, ScannerInv, WellFormed(sent), Scan, ~ScanEnd
  PROVE  ReadsExact'
<1>1. /\ at = "scan" /\ i <= ret /\ i' = i + 1 /\ sent' = sent
      /\ i \in Nat /\ i > 0 /\ ret \in Nat /\ sent \in Seq(STRING)
      /\ Len(sent) \in Nat /\ ret <= Len(sent)
  BY MessageAssumption, LenProperties
  DEF ScannerInv, Scan, ScanLetter, ScanStray, ScanFirst, ScanSecond,
     ScanOther, NextByte
<1>2. /\ i' > 1 /\ i' - 1 = i /\ i' - 2 = i - 1 /\ (i' > 2 => i > 1)
      /\ i \in 1 .. Len(sent)
  BY <1>1
<1>3. i - 2 \in Starts(sent) <=>
        i > 2 /\ sent[i - 2] \in Letters /\ sent[i - 1] \in Figures /\ sent[i] \in Figures
  <2>1. i - 2 \in 1 .. Len(sent) <=> i > 2
    BY <1>1
  <2>2. (i - 2) + 2 = i /\ (i - 2) + 1 = i - 1 /\ i <= Len(sent)
    BY <1>1
  <2> QED
    BY <2>1, <2>2 DEF Starts, Complete
<1>4. i > 1 /\ sent[i - 1] \in Letters => sent[i] \in Figures
  <2>1. i > 1 => i - 1 \in 1 .. Len(sent) /\ (i - 1) + 1 = i
    BY <1>1
  <2> QED
    BY <2>1 DEF WellFormed, Complete
<1>5. i > 2 /\ sent[i - 2] \in Letters => sent[i - 1] \in Figures /\ sent[i] \in Figures
  <2>1. i > 2 => i - 2 \in 1 .. Len(sent) /\ (i - 2) + 1 = i - 1 /\ (i - 2) + 2 = i
    BY <1>1
  <2> QED
    BY <2>1 DEF WellFormed, Complete
<1>6. /\ (dog_cmd # "none" /\ first_digit) => i > 1 /\ sent[i - 1] = dog_cmd
      /\ (dog_cmd # "none" /\ ~first_digit) =>
           i > 2 /\ sent[i - 2] = dog_cmd /\ value[1] = sent[i - 1]
      /\ dog_cmd = "none" =>
           /\ first_digit
           /\ i > 1 => sent[i - 1] \notin Letters
           /\ i > 2 => sent[i - 2] \notin Letters
      /\ dog_cmd # "none" => dog_cmd \in Letters
  BY DEF ReadsExact, ScannerInv
<1>7. sent[i] \notin Figures => dog_cmd = "none"
  BY <1>4, <1>5, <1>6, Zenon
<1>8. CASE ScanLetter
  <2>1. /\ sent[i] \in Letters /\ dog_cmd' = sent[i] /\ first_digit' = first_digit
        /\ executed' = executed
    BY <1>8 DEF ScanLetter, byte
  <2>2. sent[i] \notin Figures /\ sent[i] # "none"
    BY <2>1, Apart
  <2>3. i - 2 \notin Starts(sent)
    BY <1>3, <2>2
  <2>4. dog_cmd' # "none" /\ first_digit' /\ sent'[i' - 1] = dog_cmd'
    BY <1>1, <1>2, <1>6, <1>7, <2>1, <2>2, Zenon
  <2> QED
    BY <1>1, <1>2, <2>1, <2>3, <2>4, NoneRead DEF ReadsExact
<1>9. CASE ScanStray \/ ScanOther
  <2>1. /\ sent[i] \notin Letters /\ dog_cmd' = "none" /\ first_digit' = first_digit
        /\ executed' = executed
    BY <1>9, Apart DEF ScanStray, ScanOther, byte
  <2>2. dog_cmd = "none"
    BY <1>7, <1>9 DEF ScanStray, ScanOther, byte
  <2>3. i - 2 \notin Starts(sent)
    BY <1>3, <1>6, <2>2
  <2>4. /\ first_digit' /\ sent'[i' - 1] \notin Letters
        /\ i' > 2 => sent'[i' - 2] \notin Letters
    BY <1>1, <1>2, <1>6, <2>1, <2>2, Zenon
  <2> QED
    BY <1>1, <1>2, <2>1, <2>3, <2>4, NoneRead DEF ReadsExact
<1>10. CASE ScanFirst
  <2>1. /\ dog_cmd # "none" /\ first_digit /\ dog_cmd' = dog_cmd /\ ~first_digit'
        /\ executed' = executed /\ value' = [value EXCEPT ![1] = sent[i]]
    BY <1>10, Zenon DEF ScanFirst, byte
  <2>2. sent[i - 1] \notin Figures
    BY <1>6, <2>1, Apart
  <2>3. i - 2 \notin Starts(sent)
    BY <1>3, <2>2
  <2>4. value'[1] = sent[i]
    BY <2>1 DEF ScannerInv
  <2>5. i' > 2 /\ sent'[i' - 2] = dog_cmd' /\ value'[1] = sent'[i' - 1]
    BY <1>1, <1>2, <1>6, <2>1, <2>4
  <2> QED
    BY <1>1, <2>1, <2>3, <2>5, NoneRead DEF ReadsExact
<1>11. CASE ScanSecond
  <2>1. /\ dog_cmd # "none" /\ ~first_digit /\ dog_cmd' = "none" /\ first_digit'
        /\ sent[i] \in Figures
    BY <1>11, Zenon DEF ScanSecond, byte, Reset
  <2>2. /\ value' = [value EXCEPT ![2] = sent[i]]
        /\ executed' = Append(executed, <<dog_cmd, atoi(value')>>)
    BY <1>11 DEF ScanSecond, byte
  <2>3. i > 2 /\ sent[i - 2] = dog_cmd /\ value[1] = sent[i - 1] /\ dog_cmd \in Letters
    BY <1>6, <2>1
  <2>4. sent[i - 1] \in Figures /\ i - 2 \in Starts(sent)
    BY <1>3, <1>5, <2>3, <2>1
  <2>5. value'[1] = sent[i - 1] /\ value'[2] = sent[i]
    BY <2>2, <2>3 DEF ScannerInv
  <2>6. CommandAt(sent, i - 2) = <<dog_cmd, atoi(value')>>
    <3>1. (i - 2) + 1 = i - 1 /\ (i - 2) + 2 = i
      BY <1>1
    <3> DEFINE v == <<sent[i - 1], sent[i]>>
    <3>2. v[1] = value'[1] /\ v[2] = value'[2]
      BY <2>5
    <3>3. CommandAt(sent, i - 2) = <<sent[i - 2], atoi(v)>>
      BY <3>1 DEF CommandAt
    <3> HIDE DEF v
    <3>4. atoi(v) = atoi(value')
      BY <3>2 DEF atoi
    <3> QED
      BY <2>3, <3>3, <3>4
  <2>7. sent'[i' - 1] \notin Letters /\ sent'[i' - 2] \notin Letters
    BY <1>1, <1>2, <2>1, <2>4, Apart
  <2> QED
    BY <1>1, <2>1, <2>2, <2>4, <2>6, <2>7, OneRead, Zenon DEF ReadsExact
<1> QED
  BY <1>8, <1>9, <1>10, <1>11 DEF Scan

(* Before the first byte nothing has been read.                            *)
LEMMA NothingRead ==
  ASSUME NEW s \in Seq(STRING), NEW k, k = 1
  PROVE  /\ CommandsAt(s, Read(s, k - 1)) = << >>
         /\ \A n \in 1 .. Cardinality(Read(s, k - 1)) : FALSE
<1>1. Read(s, k - 1) = {}
  BY ReadFinite DEF Read, Starts
<1>2. Cardinality({}) = 0 /\ \A n \in 1 .. 0 : FALSE
  BY FS_EmptySet
<1>3. CommandsAt(s, {}) = << >>
  BY <1>2 DEF CommandsAt
<1> QED
  BY <1>1, <1>2, <1>3, Zenon

(* The message is read exactly, through every step of the server.          *)
LEMMA ReadKept == ReadInv /\ [Next]_vars => ReadInv'
<1> SUFFICES ASSUME ReadInv, [Next]_vars PROVE ReadInv'
  OBVIOUS
<1>1. ScannerInv /\ ScannerInv'
  BY ScannerKept DEF ReadInv
<1>2. CASE Scan /\ ~ScanEnd
  <2>1. at = "scan" /\ at' = at /\ sent' = sent
    BY <1>2 DEF Scan, ScanLetter, ScanStray, ScanFirst, ScanSecond, ScanOther
  <2> QED
    BY <1>1, <1>2, <2>1, ScanReads DEF ReadInv
<1>3. CASE ScanEnd \/ UNCHANGED vars
  <2>1. UNCHANGED <<sent, ret, i, dog_cmd, first_digit, value, executed>>
    BY <1>3 DEF ScanEnd, vars, scanner
  <2>2. WellFormed(sent)' = WellFormed(sent) /\ ReadsExact' = ReadsExact
    BY <2>1 DEF WellFormed, ReadsExact, Read, Complete, Starts, CommandsAt, CommandAt
  <2>3. (at' = "close" /\ ret' > 0) => i' = ret' + 1
    BY <1>1, <1>3, <2>1, MessageAssumption DEF ReadInv, ScannerInv, ScanEnd, vars
  <2>4. at' \notin {"scan", "close"} => at \notin {"scan", "close"}
    BY <1>3 DEF ScanEnd, vars
  <2> QED
    BY <1>1, <2>1, <2>2, <2>3, <2>4, Zenon DEF ReadInv
<1>4. CASE Recv
  <2>1. PICK m \in Messages : sent' = m
    BY <1>4 DEF Recv
  <2>2. /\ i = 1 /\ i' = 1 /\ executed' = << >> /\ dog_cmd' = "none" /\ at' = "scan"
    BY <1>1, <1>4 DEF ReadInv, ScannerInv, Recv, scanner
  <2>3. first_digit'
    BY <1>4, Zenon DEF ReadInv, Recv, scanner
  <2>4. ReadsExact'
    <3>1. sent' \in Seq(STRING)
      BY <1>1 DEF ScannerInv
    <3> QED
      BY <2>2, <2>3, <3>1, NothingRead DEF ReadsExact
  <2> QED
    BY <1>1, <2>2, <2>4 DEF ReadInv
<1>5. CASE Socket \/ Configure \/ Accept \/ RecvNothing \/ Errout \/ Close
  <2>1. /\ i' = 1 /\ executed' = << >> /\ dog_cmd' = "none" /\ sent' = << >> /\ ret' = 0
        /\ at' # "scan"
    BY <1>1, <1>5 DEF ReadInv, ScannerInv, Socket, Configure, Accept, RecvNothing,
       Errout, Close, scanner, Setup
  <2>2. first_digit'
    <3>1. CASE Close
      BY <3>1, Zenon DEF Close
    <3>2. CASE ~Close
      BY <1>5, <3>2, Zenon DEF ReadInv, Socket, Configure, Accept, RecvNothing,
         Errout, scanner, Setup
    <3> QED
      BY <3>1, <3>2
  <2>3. ReadsExact'
    <3>1. sent' \in Seq(STRING) /\ i' = 1
      BY <1>1, <2>1 DEF ScannerInv
    <3>2. /\ CommandsAt(sent', Read(sent', i' - 1)) = << >>
          /\ \A n \in 1 .. Cardinality(Read(sent', i' - 1)) : FALSE
      BY ONLY <3>1, NothingRead
    <3>3. executed' = << >> /\ dog_cmd' = "none" /\ first_digit' /\ i' = 1
      BY <2>1, <2>2
    <3> QED
      BY ONLY <3>2, <3>3 DEF ReadsExact
  <2> QED
    BY <1>1, <2>1, <2>2, <2>3 DEF ReadInv
<1> QED
  BY <1>2, <1>3, <1>4, <1>5 DEF Next, Scan

(* When the connection ends, what has been read is what was received.      *)
LEMMA ReadExact == ReadInv => WellFormedExact
<1> SUFFICES ASSUME ReadInv, at = "close", ret > 0, WellFormed(sent)
             PROVE  /\ executed = Framed(SubSeq(sent, 1, ret))
                    /\ IsPrefix(executed, Framed(sent))
  BY DEF WellFormedExact
<1> DEFINE T == Read(sent, ret)
           cut == SubSeq(sent, 1, ret)
<1>1. sent \in Seq(STRING) /\ ret \in Nat /\ ret \in 0 .. Len(sent) /\ i - 1 = ret
  BY MessageAssumption, LenProperties DEF ReadInv, ScannerInv
<1>2. executed = CommandsAt(sent, T) /\ \A n \in 1 .. Cardinality(T) : Nth(T, n) \in T
  BY <1>1 DEF ReadInv, ReadsExact
<1>3. Starts(cut) = T /\ \A k \in T : CommandAt(cut, k) = CommandAt(sent, k)
  BY <1>1, StartsCut
<1>4. IsPrefix(CommandsAt(sent, T), Framed(sent))
  BY <1>1, ReadPrefix
<1> HIDE DEF T, cut
<1>5. CommandsAt(sent, T) = CommandsAt(cut, T)
  BY <1>2, <1>3 DEF CommandsAt
<1> QED
  BY <1>2, <1>3, <1>4, <1>5 DEF Framed, cut

(* A client that sends only complete commands gets exactly those carried   *)
(* out that the recv returned whole, in order and with their values        *)
(* (WellFormedExact), for messages and buffers of every length.            *)
THEOREM CommandsExact == Spec => []WellFormedExact
<1>1. Init => ReadInv
  <2> SUFFICES ASSUME Init PROVE ReadInv
    OBVIOUS
  <2>1. first_digit
    BY Zenon DEF Init
  <2>2. /\ i = 1 /\ executed = << >> /\ dog_cmd = "none" /\ sent = << >> /\ ret = 0
        /\ at = "socket" /\ ScannerInv
    BY ScannerInit DEF Init
  <2>3. ReadsExact
    <3>1. sent \in Seq(STRING) /\ i = 1
      BY <2>2 DEF ScannerInv
    <3>2. /\ CommandsAt(sent, Read(sent, i - 1)) = << >>
          /\ \A n \in 1 .. Cardinality(Read(sent, i - 1)) : FALSE
      BY ONLY <3>1, NothingRead
    <3>3. executed = << >> /\ dog_cmd = "none" /\ first_digit /\ i = 1
      BY <2>1, <2>2
    <3> QED
      BY ONLY <3>2, <3>3 DEF ReadsExact
  <2> QED
    BY <2>1, <2>2, <2>3 DEF ReadInv
<1> QED
  BY <1>1, ReadKept, ReadExact, PTL DEF Spec

-----------------------------------------------------------------------------
(* What holds of every message, well-formed or not. *)

(* The bytes that the commands carried out, the letter at hand and the     *)
(* figure at hand have used up.                                            *)
Used == 3 * Len(executed) + (IF dog_cmd = "none" THEN 0 ELSE 1)
                          + (IF first_digit THEN 0 ELSE 1)

UsedInv == Used <= i - 1

(* The n-th command carried out is the letter at place[n] of the message,  *)
(* directly followed by a figure; no letter is used twice, nor out of      *)
(* order.                                                                  *)
Placed(place) ==
  /\ \A m, n \in 1 .. Len(executed) : m < n => place[m] < place[n]
  /\ \A n \in 1 .. Len(executed) :
       /\ executed[n][1] = sent[place[n]]
       /\ place[n] + 1 < i /\ sent[place[n] + 1] \in Figures

(* The letter at hand is behind all of them, with only figures since.      *)
AtHand(place) ==
  dog_cmd # "none" =>
    \E k \in 1 .. i - 1 :
      /\ sent[k] = dog_cmd
      /\ \A n \in 1 .. Len(executed) : place[n] < k
      /\ \A j \in k + 1 .. i - 1 : sent[j] \in Figures

LetterInv ==
  \E place \in [1 .. Len(executed) -> 1 .. i - 1] : Placed(place) /\ AtHand(place)

(* A connection carries out at most one command for three bytes that the   *)
(* recv returned, and so never more than a third of RXBUFFER_SIZE.         *)
CommandsFit == 3 * Len(executed) <= ret /\ ret <= RXBUFFER_SIZE

(* Whatever the client sends, each command carried out has a letter of its *)
(* own among the bytes scanned, and the commands are in the order of the   *)
(* letters.                                                                *)
NoneInvented == \E place \in [1 .. Len(executed) -> 1 .. i - 1] : Placed(place)

(* The scanner looks at each byte once, and closes behind the last one.    *)
ScanAdvances ==
  [][at = "scan" => /\ \/ at' = "scan" /\ i <= ret /\ i' = i + 1
                       \/ at' = "close" /\ i = ret + 1
                    /\ ret' = ret /\ sent' = sent]_vars

(* No byte is used up twice.                                               *)
LEMMA UsedKept == ScannerInv /\ UsedInv /\ [Next]_vars => UsedInv'
<1> SUFFICES ASSUME ScannerInv, UsedInv, [Next]_vars PROVE UsedInv'
  OBVIOUS
<1>1. i \in Nat /\ Len(executed) \in Nat
  BY MessageAssumption DEF ScannerInv, CommandsValid
<1>2. CASE UNCHANGED <<i, dog_cmd, first_digit, executed>>
  BY <1>2 DEF UsedInv, Used
<1>3. CASE ScanLetter \/ ScanStray \/ ScanOther
  BY <1>1, <1>3 DEF UsedInv, Used, ScanLetter, ScanStray, ScanOther, NextByte
<1>4. CASE ScanFirst
  BY <1>1, <1>4 DEF UsedInv, Used, ScanFirst, NextByte
<1>5. CASE ScanSecond
  <2>1. Len(executed') = Len(executed) + 1
    BY <1>5 DEF ScanSecond, ScannerInv, CommandsValid
  <2>2. i' = i + 1 /\ dog_cmd' = "none" /\ first_digit' /\ dog_cmd # "none" /\ ~first_digit
    BY <1>5, Zenon DEF ScanSecond, NextByte, Reset
  <2> QED
    BY <1>1, <2>1, <2>2 DEF UsedInv, Used
<1>6. CASE Close
  <2>1. i' = 1 /\ dog_cmd' = "none" /\ first_digit' /\ executed' = << >>
    BY <1>6, Zenon DEF Close
  <2> QED
    BY <2>1 DEF UsedInv, Used
<1>7. UNCHANGED <<i, dog_cmd, first_digit, executed>> \/ Scan \/ Close
  BY Zenon DEF Next, Socket, Configure, Accept, Recv, RecvNothing, Errout, vars, scanner
<1>8. ScanEnd => UNCHANGED <<i, dog_cmd, first_digit, executed>>
  BY Zenon DEF ScanEnd, scanner
<1> QED
  BY <1>2, <1>3, <1>4, <1>5, <1>6, <1>7, <1>8 DEF Scan

(* The scanner never uses up more bytes than it has looked at.             *)
LEMMA BytesUsed == Spec => [](ScannerInv /\ UsedInv)
<1>1. Init => UsedInv
  <2> SUFFICES ASSUME Init PROVE UsedInv
    OBVIOUS
  <2>1. i = 1 /\ dog_cmd = "none" /\ first_digit /\ executed = << >>
    BY Zenon DEF Init
  <2> QED
    BY <2>1 DEF UsedInv, Used
<1> QED
  BY <1>1, ScannerInit, ScannerKept, UsedKept, PTL DEF Spec

(* The buffer bounds the commands of a connection (RXBUFFER_SIZE).         *)
THEOREM CommandsBounded == Spec => []CommandsFit
<1>1. ScannerInv /\ UsedInv => CommandsFit
  <2> SUFFICES ASSUME ScannerInv, UsedInv PROVE CommandsFit
    OBVIOUS
  <2>1. /\ i <= ret + 1 /\ i \in Nat /\ ret \in Nat /\ ret <= RXBUFFER_SIZE
        /\ Len(executed) \in Nat
    BY MessageAssumption DEF ScannerInv, CommandsValid
  <2>2. 3 * Len(executed) <= i - 1
    BY <2>1 DEF UsedInv, Used
  <2> QED
    BY <2>1, <2>2 DEF CommandsFit
<1> QED
  BY <1>1, BytesUsed, PTL

(* One step of the scanner per byte of mybuffer (create_server).           *)
THEOREM ScanProgress == Spec => ScanAdvances
<1>1. ASSUME ScannerInv, [Next]_vars, at = "scan"
      PROVE  /\ \/ at' = "scan" /\ i <= ret /\ i' = i + 1
                \/ at' = "close" /\ i = ret + 1
             /\ ret' = ret /\ sent' = sent
         \/ UNCHANGED vars
  <2>1. i \in 1 .. ret + 1 /\ ret \in Nat
    BY <1>1, MessageAssumption DEF ScannerInv
  <2>2. CASE Scan
    BY <1>1, <2>1, <2>2 DEF Scan, ScanLetter, ScanStray, ScanFirst, ScanSecond, ScanOther,
       ScanEnd, NextByte
  <2>3. Scan \/ UNCHANGED vars
    BY <1>1 DEF Next, Socket, Configure, Accept, Recv, RecvNothing, Close, Errout, Setup
  <2> QED
    BY <2>2, <2>3
<1> QED
  BY <1>1, ScannerInit, ScannerKept, PTL DEF Spec, ScanAdvances

(* A byte that completes no command leaves the places as they are.         *)
LEMMA PlacesKept ==
  ASSUME i \in Nat, NEW place \in [1 .. Len(executed) -> 1 .. i - 1], Placed(place),
         i' = i + 1, executed' = executed, sent' = sent
  PROVE  place \in [1 .. Len(executed') -> 1 .. i' - 1] /\ Placed(place)'
<1>1. 1 .. i - 1 \subseteq 1 .. i' - 1
  OBVIOUS
<1>2. \A n \in 1 .. Len(executed) : place[n] \in Nat /\ (place[n] + 1 < i => place[n] + 1 < i')
  OBVIOUS
<1> QED
  BY <1>1, <1>2 DEF Placed

(* The second figure places the command at its letter.                     *)
LEMMA PlaceAdded ==
  ASSUME ScannerInv, i \in Nat, NEW place \in [1 .. Len(executed) -> 1 .. i - 1],
         Placed(place), AtHand(place), ScanSecond
  PROVE  LetterInv'
<1>1. /\ sent' = sent /\ i' = i + 1 /\ dog_cmd' = "none" /\ dog_cmd # "none"
      /\ sent[i] \in Figures /\ executed' = Append(executed, <<dog_cmd, atoi(value')>>)
  BY DEF ScanSecond, NextByte, byte
<1>2. PICK k \in 1 .. i - 1 :
        /\ sent[k] = dog_cmd
        /\ \A n \in 1 .. Len(executed) : place[n] < k
        /\ \A j \in k + 1 .. i - 1 : sent[j] \in Figures
  BY <1>1 DEF AtHand
<1>len. PICK len : len = Len(executed)
  OBVIOUS
<1>new. PICK new : new = [n \in 1 .. len + 1 |-> IF n = len + 1 THEN k ELSE place[n]]
  BY Zenon
<1>3. /\ len \in Nat /\ Len(executed') = len + 1
      /\ \A n \in 1 .. len : executed'[n] = executed[n]
      /\ executed'[len + 1][1] = dog_cmd
  <2>1. executed \in Seq(Letters \X (0 .. 99))
    BY DEF ScannerInv, CommandsValid
  <2> QED
    BY <1>1, <1>len, <2>1
<1>4. k + 1 < i' /\ sent[k + 1] \in Figures
  <2>1. CASE k = i - 1
    BY <1>1, <2>1
  <2>2. CASE k # i - 1
    BY <1>1, <1>2, <2>2
  <2> QED
    BY <2>1, <2>2
<1>5. \A n \in 1 .. len : place[n] \in 1 .. i - 1 /\ new[n] = place[n] /\ n \in 1 .. len + 1
  BY <1>3, <1>len, <1>new
<1>6. new[len + 1] = k /\ len + 1 \in 1 .. len + 1
  BY <1>3, <1>new
<1>7. \A n \in 1 .. len + 1 : n \in 1 .. len \/ n = len + 1
  BY <1>3
<1>8. new \in [1 .. len + 1 -> 1 .. i' - 1]
  <2>1. 1 .. i - 1 \subseteq 1 .. i' - 1
    BY <1>1
  <2>2. \A n \in 1 .. len + 1 : new[n] \in 1 .. i' - 1
    BY <1>5, <1>6, <1>7, <2>1, Zenon
  <2> QED
    BY <1>new, <2>2, Zenon
<1>9. ASSUME NEW m \in 1 .. len + 1, NEW n \in 1 .. len + 1, m < n
      PROVE  new[m] < new[n]
  <2>1. m \in 1 .. len
    BY <1>3, <1>9
  <2>2. CASE n = len + 1
    BY <1>2, <1>5, <1>6, <1>len, <2>1, <2>2
  <2>3. CASE n \in 1 .. len
    BY <1>5, <1>9, <1>len, <2>1, <2>3 DEF Placed
  <2> QED
    BY <1>7, <2>2, <2>3
<1>10. ASSUME NEW n \in 1 .. len + 1
       PROVE  /\ executed'[n][1] = sent[new[n]]
              /\ new[n] + 1 < i' /\ sent[new[n] + 1] \in Figures
  <2>1. CASE n = len + 1
    BY <1>2, <1>3, <1>4, <1>6, <2>1
  <2>2. CASE n \in 1 .. len
    BY <1>1, <1>3, <1>5, <1>len, <2>2 DEF Placed
  <2> QED
    BY <1>7, <2>1, <2>2
<1>11. Placed(new)'
  BY <1>1, <1>3, <1>9, <1>10 DEF Placed
<1>12. AtHand(new)'
  BY <1>1 DEF AtHand
<1> QED
  BY <1>3, <1>8, <1>11, <1>12 DEF LetterInv

(* Each byte scanned keeps every command at a letter of its own.           *)
LEMMA LettersScanned ==
  ASSUME ScannerInv, LetterInv, Scan
  PROVE  LetterInv'
<1>1. PICK place \in [1 .. Len(executed) -> 1 .. i - 1] : Placed(place) /\ AtHand(place)
  BY DEF LetterInv
<1>2. i \in Nat /\ ret \in Nat /\ ret <= Len(sent)
  BY MessageAssumption DEF ScannerInv
<1>3. CASE ScanSecond
  BY <1>1, <1>2, <1>3, PlaceAdded
<1>4. CASE ScanEnd
  BY <1>1, <1>4, Zenon DEF ScanEnd, scanner, LetterInv, Placed, AtHand
<1>5. CASE ScanLetter \/ ScanStray \/ ScanFirst \/ ScanOther
  <2>1. i' = i + 1 /\ executed' = executed /\ sent' = sent
    BY <1>5 DEF ScanLetter, ScanStray, ScanFirst, ScanOther, NextByte
  <2>2. place \in [1 .. Len(executed') -> 1 .. i' - 1] /\ Placed(place)'
    BY <1>1, <1>2, <2>1, PlacesKept
  <2>3. AtHand(place)'
    <3>1. CASE ScanLetter
      <4>1. dog_cmd' = sent[i]
        BY <3>1 DEF ScanLetter, byte
      <4>2. i \in 1 .. i' - 1 /\ \A j \in i + 1 .. i' - 1 : FALSE
        BY <1>2, <2>1 DEF ScannerInv
      <4>3. \A n \in 1 .. Len(executed') : place[n] < i
        BY <1>1, <1>2, <2>1
      <4> QED
        BY <2>1, <4>1, <4>2, <4>3 DEF AtHand
    <3>2. CASE ScanStray \/ ScanOther
      BY <3>2 DEF ScanStray, ScanOther, AtHand
    <3>3. CASE ScanFirst
      <4>1. dog_cmd' = dog_cmd /\ dog_cmd # "none" /\ sent[i] \in Figures
        BY <3>3 DEF ScanFirst, byte
      <4>2. PICK k \in 1 .. i - 1 :
              /\ sent[k] = dog_cmd
              /\ \A n \in 1 .. Len(executed) : place[n] < k
              /\ \A j \in k + 1 .. i - 1 : sent[j] \in Figures
        BY <1>1, <4>1 DEF AtHand
      <4>3. k \in 1 .. i' - 1 /\ \A j \in k + 1 .. i' - 1 : sent[j] \in Figures
        BY <1>2, <2>1, <4>1, <4>2
      <4> QED
        BY <2>1, <4>1, <4>2, <4>3 DEF AtHand
    <3> QED
      BY <1>5, <3>1, <3>2, <3>3
  <2> QED
    BY <2>2, <2>3 DEF LetterInv
<1> QED
  BY <1>3, <1>4, <1>5 DEF Scan

(* Before the first byte no command needs a place.                         *)
LEMMA NothingPlaced ==
  ASSUME executed = << >>, dog_cmd = "none"
  PROVE  LetterInv
<1> DEFINE none == [n \in {} |-> 1]
<1>1. 1 .. Len(executed) = {}
  OBVIOUS
<1>2. none \in [1 .. Len(executed) -> 1 .. i - 1]
  BY <1>1
<1>3. Placed(none) /\ AtHand(none)
  BY <1>1 DEF Placed, AtHand
<1> QED
  BY <1>2, <1>3, Zenon DEF LetterInv

(* The same after a step.                                                  *)
LEMMA NothingPlacedNext ==
  ASSUME executed' = << >>, dog_cmd' = "none"
  PROVE  LetterInv'
<1> DEFINE none == [n \in {} |-> 1]
<1>1. 1 .. Len(executed') = {}
  OBVIOUS
<1>2. none \in [1 .. Len(executed') -> 1 .. i' - 1]
  BY <1>1
<1> HIDE DEF none
<1>3. Placed(none)' /\ AtHand(none)'
  BY <1>1 DEF Placed, AtHand
<1> QED
  BY <1>2, <1>3, Zenon DEF LetterInv

(* Every step keeps the letters apart.                                     *)
LEMMA LettersKept == ScannerInv /\ UsedInv /\ LetterInv /\ [Next]_vars => LetterInv'
<1> SUFFICES ASSUME ScannerInv, UsedInv, LetterInv, [Next]_vars PROVE LetterInv'
  OBVIOUS
<1>1. CASE Socket \/ Configure \/ Accept \/ RecvNothing \/ Errout
  <2>1. UNCHANGED <<sent, i, dog_cmd, executed>>
    BY <1>1, Zenon DEF Socket, Configure, Accept, RecvNothing, Errout, scanner
  <2> QED
    BY <2>1 DEF LetterInv, Placed, AtHand
<1>2. CASE UNCHANGED vars
  BY <1>2 DEF vars, scanner, LetterInv, Placed, AtHand
<1>3. CASE Recv
  <2>1. UNCHANGED <<i, dog_cmd, first_digit, executed>> /\ i = 1
    BY <1>3, Zenon DEF Recv, scanner, ScannerInv
  <2>2. executed \in Seq(Letters \X (0 .. 99)) /\ Len(executed) \in Nat
    BY DEF ScannerInv, CommandsValid
  <2>3. Len(executed) = 0 /\ dog_cmd = "none"
    BY <2>1, <2>2 DEF UsedInv, Used
  <2>4. executed = << >>
    BY <2>2, <2>3
  <2> QED
    BY <2>1, <2>3, <2>4, NothingPlacedNext
<1>4. CASE Close
  BY <1>4, NothingPlacedNext DEF Close
<1>5. CASE Scan
  BY <1>5, LettersScanned
<1> QED
  BY <1>1, <1>2, <1>3, <1>4, <1>5 DEF Next

(* Whatever bytes come, no command is carried out without its letter, none *)
(* twice and none out of order (the tests of mybuffer[i] in server.c).     *)
THEOREM CommandsReal == Spec => []NoneInvented
<1>1. Init => LetterInv
  BY NothingPlaced DEF Init
<1>2. LetterInv => NoneInvented
  BY DEF LetterInv, NoneInvented
<1> QED
  BY <1>1, <1>2, BytesUsed, ScannerInit, ScannerKept, LettersKept, PTL DEF Spec
=============================================================================
