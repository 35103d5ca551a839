---------------------------- MODULE KernelProofs ----------------------------
(***************************************************************************)
(* Proofs about Kernel, for any tasks, priorities, semaphores and delays:  *)
(* the steps that end waits, the theorems, and the refinement of the timers. *)
(***************************************************************************)
EXTENDS KernelStepProofs

-----------------------------------------------------------------------------
(* Steps that end waits. *)

(* A post, by a task that gives up the semaphore or by an interrupt.       *)
LEMMA PostInv ==
  ASSUME Inv, NEW s \in Sems, Post(s),
         UNCHANGED <<lockcount, pc, asked, wdlist, isr, clock>>,
         holds' \in [Tasks -> SUBSET Mutexes], \A u \in Tasks : holds'[u] \subseteq holds[u],
         \A x \in Sems : x # s => Owners(x)' = Owners(x),
         s \in Mutexes => \E t \in Owners(s) : Owners(s)' = Owners(s) \ {t}
  PROVE  Inv'
<1>1. /\ lockcount' = lockcount /\ pc' = pc /\ asked' = asked /\ wdlist' = wdlist /\ isr' = isr
      /\ want' = want /\ passed' = passed
  BY DEF clock
<1>2. count' = [count EXCEPT ![s] = @ + 1]
  BY DEF Post
<1>3. PICK W : /\ Wakes(W, "OK")
               /\ \/ W = {} /\ count[s] >= 0
                  \/ \E w \in Waiting(s) : W = {w}
  BY <1>1, PostWakes, Zenon
<1>4. /\ Lists' /\ Held' /\ Calls' /\ TimeoutExact' /\ Timed' = Timed \ W
      /\ waitsem' \in [Tasks -> Sems \cup {None}]
      /\ errno' \in [Tasks -> {"OK", "EINTR", "ETIMEDOUT"}]
  <2> DEFINE e == "OK"
  <2>1. e \in {"OK", "EINTR", "ETIMEDOUT"} /\ e # "ETIMEDOUT" /\ Wakes(W, e)
    BY <1>3
  <2> HIDE DEF e
  <2> QED
    BY <1>1, <2>1, WokenInv
<1>5. Types /\ Calls /\ Clocks /\ s # None
  BY KernelAssumption DEF Inv
<1>6. Types'
  <2>1. count' \in [Sems -> Int]
    BY <1>2, <1>5 DEF Types
  <2> QED
    BY <1>1, <1>4, <1>5, <2>1 DEF Types
<1>7. Clocks'
  <2>1. Timed \subseteq Tasks
    BY DEF Inv, Lists, Apart, Timed
  <2>2. Timed' \subseteq Timed /\ \A u \in Timed' : u \in Tasks
    BY <1>4, <2>1
  <2> QED
    BY <1>1, <1>5, <2>2, ClocksKept
<1>8. /\ waitsem' = [u \in Tasks |-> IF u \in W THEN None ELSE waitsem[u]]
      /\ errno' = [u \in Tasks |-> IF u \in W THEN "OK" ELSE errno[u]]
  BY <1>3 DEF Wakes
<1>9. \A u \in W : /\ u \in Tasks /\ waitsem[u] = s /\ asked[u] = s
                   /\ waitsem'[u] = None /\ errno'[u] = "OK"
  <2>1. \A u \in W : u \in Tasks /\ waitsem[u] = s
    BY <1>3 DEF Waiting
  <2>2. \A u \in W : u \in Tasks => asked[u] = waitsem[u] \/ waitsem[u] = None
    BY <1>5 DEF Calls, CallOf
  <2>3. \A u \in W : u \in Tasks /\ waitsem[u] = s /\ asked[u] = s
    BY <1>5, <2>1, <2>2, Zenon
  <2> QED
    BY <1>8, <2>3, Zenon
<1>10. \A u \in Tasks : u \notin W => waitsem'[u] = waitsem[u] /\ errno'[u] = errno[u]
  BY <1>8
<1>11. SemExact'
  <2>1. ASSUME NEW x \in Sems
        PROVE  Balanced(x, count[x], Waiting(x), Granted(x), Owners(x))'
    <3>1. Balanced(x, count[x], Waiting(x), Granted(x), Owners(x)) /\ x # None
      BY SemNow, KernelAssumption
    <3>2. CASE x # s
      <4>1. count'[x] = count[x]
        BY <1>2, <1>5, <3>2 DEF Types
      <4>2. Waiting(x)' = Waiting(x)
        BY <1>9, <1>10, <3>1, <3>2 DEF Waiting
      <4>3. Granted(x)' = Granted(x)
        BY <1>1, <1>9, <1>10, <3>2 DEF Granted
      <4> QED
        BY <3>1, <3>2, <4>1, <4>2, <4>3, SemKept
    <3>3. CASE x = s
      <4>1. count'[s] = count[s] + 1 /\ Owners(s)' \subseteq Tasks
        BY <1>2, <1>5 DEF Types, Owners
      <4>2. CASE W = {} /\ count[s] >= 0
        <5>1. Waiting(s)' = Waiting(s) /\ Granted(s)' = Granted(s)
          BY <1>1, <1>10, <4>2 DEF Waiting, Granted
        <5>2. Balanced(s, count[s] + 1, Waiting(s), Granted(s), Owners(s)')
          BY <3>1, <3>3, <4>1, <4>2, BalancedPost
        <5> QED
          BY <3>3, <4>1, <5>1, <5>2 DEF Balanced
      <4>3. CASE \E w \in Waiting(s) : W = {w}
        <5>1. PICK w \in Waiting(s) : W = {w}
          BY <4>3
        <5>2. Waiting(s)' = Waiting(s) \ {w}
          BY <1>5, <1>9, <1>10, <5>1 DEF Waiting
        <5>3. Granted(s)' = Granted(s) \cup {w} /\ w \notin Granted(s)
          BY <1>1, <1>5, <1>9, <1>10, <5>1 DEF Granted
        <5>4. Granted(s) \subseteq Tasks /\ Owners(s) \subseteq Tasks /\ Granted(s)' \subseteq Tasks
          BY DEF Granted, Owners
        <5>5. s \in Mutexes => Cardinality(Granted(s)') + Cardinality(Owners(s)')
                                 = Cardinality(Granted(s)) + Cardinality(Owners(s))
          <6>1. Cardinality(Granted(s)') = Cardinality(Granted(s)) + 1
            <7>1. Cardinality(Granted(s) \cup {w}) = Cardinality(Granted(s)) + 1
              BY <5>3, <5>4, OneMore
            <7> QED
              BY <5>3, <7>1
          <6>2. s \in Mutexes => Cardinality(Owners(s)') = Cardinality(Owners(s)) - 1
            <7> SUFFICES ASSUME s \in Mutexes
                         PROVE  Cardinality(Owners(s)') = Cardinality(Owners(s)) - 1
              OBVIOUS
            <7>1. PICK t \in Owners(s) : Owners(s)' = Owners(s) \ {t}
              OBVIOUS
            <7>2. Cardinality(Owners(s) \ {t}) = Cardinality(Owners(s)) - 1
              BY <5>4, OneMore
            <7> QED
              BY <7>1, <7>2
          <6>3. Cardinality(Granted(s)) \in Nat /\ Cardinality(Owners(s)) \in Nat
            BY <5>4, OneMore
          <6> DEFINE g == Cardinality(Granted(s))
                     h == Cardinality(Granted(s)')
                     o == Cardinality(Owners(s))
                     p == Cardinality(Owners(s)')
          <6> HIDE DEF g, h, o, p
          <6>4. g \in Nat /\ o \in Nat /\ h = g + 1 /\ (s \in Mutexes => p = o - 1)
            BY ONLY <6>1, <6>2, <6>3 DEF g, h, o, p
          <6>5. s \in Mutexes => h + p = g + o
            BY ONLY <6>4
          <6> QED
            BY ONLY <6>5 DEF g, h, o, p
        <5>6. Balanced(s, count[s] + 1, Waiting(s) \ {w}, Granted(s)', Owners(s)')
          <6> DEFINE H == Granted(s)'
                     P == Owners(s)'
          <6>1. /\ H \subseteq Tasks /\ P \subseteq Tasks
                /\ Balanced(s, count[s], Waiting(s), Granted(s), Owners(s))
                /\ s \in Mutexes => Cardinality(H) + Cardinality(P)
                                      = Cardinality(Granted(s)) + Cardinality(Owners(s))
            BY <3>1, <3>3, <4>1, <5>4, <5>5
          <6> HIDE DEF H, P
          <6>2. Balanced(s, count[s] + 1, Waiting(s) \ {w}, H, P)
            BY <6>1, BalancedRelease
          <6> QED
            BY <6>2 DEF H, P
        <5> QED
          BY <3>3, <4>1, <5>2, <5>6 DEF Balanced
      <4> QED
        BY <1>3, <4>2, <4>3
    <3> QED
      BY <3>2, <3>3
  <2> QED
    BY <2>1, SemNext
<1> QED
  BY <1>4, <1>6, <1>7, <1>11 DEF Inv

(* A task posts a mutex that it holds.                                     *)
LEMMA SemPostInv ==
  ASSUME Inv, NEW t \in Tasks, NEW s \in Sems, SemPost(t, s)
  PROVE  Inv'
<1>1. /\ s \in holds[t] /\ Post(s) /\ holds' = [holds EXCEPT ![t] = @ \ {s}]
      /\ UNCHANGED <<lockcount, pc, asked, wdlist, isr, clock>>
  BY DEF SemPost
<1>2. holds \in [Tasks -> SUBSET Mutexes]
  BY DEF Inv, Types
<1>3. /\ holds' \in [Tasks -> SUBSET Mutexes] /\ holds'[t] = holds[t] \ {s}
      /\ \A u \in Tasks : u # t => holds'[u] = holds[u]
  BY <1>1, <1>2
<1>4. \A x \in Sems : x # s => Owners(x)' = Owners(x)
  BY <1>3 DEF Owners
<1>5. t \in Owners(s) /\ Owners(s)' = Owners(s) \ {t}
  BY <1>1, <1>3 DEF Owners
<1>6. \A u \in Tasks : holds'[u] \subseteq holds[u]
  BY <1>3
<1> QED
  BY <1>1, <1>3, <1>4, <1>5, <1>6, PostInv

(* An interrupt posts an event.                                            *)
LEMMA IrqPostInv ==
  ASSUME Inv, NEW s \in Events, IrqPost(s)
  PROVE  Inv'
<1>1. /\ Post(s) /\ UNCHANGED <<lockcount, pc, asked, wdlist, isr, clock>> /\ holds' = holds
  BY DEF IrqPost
<1>2. s \in Sems /\ s \notin Mutexes
  BY KernelAssumption DEF Sems
<1>3. holds' \in [Tasks -> SUBSET Mutexes] /\ \A u \in Tasks : holds'[u] \subseteq holds[u]
  BY <1>1 DEF Inv, Types
<1>4. \A x \in Sems : Owners(x)' = Owners(x)
  BY <1>1 DEF Owners
<1> QED
  BY <1>1, <1>2, <1>3, <1>4, PostInv

(* The wait of a task for a semaphore ends without it.                     *)
LEMMA SemWaitirqWakes ==
  ASSUME Inv, NEW w \in Tasks, NEW e, SemWaitirq(w, e), lockcount' = lockcount
  PROVE  \/ Wakes({}, e) /\ waitsem[w] = None /\ count' = count
         \/ /\ Wakes({w}, e) /\ waitsem[w] # None
            /\ count' = [count EXCEPT ![waitsem[w]] = @ + 1]
<1>1. CASE waitsem[w] = None
  BY <1>1, NoneWakes DEF SemWaitirq
<1>2. CASE waitsem[w] # None
  BY <1>2, ReleasedWakes DEF SemWaitirq
<1> QED
  BY <1>1, <1>2

(* A signal or a timeout ends the wait of a task: all of the invariant but *)
(* what is about timers.                                                   *)
LEMMA EndedInv ==
  ASSUME Inv, NEW w \in Tasks, NEW e \in {"EINTR", "ETIMEDOUT"},
         SigEnd(w, e) \/ SemWaitirq(w, e),
         lockcount' = lockcount, asked' = asked, holds' = holds, isr' = isr,
         want' = want, passed' = passed,
         pc' \in [All -> {"run", "locked", "sleep", "unlock", "wait"}],
         \A u \in All : pc'[u] = pc[u] \/ (pc[u] = "locked" /\ pc'[u] = "unlock"),
         w \in Range(semwait) \cup sigwait /\ e = "ETIMEDOUT" => passed[w] = want[w] + 1,
         DogList(wdlist')
  PROVE  /\ Lists' /\ Types' /\ Calls' /\ Held' /\ SemExact' /\ TimeoutExact'
         /\ Timed' \subseteq Timed
<1>1. PICK W : /\ Wakes(W, e) /\ W \subseteq {w} /\ e # "OK"
               /\ \/ count' = count /\ \A u \in W : u \in sigwait
                  \/ /\ W = {w} /\ waitsem[w] # None
                     /\ count' = [count EXCEPT ![waitsem[w]] = @ + 1]
  <2>1. ASSUME SigEnd(w, e)
        PROVE  \E W \in {{}, {w}} :
                 Wakes(W, e) /\ count' = count /\ \A u \in W : u \in sigwait
    <3>1. \/ Wakes({}, e) /\ w \notin sigwait /\ count' = count
          \/ Wakes({w}, e) /\ w \in sigwait /\ count' = count
      BY <2>1, SigEndWakes
    <3> QED
      BY <3>1
  <2>2. ASSUME SemWaitirq(w, e)
        PROVE  \/ Wakes({}, e) /\ count' = count
               \/ /\ Wakes({w}, e) /\ waitsem[w] # None
                  /\ count' = [count EXCEPT ![waitsem[w]] = @ + 1]
    BY <2>2, SemWaitirqWakes, Zenon
  <2> DEFINE later == [count EXCEPT ![waitsem[w]] = @ + 1]
  <2> HIDE DEF later
  <2>3. ASSUME SemWaitirq(w, e)
        PROVE  \E W \in {{}, {w}} :
                 /\ Wakes(W, e)
                 /\ \/ count' = count /\ \A u \in W : u \in sigwait
                    \/ W = {w} /\ waitsem[w] # None /\ count' = later
    BY <2>2, <2>3 DEF later
  <2>4. \E W \in {{}, {w}} :
          /\ Wakes(W, e)
          /\ \/ count' = count /\ \A u \in W : u \in sigwait
             \/ W = {w} /\ waitsem[w] # None /\ count' = later
    BY <2>1, <2>3
  <2>5. PICK W \in {{}, {w}} :
          /\ Wakes(W, e)
          /\ \/ count' = count /\ \A u \in W : u \in sigwait
             \/ W = {w} /\ waitsem[w] # None /\ count' = later
    BY <2>4
  <2> QED
    BY <2>5 DEF later
<1>2. /\ Lists' /\ Held' /\ Calls' /\ TimeoutExact' /\ Timed' = Timed \ W
      /\ waitsem' \in [Tasks -> Sems \cup {None}]
      /\ errno' \in [Tasks -> {"OK", "EINTR", "ETIMEDOUT"}]
  <2>1. e = "ETIMEDOUT" => \A u \in W : passed[u] = want[u] + 1
    BY <1>1 DEF Wakes
  <2>2. e \in {"OK", "EINTR", "ETIMEDOUT"} /\ \A u \in Tasks : holds'[u] \subseteq holds[u]
    OBVIOUS
  <2> QED
    BY <1>1, <2>1, <2>2, WokenInv
<1>3. Types /\ Calls
  BY DEF Inv
<1>4. Types'
  <2>1. count' \in [Sems -> Int]
    BY <1>1, <1>3 DEF Types
  <2> QED
    BY <1>2, <1>3, <2>1 DEF Types
<1>5. /\ W \subseteq Tasks
      /\ \A u \in W : waitsem'[u] = None /\ errno'[u] = e
      /\ \A u \in Tasks : u \notin W => waitsem'[u] = waitsem[u] /\ errno'[u] = errno[u]
  BY <1>1 DEF Wakes
<1>6. SemExact'
  <2>1. ASSUME NEW x \in Sems
        PROVE  Balanced(x, count[x], Waiting(x), Granted(x), Owners(x))'
    <3>1. Balanced(x, count[x], Waiting(x), Granted(x), Owners(x)) /\ x # None
      BY SemNow, KernelAssumption
    <3>2. Owners(x)' = Owners(x)
      BY DEF Owners
    <3>3. CASE count' = count /\ \A u \in W : u \in sigwait
      <4>1. \A u \in W : asked[u] = None /\ waitsem[u] = None
        BY <1>3, <1>5, <3>3 DEF Calls, CallOf
      <4>2. Waiting(x)' = Waiting(x)
        BY <1>5, <3>1, <4>1 DEF Waiting
      <4>3. Granted(x)' = Granted(x)
        BY <1>5, <3>1, <4>1 DEF Granted
      <4> QED
        BY <3>1, <3>2, <3>3, <4>2, <4>3, SemKept
    <3>4. CASE /\ W = {w} /\ waitsem[w] # None
               /\ count' = [count EXCEPT ![waitsem[w]] = @ + 1]
      <4>1. waitsem[w] \in Sems
        BY <1>3, <3>4 DEF Types
      <4>2. Granted(x)' = Granted(x)
        BY <1>1, <1>5, <3>4 DEF Granted
      <4>3. CASE x # waitsem[w]
        <5>1. count'[x] = count[x]
          BY <1>3, <3>4, <4>3 DEF Types
        <5>2. Waiting(x)' = Waiting(x)
          BY <1>5, <3>1, <3>4, <4>3 DEF Waiting
        <5> QED
          BY <3>1, <3>2, <4>2, <5>1, <5>2, SemKept
      <4>4. CASE x = waitsem[w]
        <5>1. count'[x] = count[x] + 1
          BY <1>3, <3>4, <4>1, <4>4 DEF Types
        <5>2. w \in Waiting(x) /\ Waiting(x)' = Waiting(x) \ {w}
          BY <1>5, <3>1, <3>4, <4>4 DEF Waiting
        <5>3. Granted(x) \subseteq Tasks /\ Owners(x) \subseteq Tasks
          BY DEF Granted, Owners
        <5>4. Balanced(x, count[x] + 1, Waiting(x) \ {w}, Granted(x), Owners(x))
          BY <3>1, <5>2, <5>3, BalancedRelease
        <5> QED
          BY <3>2, <4>2, <5>1, <5>2, <5>4 DEF Balanced
      <4> QED
        BY <4>3, <4>4
    <3> QED
      BY <1>1, <3>3, <3>4
  <2> QED
    BY <2>1, SemNext
<1> QED
  BY <1>2, <1>4, <1>6

(* A task sends a signal to another one.                                   *)
LEMMA KillInv ==
  ASSUME Inv, NEW t \in Tasks, NEW target \in Tasks, Kill(t, target)
  PROVE  Inv'
<1>1. /\ At(t, "locked") /\ pc' = [pc EXCEPT ![t] = "unlock"]
      /\ SigEnd(target, "EINTR") \/ SemWaitirq(target, "EINTR")
  BY DEF Kill
<1>2. /\ lockcount' = lockcount /\ asked' = asked /\ holds' = holds /\ wdlist' = wdlist
      /\ isr' = isr /\ want' = want /\ passed' = passed
  BY DEF Kill, clock
<1>3. pc[t] = "locked" /\ t \in All
  BY <1>1, AtRuns
<1>4. Types /\ Clocks
  BY DEF Inv
<1>5. /\ pc' \in [All -> {"run", "locked", "sleep", "unlock", "wait"}]
      /\ \A u \in All : pc'[u] = pc[u] \/ (pc[u] = "locked" /\ pc'[u] = "unlock")
  BY <1>1, <1>3, <1>4 DEF Types
<1>6. /\ Lists' /\ Types' /\ Calls' /\ Held' /\ SemExact' /\ TimeoutExact'
      /\ Timed' \subseteq Timed
  <2> DEFINE e == "EINTR"
  <2>1. /\ e \in {"EINTR", "ETIMEDOUT"} /\ e # "ETIMEDOUT" /\ DogList(wdlist')
        /\ SigEnd(target, e) \/ SemWaitirq(target, e)
    BY <1>1, <1>2, <1>4 DEF Types
  <2> HIDE DEF e
  <2> QED
    BY <1>2, <1>5, <2>1, EndedInv
<1>7. Clocks'
  <2>1. Timed \subseteq Tasks /\ Tasks \subseteq All
    BY DEF Inv, Lists, Apart, Timed, All
  <2>2. /\ \A u \in Tasks : pc'[u] = pc[u] \/ pc[u] \notin {"sleep", "wait"}
        /\ \A u \in Timed' : u \in Tasks
    BY <1>5, <1>6, <2>1
  <2> QED
    BY <1>2, <1>4, <1>6, <2>2, ClocksKept
<1> QED
  BY <1>6, <1>7 DEF Inv

(* The timer that expires has run out.                                     *)
LEMMA HeadExpires ==
  ASSUME Inv, Overdue
  PROVE  /\ Head(wdlist).dog \in Dogs /\ LeftIn(wdlist)[Head(wdlist).dog] = 0
         /\ <<Head(wdlist).dog, Head(wdlist).func>> \in Entries(wdlist)
<1>1. wdlist # <<>> /\ Head(wdlist).lag <= 0 /\ DogList(wdlist)
  BY DEF Overdue, Inv, Types
<1>2. /\ 1 \in 1..Len(wdlist) /\ wdlist[1].lag \in Nat /\ Head(wdlist) = wdlist[1]
      /\ LeftIn(wdlist)[wdlist[1].dog] = wdlist[1].lag
  BY <1>1, FirstDue
<1>3. wdlist[1].dog \in Dogs
  BY <1>1, <1>2, DogListType DEF DogList
<1>4. <<wdlist[1].dog, wdlist[1].func>> \in Entries(wdlist)
  BY <1>2 DEF Entries
<1> QED
  BY <1>1, <1>2, <1>3, <1>4

(* The timer of a wait expires and ends it.                                *)
LEMMA TimeoutInv ==
  ASSUME Inv, NEW d \in Tasks, NEW func, <<d, func>> \in Entries(wdlist),
         LeftIn(wdlist)[d] = 0, wdlist' = WdCancel(wdlist, d),
         \/ func = "sig_timeout" /\ SigEnd(d, "ETIMEDOUT")
         \/ func = "sem_timeout" /\ SemWaitirq(d, "ETIMEDOUT"),
         UNCHANGED <<lockcount, pc, asked, holds, isr, clock>>
  PROVE  Inv'
<1>1. /\ lockcount' = lockcount /\ pc' = pc /\ asked' = asked /\ holds' = holds /\ isr' = isr
      /\ want' = want /\ passed' = passed
  BY DEF clock
<1>2. Types /\ Calls /\ Clocks /\ Timed \subseteq Tasks /\ d \in Dogs
  BY DEF Inv, Lists, Apart, Timed, Dogs
<1>3. pc[d] = (IF func = "sig_timeout" THEN "sleep" ELSE "wait") /\ want[d] > 0
  <2> DEFINE e == <<d, func>>
  <2>1. e \in Entries(wdlist) /\ e[1] = d /\ e[2] = func
    OBVIOUS
  <2> HIDE DEF e
  <2> QED
    BY <1>2, <2>1 DEF Clocks
<1>4. CallOf(d)
  BY <1>2 DEF Calls
<1>5. d \in Range(semwait) \cup sigwait => d \in Timed
  BY <1>3, <1>4 DEF CallOf, Timed
<1>6. d \in Timed => passed[d] = want[d] + 1
  <2>1. want[d] \in Nat /\ passed[d] \in Nat
    BY <1>2 DEF Types
  <2> QED
    BY <1>2, <2>1 DEF Clocks
<1>7. DogList(wdlist')
  BY <1>2, Cancelled DEF Types
<1>8. /\ Lists' /\ Types' /\ Calls' /\ Held' /\ SemExact' /\ TimeoutExact'
      /\ Timed' \subseteq Timed
  <2> DEFINE e == "ETIMEDOUT"
  <2>1. e \in {"EINTR", "ETIMEDOUT"} /\ (SigEnd(d, e) \/ SemWaitirq(d, e))
    OBVIOUS
  <2>2. /\ pc' \in [All -> {"run", "locked", "sleep", "unlock", "wait"}]
        /\ \A u \in All : pc'[u] = pc[u]
    BY <1>1, <1>2 DEF Types
  <2> HIDE DEF e
  <2> QED
    BY <1>1, <1>5, <1>6, <1>7, <2>1, <2>2, EndedInv
<1>9. Timed' = Timed \ {d}
  <2>1. PICK W : Wakes(W, "ETIMEDOUT") /\ (W = {} \/ W = {d}) /\ (W = {} => d \notin Timed)
    <3>1. CASE func = "sig_timeout" /\ SigEnd(d, "ETIMEDOUT")
      <4>1. waitsem[d] = None
        BY <1>3, <1>4, <3>1 DEF CallOf
      <4>2. \/ Wakes({}, "ETIMEDOUT") /\ d \notin sigwait
            \/ Wakes({d}, "ETIMEDOUT")
        BY <1>1, <3>1, SigEndWakes
      <4> QED
        BY <4>1, <4>2 DEF Timed
    <3>2. CASE func = "sem_timeout" /\ SemWaitirq(d, "ETIMEDOUT")
      <4>1. d \notin sigwait
        BY <1>3, <1>4, <3>2 DEF CallOf
      <4>2. \/ Wakes({}, "ETIMEDOUT") /\ waitsem[d] = None
            \/ Wakes({d}, "ETIMEDOUT")
        BY <1>1, <3>2, SemWaitirqWakes
      <4> QED
        BY <4>1, <4>2 DEF Timed
    <3> QED
      BY <3>1, <3>2
  <2>2. Timed' = Timed \ W
    BY <1>1, <2>1, Zenon DEF Wakes, Timed
  <2> QED
    BY <2>1, <2>2
<1>10. Clocks'
  BY <1>1, <1>2, <1>9, ClocksStopped DEF Types
<1> QED
  BY <1>8, <1>10 DEF Inv

(* The timer of the Ethernet driver restarts.                              *)
LEMMA Restarted ==
  ASSUME DogList(wdlist), \A e \in Entries(wdlist) : e[1] = Poll <=> e[2] = "polltimer",
         wdlist' = WdStart(WdCancel(wdlist, Poll), Poll, "polltimer", PollDelay)
  PROVE  /\ DogList(wdlist')
         /\ LeftIn(wdlist') = [LeftIn(wdlist) EXCEPT ![Poll] = PollDelay + 1]
         /\ Entries(wdlist') = {e \in Entries(wdlist) : e[1] # Poll} \cup {<<Poll, "polltimer">>}
<1> DEFINE rest == WdCancel(wdlist, Poll)
           func == "polltimer"
<1>1. /\ Poll \in Dogs /\ PollDelay \in Nat \ {0}
      /\ func \in {"sig_timeout", "sem_timeout", "polltimer"}
  BY KernelAssumption DEF Dogs
<1>2. /\ DogList(rest) /\ LeftIn(rest) = [LeftIn(wdlist) EXCEPT ![Poll] = -1]
      /\ Entries(rest) = {e \in Entries(wdlist) : e[1] # Poll}
  BY <1>1, Cancelled
<1>3. wdlist' = WdStart(rest, Poll, func, PollDelay)
  OBVIOUS
<1> HIDE DEF rest, func
<1>4. \A i \in 1..Len(rest) : rest[i].dog # Poll
  <2> SUFFICES ASSUME NEW i \in 1..Len(rest), rest[i].dog = Poll PROVE FALSE
    OBVIOUS
  <2>1. <<Poll, rest[i].func>> \in Entries(rest)
    BY DEF Entries
  <2> QED
    BY <1>2, <2>1
<1>5. /\ DogList(wdlist') /\ LeftIn(wdlist') = [LeftIn(rest) EXCEPT ![Poll] = PollDelay + 1]
      /\ Entries(wdlist') = Entries(rest) \cup {<<Poll, func>>}
  <2> DEFINE new == WdStart(rest, Poll, func, PollDelay)
  <2>1. /\ DogList(new) /\ LeftIn(new) = [LeftIn(rest) EXCEPT ![Poll] = PollDelay + 1]
        /\ Entries(new) = Entries(rest) \cup {<<Poll, func>>}
    <3>1. /\ DogList(rest) /\ Poll \in Dogs /\ \A i \in 1..Len(rest) : rest[i].dog # Poll
          /\ func \in {"sig_timeout", "sem_timeout", "polltimer"} /\ PollDelay \in Nat \ {0}
      BY <1>1, <1>2, <1>4
    <3> HIDE DEF new
    <3>2. new = WdStart(rest, Poll, func, PollDelay)
      BY DEF new
    <3> QED
      BY ONLY <3>1, <3>2, Started
  <2> QED
    BY ONLY <1>3, <2>1
<1>6. LeftIn(wdlist) \in [Dogs -> Nat \cup {-1}]
  BY LeftOfEntry
<1>7. LeftIn(wdlist') = [LeftIn(wdlist) EXCEPT ![Poll] = PollDelay + 1]
  BY <1>2, <1>5, <1>6
<1> QED
  BY <1>2, <1>5, <1>7 DEF func

(* The timer of the Ethernet driver expires and restarts itself.           *)
LEMMA PollInv ==
  ASSUME Inv, isr, UNCHANGED <<lists, waits, count>>,
         wdlist' = WdStart(WdCancel(wdlist, Poll), Poll, "polltimer", PollDelay),
         UNCHANGED <<lockcount, pc, asked, holds, isr, clock>>
  PROVE  Inv'
<1>1. /\ ready' = ready /\ pending' = pending /\ semwait' = semwait /\ sigwait' = sigwait
      /\ waitsem' = waitsem /\ errno' = errno /\ asked' = asked /\ pc' = pc /\ isr' = isr
      /\ lockcount' = lockcount /\ count' = count /\ holds' = holds
      /\ want' = want /\ passed' = passed
  BY DEF lists, waits, clock
<1>2. DogList(wdlist) /\ Clocks
  BY DEF Inv, Types
<1>3. /\ DogList(wdlist')
      /\ LeftIn(wdlist') = [LeftIn(wdlist) EXCEPT ![Poll] = PollDelay + 1]
      /\ Entries(wdlist') = {e \in Entries(wdlist) : e[1] # Poll} \cup {<<Poll, "polltimer">>}
  BY <1>2, Restarted DEF Clocks
<1>4. Types'
  BY <1>1, <1>3 DEF Inv, Types
<1>5. Lists' /\ Held' /\ TimeoutExact' /\ SemExact' /\ Timed' = Timed
  BY <1>1, Zenon
  DEF Inv, Lists, Held, current, TimeoutExact, SemExact, Waiting, Granted, Owners, Timed
<1>6. Calls'
  BY <1>1 DEF Inv, Calls, CallOf
<1>7. Poll \notin Tasks /\ Timed \subseteq Tasks /\ Tasks \subseteq Dogs
  BY KernelAssumption, Zenon DEF Inv, Lists, Apart, Timed, Dogs, All
<1>8. ASSUME NEW e \in Entries(wdlist')
      PROVE  /\ e[1] = Poll <=> e[2] = "polltimer"
             /\ e[1] \in Tasks =>
                  /\ pc'[e[1]] = (IF e[2] = "sig_timeout" THEN "sleep" ELSE "wait")
                  /\ want'[e[1]] > 0
  <2>1. CASE e = <<Poll, "polltimer">>
    <3>1. e[1] = Poll /\ e[2] = "polltimer"
      BY <2>1
    <3> QED
      BY <1>7, <3>1
  <2>2. CASE e \in Entries(wdlist)
    BY <1>1, <1>2, <2>2 DEF Clocks
  <2> QED
    BY <1>3, <2>1, <2>2
<1>9. ASSUME NEW u \in Timed'
      PROVE  /\ LeftIn(wdlist')[u] # -1 /\ want'[u] > 0
             /\ LeftIn(wdlist')[u] + passed'[u] = want'[u] + 1
  <2>1. u \in Timed /\ u # Poll /\ u \in Dogs
    BY <1>5, <1>7
  <2>2. LeftIn(wdlist')[u] = LeftIn(wdlist)[u]
    <3>1. LeftIn(wdlist) \in [Dogs -> Nat \cup {-1}]
      BY <1>2, LeftOfEntry
    <3> QED
      BY <1>3, <2>1, <3>1
  <2> QED
    BY <1>1, <1>2, <2>1, <2>2 DEF Clocks
<1>10. Clocks'
  <2>1. ~isr' => \A d \in Dogs : LeftIn(wdlist')[d] # 0
    BY <1>1
  <2> QED
    BY <1>8, <1>9, <2>1, ListPrime DEF Clocks
<1> QED
  BY <1>4, <1>5, <1>6, <1>10 DEF Inv

(* A timer expires.                                                        *)
LEMMA ExpireInv ==
  ASSUME Inv, Expire
  PROVE  Inv'
<1> DEFINE d == Head(wdlist).dog
           func == Head(wdlist).func
<1>1. /\ isr /\ Overdue /\ UNCHANGED <<lockcount, pc, asked, holds, isr, clock>>
      /\ \/ /\ func = "sig_timeout" /\ SigEnd(d, "ETIMEDOUT")
            /\ wdlist' = WdCancel(wdlist, d)
         \/ /\ func = "sem_timeout" /\ SemWaitirq(d, "ETIMEDOUT")
            /\ wdlist' = WdCancel(wdlist, d)
         \/ /\ func = "polltimer"
            /\ wdlist' = WdStart(WdCancel(wdlist, d), d, "polltimer", PollDelay)
            /\ UNCHANGED <<lists, waits, count>>
  BY DEF Expire
<1>2. d \in Dogs /\ LeftIn(wdlist)[d] = 0 /\ <<d, func>> \in Entries(wdlist)
  BY <1>1, HeadExpires
<1> HIDE DEF d, func
<1>3. d = Poll <=> func = "polltimer"
  <2> DEFINE e == <<d, func>>
  <2>1. e \in Entries(wdlist) /\ e[1] = d /\ e[2] = func
    BY <1>2
  <2> HIDE DEF e
  <2> QED
    BY <2>1 DEF Inv, Clocks
<1>4. CASE func = "polltimer"
  BY <1>1, <1>3, <1>4, PollInv
<1>5. CASE func # "polltimer"
  <2>1. d \in Tasks
    BY <1>2, <1>3, <1>5 DEF Dogs
  <2> QED
    BY <1>1, <1>2, <1>5, <2>1, TimeoutInv
<1> QED
  BY <1>4, <1>5

-----------------------------------------------------------------------------
(* The invariant holds in every state. *)

(* The tasks start in the order of their priorities.                       *)
LEMMA InitLists ==
  ASSUME NEW order \in [1..Cardinality(Tasks) -> Tasks], Range(order) = Tasks
  PROVE  Apart(Merge(<<Idle>>, order), <<>>, <<>>, {})
<1> DEFINE N == Cardinality(Tasks)
           one == <<Idle>>
<1>1. N \in Nat /\ IsFiniteSet(Tasks) /\ Idle \in All /\ Tasks \subseteq All /\ Idle \notin Tasks
  BY KernelAssumption, FS_CardinalityType DEF All
<1>2. IsFiniteSet(1..N) /\ Cardinality(1..N) = N
  <2> HIDE DEF N
  <2>1. 1 \in Int /\ N \in Int
    BY <1>1
  <2>2. /\ IsFiniteSet(1..N)
        /\ Cardinality(1..N) = IF 1 > N THEN 0 ELSE N - 1 + 1
    BY <2>1, FS_Interval
  <2>3. Cardinality(1..N) = N
    BY ONLY <1>1, <2>2
  <2> QED
    BY <2>2, <2>3
<1>3. order \in Seq(Tasks) /\ Len(order) = N /\ DOMAIN order = 1..N
  BY <1>1, FunctionIsList
<1>4. \A t \in Tasks : \E i \in 1..N : order[i] = t
  BY <1>3, Members
<1>5. order \in Surjection(1..N, Tasks)
  BY <1>4 DEF Surjection
<1>6. order \in Injection(1..N, Tasks)
  BY <1>2, <1>5, FS_SurjSameCardinalityImpliesInj
<1>7. Once(order)
  BY <1>3, <1>6 DEF Once, Injection, IsInjective
<1>8. order \in Seq(All)
  <2>1. order \in [1..N -> All]
    BY <1>1
  <2> QED
    BY <1>1, <2>1, FunctionIsList
<1>9. one \in Seq(All) /\ Len(one) = 1 /\ one[1] = Idle
  BY <1>1
<1> HIDE DEF one, N
<1>10. TaskList(one)
  BY <1>9 DEF TaskList, Sorted, Once
<1>11. Range(one) = {Idle}
  BY <1>9, Members
<1> DEFINE new == Merge(one, order)
<1>12. TaskList(new) /\ Range(new) = {Idle} \cup Tasks
  <2>1. Range(one) \cap Range(order) = {}
    BY <1>1, <1>11
  <2> QED
    BY <1>7, <1>8, <1>10, <1>11, <2>1, Merged
<1> HIDE DEF new
<1>13. Apart(new, <<>>, <<>>, {})
  BY <1>12, NoTasks DEF Apart, All
<1> QED
  BY <1>13 DEF new, one

(* The timer of the Ethernet driver is on from the start.                  *)
LEMMA InitTimers ==
  ASSUME NEW list, list = <<[dog |-> Poll, func |-> "polltimer", lag |-> PollDelay + 1]>>
  PROVE  /\ DogList(list) /\ Entries(list) = {<<Poll, "polltimer">>}
         /\ LeftIn(list) = [d \in Dogs |-> IF d = Poll THEN PollDelay + 1 ELSE -1]
<1> DEFINE e == [dog |-> Poll, func |-> "polltimer", lag |-> PollDelay + 1]
<1>1. /\ Poll \in Dogs /\ PollDelay + 1 \in Nat /\ e \in Timer
      /\ e.dog = Poll /\ e.func = "polltimer" /\ e.lag = PollDelay + 1
  BY KernelAssumption DEF Dogs, Timer
<1>2. list = <<e>>
  OBVIOUS
<1> HIDE DEF e
<1>3. list \in Seq(Timer) /\ Len(list) = 1 /\ list[1] = e /\ list # <<>>
  BY <1>1, <1>2
<1>4. \A i \in 1..Len(list) : i = 1
  BY <1>3
<1>5. DogList(list)
  BY <1>3, <1>4 DEF DogList
<1>6. Entries(list) = {<<Poll, "polltimer">>}
  <2>1. 1..Len(list) = {1} /\ <<list[1].dog, list[1].func>> = <<Poll, "polltimer">>
    BY <1>1, <1>3
  <2> QED
    BY <2>1 DEF Entries
<1>7. LeftIn(list) \in [Dogs -> Nat \cup {-1}]
  BY <1>5, LeftOfEntry
<1>8. LeftIn(list)[Poll] = PollDelay + 1
  <2>1. LeftIn(list)[list[1].dog] = list[1].lag
    BY <1>3, <1>5, FirstDue
  <2> QED
    BY <1>1, <1>3, <2>1
<1>9. ASSUME NEW d \in Dogs, d # Poll PROVE LeftIn(list)[d] = -1
  <2>1. \A i \in 1..Len(list) : list[i].dog # d
    BY <1>1, <1>3, <1>4, <1>9
  <2> QED
    BY <1>5, <2>1, LeftOfEntry
<1> QED
  BY <1>1, <1>5, <1>6, <1>7, <1>8, <1>9

(* The system starts in the invariant.                                     *)
LEMMA InitInv == Init => Inv
<1> SUFFICES ASSUME Init PROVE Inv
  OBVIOUS
<1>1. PICK order \in [1..Cardinality(Tasks) -> Tasks] :
        Range(order) = Tasks /\ ready = Merge(<<Idle>>, order)
  BY DEF Init
<1>2. /\ pending = <<>> /\ semwait = <<>> /\ sigwait = {}
      /\ lockcount = [t \in All |-> 0] /\ pc = [t \in All |-> "run"]
      /\ asked = [t \in Tasks |-> None] /\ waitsem = [t \in Tasks |-> None]
      /\ errno = [t \in Tasks |-> "OK"] /\ holds = [t \in Tasks |-> {}]
      /\ count = [s \in Sems |-> IF s \in Mutexes THEN 1 ELSE 0]
      /\ wdlist = <<[dog |-> Poll, func |-> "polltimer", lag |-> PollDelay + 1]>>
      /\ isr = FALSE /\ want = [t \in Tasks |-> 0] /\ passed = [t \in Tasks |-> 0]
  BY DEF Init
<1>3. Lists /\ Held
  BY <1>1, <1>2, InitLists DEF Lists, Held
<1>4. /\ DogList(wdlist) /\ Entries(wdlist) = {<<Poll, "polltimer">>}
      /\ LeftIn(wdlist) = [d \in Dogs |-> IF d = Poll THEN PollDelay + 1 ELSE -1]
  BY <1>2, InitTimers
<1>5. Types
  <2>1. count \in [Sems -> Int]
    BY <1>2
  <2>2. lockcount \in [All -> 0..1] /\ want \in [Tasks -> Nat] /\ passed \in [Tasks -> Nat]
    BY <1>2
  <2> QED
    BY <1>2, <1>4, <2>1, <2>2, Zenon DEF Types
<1>6. Calls
  <2>1. ASSUME NEW t \in Tasks PROVE CallOf(t)
    <3>1. t \in All /\ Range(semwait) = {}
      BY <1>2, NoTasks DEF All
    <3> QED
      BY <1>2, <3>1 DEF CallOf
  <2> QED
    BY <1>2, <2>1 DEF Calls, All
<1>7. Clocks
  <2>1. Timed = {}
    BY <1>2 DEF Timed
  <2>2. \A d \in Dogs : LeftIn(wdlist)[d] # 0
    BY <1>4, KernelAssumption
  <2>3. ASSUME NEW e \in Entries(wdlist) PROVE e[1] = Poll /\ e[2] = "polltimer"
    <3>1. e = <<Poll, "polltimer">>
      BY <1>4
    <3> QED
      BY <3>1
  <2>4. Poll \notin Tasks
    BY KernelAssumption DEF All
  <2> QED
    BY <2>1, <2>2, <2>3, <2>4 DEF Clocks
<1>8. SemExact
  <2>1. \A s \in Sems : Waiting(s) = {} /\ Granted(s) = {} /\ Owners(s) = {}
    BY <1>2, KernelAssumption DEF Waiting, Granted, Owners
  <2>2. Cardinality({}) = 0
    BY FS_EmptySet
  <2>3. ASSUME NEW s \in Sems
        PROVE  /\ Cardinality(Waiting(s)) = 0 /\ Cardinality(Granted(s)) = 0
               /\ Cardinality(Owners(s)) = 0
    BY <2>1, <2>2, Zenon
  <2> QED
    BY <1>2, <2>1, <2>3 DEF SemExact, Sems
<1>9. TimeoutExact
  BY <1>2 DEF TimeoutExact
<1> QED
  BY <1>3, <1>5, <1>6, <1>7, <1>8, <1>9 DEF Inv

(* Nothing happens.                                                        *)
LEMMA StutterInv == Inv /\ UNCHANGED vars => Inv'
<1> SUFFICES ASSUME Inv, UNCHANGED vars PROVE Inv'
  OBVIOUS
<1>1. /\ ready' = ready /\ pending' = pending /\ semwait' = semwait /\ sigwait' = sigwait
      /\ waitsem' = waitsem /\ errno' = errno /\ asked' = asked /\ pc' = pc /\ isr' = isr
      /\ lockcount' = lockcount /\ count' = count /\ holds' = holds /\ wdlist' = wdlist
      /\ want' = want /\ passed' = passed
  BY DEF vars, lists, waits, clock
<1>2. Types'
  BY <1>1 DEF Inv, Types
<1>3. Lists' /\ Held' /\ TimeoutExact' /\ SemExact' /\ Timed' = Timed
  BY <1>1, Zenon
  DEF Inv, Lists, Held, current, TimeoutExact, SemExact, Waiting, Granted, Owners, Timed
<1>4. Calls'
  BY <1>1 DEF Inv, Calls, CallOf
<1>5. Clocks'
  <2>1. LeftIn(wdlist)' = LeftIn(wdlist) /\ Entries(wdlist)' = Entries(wdlist)
    BY <1>1, ListPrime
  <2> QED
    BY <1>1, <1>3, <2>1 DEF Inv, Clocks
<1> QED
  BY <1>2, <1>3, <1>4, <1>5 DEF Inv

(* Every step preserves the invariant.                                     *)
LEMMA NextInv == Inv /\ [Next]_vars => Inv'
<1> SUFFICES ASSUME Inv, [Next]_vars PROVE Inv'
  OBVIOUS
<1>1. ASSUME NEW t \in Tasks, Call(t) PROVE Inv'
  <2>1. CASE SchedLock(t)
    BY <2>1, SchedLockInv
  <2>2. CASE Sleep(t)
    BY <2>2, SleepInv
  <2>3. CASE \E target \in Tasks : Kill(t, target)
    BY <2>3, KillInv
  <2>4. ASSUME NEW s \in Sems, SemTake(t, s) PROVE Inv'
    BY <2>4, SemTakeInv
  <2>5. ASSUME NEW s \in Sems, SemWait(t, s) PROVE Inv'
    BY <2>5, SemWaitInv
  <2>6. ASSUME NEW s \in Sems, SemTimedWait(t, s) PROVE Inv'
    BY <2>6, SemTimedWaitInv
  <2>7. ASSUME NEW s \in Sems, SemPost(t, s) PROVE Inv'
    BY <2>7, SemPostInv
  <2> QED
    BY <1>1, <2>1, <2>2, <2>3, <2>4, <2>5, <2>6, <2>7 DEF Call
<1>2. ASSUME NEW t \in Tasks, Finish(t) PROVE Inv'
  BY <1>2, SleepReturnInv, SchedUnlockInv, SemReturnInv DEF Finish
<1>3. ASSUME NEW s \in Events, IrqPost(s) PROVE Inv'
  BY <1>3, IrqPostInv
<1>4. CASE Tick
  BY <1>4, TickInv
<1>5. CASE Expire
  BY <1>5, ExpireInv
<1>6. CASE EndTick
  BY <1>6, EndTickInv
<1>7. CASE UNCHANGED vars
  BY <1>7, StutterInv
<1> QED
  BY <1>1, <1>2, <1>3, <1>4, <1>5, <1>6, <1>7 DEF Next

-----------------------------------------------------------------------------
(* The list of lags implements independent timers. *)

(* The refinement mapping, in the form the lemmas about lists use.         *)
LEMMA LeftMap == Inv => Left = LeftIn(wdlist) /\ Left \in [Dogs -> Nat \cup {-1}]
<1> SUFFICES ASSUME Inv PROVE Left = LeftIn(wdlist) /\ Left \in [Dogs -> Nat \cup {-1}]
  OBVIOUS
<1>1. DogList(wdlist)
  BY DEF Inv, Types
<1>2. DOMAIN wdlist = 1..Len(wdlist)
  BY <1>1, DogListType DEF DogList
<1>3. Left = LeftIn(wdlist)
  BY <1>2 DEF Left, LeftIn, Active, Dog
<1> QED
  BY <1>1, <1>3, LeftOfEntry

(* The same for the next state.                                            *)
LEMMA LeftMapNext == Inv' => Left' = LeftIn(wdlist')
<1> SUFFICES ASSUME Inv' PROVE Left' = LeftIn(wdlist')
  OBVIOUS
<1>1. wdlist' \in Seq(Timer)
  BY DEF Inv, Types, DogList
<1>2. DOMAIN wdlist' = 1..Len(wdlist')
  BY <1>1, DogListType
<1> QED
  BY <1>2 DEF Left, LeftIn, Active, Dog, Due

(* A task outside of a wait has no timer.                                  *)
LEMMA NoTimer ==
  ASSUME Inv, NEW t \in Tasks, pc[t] \in {"run", "locked"}
  PROVE  t \in Dogs /\ (\A i \in 1..Len(wdlist) : wdlist[i].dog # t) /\ LeftIn(wdlist)[t] = -1
<1>1. t \in Dogs /\ DogList(wdlist)
  BY DEF Dogs, Inv, Types
<1>2. \A i \in 1..Len(wdlist) : wdlist[i].dog # t
  <2> SUFFICES ASSUME NEW i \in 1..Len(wdlist), wdlist[i].dog = t PROVE FALSE
    OBVIOUS
  <2>1. <<t, wdlist[i].func>> \in Entries(wdlist)
    BY DEF Entries
  <2>2. pc[t] = (IF wdlist[i].func = "sig_timeout" THEN "sleep" ELSE "wait")
    BY <2>1 DEF Inv, Clocks
  <2> QED
    BY <2>2
<1> QED
  BY <1>1, <1>2, LeftOfEntry

(* A wait starts its timer.                                                *)
LEMMA StartMaps ==
  ASSUME Inv, Inv', NEW t \in Tasks, pc[t] \in {"run", "locked"}, NEW n \in Delays[t],
         NEW func \in {"sig_timeout", "sem_timeout"}, wdlist' = WdStart(wdlist, t, func, n)
  PROVE  Abstract!Next
<1>1. /\ t \in Dogs /\ (\A i \in 1..Len(wdlist) : wdlist[i].dog # t)
      /\ LeftIn(wdlist)[t] = -1 /\ DogList(wdlist)
  BY NoTimer, Zenon DEF Inv, Types
<1>2. n \in Nat \ {0} /\ func \in {"sig_timeout", "sem_timeout", "polltimer"}
  BY KernelAssumption
<1>3. LeftIn(wdlist') = [LeftIn(wdlist) EXCEPT ![t] = n + 1]
  <2>1. LeftIn(WdStart(wdlist, t, func, n)) = [LeftIn(wdlist) EXCEPT ![t] = n + 1]
    BY ONLY <1>1, <1>2, Started
  <2> QED
    BY <2>1
<1>4. Left = LeftIn(wdlist)
  BY LeftMap
<1>5. Left' = LeftIn(wdlist')
  BY LeftMapNext
<1>6. n + 1 \in {m + 1 : m \in {PollDelay} \cup UNION {Delays[u] : u \in Tasks}}
  OBVIOUS
<1>7. Abstract!Start(t)
  BY <1>3, <1>4, <1>5, <1>6, Zenon DEF Abstract!Start
<1>8. Left[t] = -1
  BY <1>1, <1>4
<1> QED
  BY <1>1, <1>7, <1>8 DEF Abstract!Next, Abstract!Off

(* A wait that is over stops its timer, if it is still on.                 *)
LEMMA StopMaps ==
  ASSUME Inv, Inv', NEW t \in Tasks, ~isr, wdlist' = WdCancel(wdlist, t)
  PROVE  Abstract!Next \/ Left' = Left
<1>1. t \in Dogs /\ DogList(wdlist)
  BY DEF Inv, Types, Dogs
<1>2. LeftIn(wdlist') = [LeftIn(wdlist) EXCEPT ![t] = -1]
  BY <1>1, Cancelled
<1>3. Left = LeftIn(wdlist) /\ Left \in [Dogs -> Nat \cup {-1}]
  BY LeftMap
<1>4. Left' = [Left EXCEPT ![t] = -1]
  <2>1. Left' = LeftIn(wdlist')
    BY LeftMapNext
  <2> QED
    BY <1>2, <1>3, <2>1
<1>5. Left[t] # 0
  BY <1>1, <1>3 DEF Inv, Clocks
<1>6. CASE Left[t] = -1
  BY <1>3, <1>4, <1>6
<1>7. CASE Left[t] # -1
  <2>1. Left[t] > 0
    BY <1>1, <1>3, <1>5, <1>7
  <2>2. Abstract!Cancel(t)
    BY <1>4 DEF Abstract!Cancel, Abstract!Off
  <2> QED
    BY <1>1, <2>1, <2>2 DEF Abstract!Next
<1> QED
  BY <1>6, <1>7

(* Outside of the timer interrupt the first timer has a tick to lose.      *)
LEMMA TickPossible ==
  ASSUME Inv, ~isr, wdlist # <<>>
  PROVE  wdlist[1].lag # 0
<1>1. DogList(wdlist) /\ \A d \in Dogs : LeftIn(wdlist)[d] # 0
  BY DEF Inv, Types, Clocks
<1>2. 1 \in 1..Len(wdlist) /\ LeftIn(wdlist)[wdlist[1].dog] = wdlist[1].lag
  BY <1>1, FirstDue
<1>3. wdlist[1].dog \in Dogs
  BY <1>1, <1>2, DogListType DEF DogList
<1> QED
  BY <1>1, <1>2, <1>3

(* A tick of the list is a tick of all timers.                             *)
LEMMA TickMaps ==
  ASSUME Inv, Inv', Tick
  PROVE  Abstract!Next
<1>1. ~isr /\ wdlist # <<>> /\ wdlist' = [wdlist EXCEPT ![1].lag = @ - 1]
  BY DEF Tick, Masked
<1>2. DogList(wdlist) /\ Clocks
  BY DEF Inv, Types
<1>3. \A d \in Dogs : LeftIn(wdlist)[d] # 0
  BY <1>1, <1>2 DEF Clocks
<1>4. wdlist[1].lag # 0
  BY <1>1, TickPossible
<1>5. LeftIn(wdlist') = [d \in Dogs |-> IF LeftIn(wdlist)[d] = -1 THEN -1
                                        ELSE LeftIn(wdlist)[d] - 1]
  BY <1>1, <1>2, <1>4, Ticked, Zenon
<1>6. Left = LeftIn(wdlist)
  BY LeftMap
<1>7. Left' = LeftIn(wdlist')
  BY LeftMapNext
<1> QED
  BY <1>3, <1>5, <1>6, <1>7 DEF Abstract!Next, Abstract!Tick, Abstract!Off

(* A timer that expires has run out, and is off or started again.          *)
LEMMA ExpireMaps ==
  ASSUME Inv, Inv', Expire
  PROVE  Abstract!Next
<1> DEFINE d == Head(wdlist).dog
           func == Head(wdlist).func
<1>1. /\ Overdue
      /\ \/ func # "polltimer" /\ wdlist' = WdCancel(wdlist, d)
         \/ /\ func = "polltimer"
            /\ wdlist' = WdStart(WdCancel(wdlist, d), d, "polltimer", PollDelay)
  BY DEF Expire
<1>2. d \in Dogs /\ LeftIn(wdlist)[d] = 0 /\ <<d, func>> \in Entries(wdlist)
  BY <1>1, HeadExpires
<1> HIDE DEF d, func
<1>3. d = Poll <=> func = "polltimer"
  <2> DEFINE e == <<d, func>>
  <2>1. e \in Entries(wdlist) /\ e[1] = d /\ e[2] = func
    BY <1>2
  <2> HIDE DEF e
  <2> QED
    BY <2>1 DEF Inv, Clocks
<1>4. Left = LeftIn(wdlist)
  BY LeftMap
<1>5. Left' = LeftIn(wdlist')
  BY LeftMapNext
<1>6. DogList(wdlist) /\ \A e \in Entries(wdlist) : e[1] = Poll <=> e[2] = "polltimer"
  BY DEF Inv, Types, Clocks
<1>7. CASE func # "polltimer"
  <2>1. LeftIn(wdlist') = [LeftIn(wdlist) EXCEPT ![d] = -1]
    BY <1>1, <1>2, <1>6, <1>7, Cancelled
  <2>2. Abstract!Cancel(d)
    BY <1>4, <1>5, <2>1 DEF Abstract!Cancel, Abstract!Off
  <2> QED
    BY <1>2, <1>4, <2>2 DEF Abstract!Next, Abstract!Fire
<1>8. CASE func = "polltimer"
  <2>1. LeftIn(wdlist') = [LeftIn(wdlist) EXCEPT ![Poll] = PollDelay + 1]
    BY <1>1, <1>3, <1>6, <1>8, Restarted
  <2>2. PollDelay + 1 \in {m + 1 : m \in {PollDelay} \cup UNION {Delays[u] : u \in Tasks}}
    OBVIOUS
  <2>3. Abstract!Start(d)
    BY <1>3, <1>4, <1>5, <1>8, <2>1, <2>2, Zenon DEF Abstract!Start
  <2> QED
    BY <1>2, <1>4, <2>3 DEF Abstract!Next, Abstract!Fire
<1> QED
  BY <1>7, <1>8

(* What a step can do to the list of timers.                               *)
LEMMA TimerSteps ==
  ASSUME [Next]_vars
  PROVE  \/ wdlist' = wdlist
         \/ \E t \in Tasks : \E n \in Delays[t], func \in {"sig_timeout", "sem_timeout"} :
              pc[t] \in {"run", "locked"} /\ wdlist' = WdStart(wdlist, t, func, n)
         \/ \E t \in Tasks : ~isr /\ wdlist' = WdCancel(wdlist, t)
         \/ Tick \/ Expire
<1>1. ASSUME NEW t \in Tasks, Sleep(t)
      PROVE  \E n \in Delays[t], func \in {"sig_timeout", "sem_timeout"} :
               pc[t] \in {"run", "locked"} /\ wdlist' = WdStart(wdlist, t, func, n)
  BY <1>1, Zenon DEF Sleep, At
<1>2. ASSUME NEW t \in Tasks, NEW s \in Sems, SemTimedWait(t, s)
      PROVE  \E n \in Delays[t], func \in {"sig_timeout", "sem_timeout"} :
               pc[t] \in {"run", "locked"} /\ wdlist' = WdStart(wdlist, t, func, n)
  BY <1>2, Zenon DEF SemTimedWait, SemBlock, At
<1>3. ASSUME NEW t \in Tasks, SchedLock(t) \/ SchedUnlock(t) PROVE wdlist' = wdlist
  BY <1>3 DEF SchedLock, SchedUnlock
<1>4. ASSUME NEW t \in Tasks, NEW target \in Tasks, Kill(t, target) PROVE wdlist' = wdlist
  BY <1>4 DEF Kill
<1>5. ASSUME NEW t \in Tasks, NEW s \in Sems, SemTake(t, s) \/ SemWait(t, s) \/ SemPost(t, s)
      PROVE  wdlist' = wdlist
  BY <1>5, Zenon DEF SemTake, SemWait, SemPost
<1>6. ASSUME NEW t \in Tasks, SleepReturn(t) \/ SemReturn(t)
      PROVE  ~isr /\ wdlist' = WdCancel(wdlist, t)
  BY <1>6 DEF SleepReturn, SemReturn, At
<1>7. ASSUME NEW s \in Events, IrqPost(s) PROVE wdlist' = wdlist
  BY <1>7 DEF IrqPost
<1>8. CASE EndTick
  BY <1>8 DEF EndTick
<1>9. CASE UNCHANGED vars
  BY <1>9 DEF vars
<1>10. ASSUME NEW t \in Tasks, Call(t) \/ Finish(t)
       PROVE  \/ wdlist' = wdlist
              \/ \E n \in Delays[t], func \in {"sig_timeout", "sem_timeout"} :
                   pc[t] \in {"run", "locked"} /\ wdlist' = WdStart(wdlist, t, func, n)
              \/ ~isr /\ wdlist' = WdCancel(wdlist, t)
  BY <1>1, <1>2, <1>3, <1>4, <1>5, <1>6, <1>10, Zenon DEF Call, Finish
<1> QED
  BY <1>7, <1>8, <1>9, <1>10, Zenon DEF Next

(* Every step of the kernel is a step of the timers or leaves them alone.  *)
LEMMA NextMaps == Inv /\ Inv' /\ [Next]_vars => [Abstract!Next]_Left
<1> SUFFICES ASSUME Inv, Inv', [Next]_vars PROVE Abstract!Next \/ Left' = Left
  OBVIOUS
<1>1. ASSUME wdlist' = wdlist PROVE Left' = Left
  BY <1>1 DEF Left, Active, Dog, Due
<1>2. ASSUME NEW t \in Tasks, NEW n \in Delays[t], NEW func \in {"sig_timeout", "sem_timeout"},
             pc[t] \in {"run", "locked"}, wdlist' = WdStart(wdlist, t, func, n)
      PROVE  Abstract!Next
  BY <1>2, StartMaps
<1>3. ASSUME NEW t \in Tasks, ~isr, wdlist' = WdCancel(wdlist, t)
      PROVE  Abstract!Next \/ Left' = Left
  BY <1>3, StopMaps
<1>4. CASE Tick
  BY <1>4, TickMaps
<1>5. CASE Expire
  BY <1>5, ExpireMaps
<1> QED
  BY <1>1, <1>2, <1>3, <1>4, <1>5, TimerSteps, Zenon

(* The timers start off, except for the one of the Ethernet driver.        *)
LEMMA InitMaps == Init => Abstract!Init
<1> SUFFICES ASSUME Init PROVE Abstract!Init
  OBVIOUS
<1>1. wdlist = <<[dog |-> Poll, func |-> "polltimer", lag |-> PollDelay + 1]>> /\ Inv
  BY InitInv DEF Init
<1>2. Left = [d \in Dogs |-> IF d = Poll THEN PollDelay + 1 ELSE -1]
  BY <1>1, InitTimers, LeftMap
<1>3. PollDelay + 1 \in {m + 1 : m \in {PollDelay} \cup UNION {Delays[u] : u \in Tasks}}
  OBVIOUS
<1> QED
  BY <1>2, <1>3 DEF Abstract!Init, Abstract!Off

-----------------------------------------------------------------------------
(* What the invariant says. *)

(* The invariant implies that every task is in one list and the lists are  *)
(* sorted.                                                                 *)
LEMMA InvTypeOK == Inv => TypeOK
<1> SUFFICES ASSUME Inv PROVE TypeOK
  OBVIOUS
<1>1. Apart(ready, pending, semwait, sigwait)
  BY DEF Inv, Lists
<1>2. /\ TaskList(ready) /\ TaskList(pending) /\ TaskList(semwait)
      /\ \A t \in Tasks : t \in Range(ready) \/ t \in Range(pending)
                            \/ t \in Range(semwait) \/ t \in sigwait
      /\ \A t \in Tasks : /\ t \in Range(ready) => /\ t \notin Range(pending)
                                                  /\ t \notin Range(semwait)
                                                  /\ t \notin sigwait
                          /\ t \in Range(pending) => t \notin Range(semwait) /\ t \notin sigwait
                          /\ t \in Range(semwait) => t \notin sigwait
  BY <1>1 DEF Apart, All
<1>3. ASSUME NEW t \in Tasks
      PROVE  Cardinality({i \in 1..4 : InList(t)[i]}) = 1
  <2> DEFINE W == {i \in 1..4 : InList(t)[i]}
             a == t \in Range(ready)
             b == t \in Range(pending)
             c == t \in Range(semwait)
             d == t \in sigwait
  <2>1. InList(t) = <<a, b, c, d>>
    BY DEF InList
  <2>2. /\ a \/ b \/ c \/ d
        /\ a => (~b /\ ~c /\ ~d)
        /\ b => (~c /\ ~d)
        /\ c => ~d
    BY <1>2
  <2> HIDE DEF a, b, c, d
  <2>3. W = {1} \/ W = {2} \/ W = {3} \/ W = {4}
    <3>1. \A i \in 1..4 : i = 1 \/ i = 2 \/ i = 3 \/ i = 4
      OBVIOUS
    <3>2. /\ 1 \in W <=> a
          /\ 2 \in W <=> b
          /\ 3 \in W <=> c
          /\ 4 \in W <=> d
      BY <2>1
    <3> QED
      BY <2>2, <3>1, <3>2
  <2> HIDE DEF W
  <2>4. Cardinality(W) = 1
    BY <2>3, FS_Singleton
  <2> QED
    BY <2>4 DEF W
<1>4. Len(ready) + Len(pending) + Len(semwait) + Cardinality(sigwait) = Cardinality(All)
  BY <1>1, AllListed
<1>5. ASSUME NEW list \in {ready, pending, semwait},
             NEW i \in DOMAIN list, NEW j \in DOMAIN list, i < j
      PROVE  Priority[list[i]] >= Priority[list[j]]
  <2>1. TaskList(list)
    BY <1>2
  <2>2. DOMAIN list = 1..Len(list)
    BY <2>1, ListEntries DEF TaskList
  <2> QED
    BY <1>5, <2>1, <2>2 DEF TaskList, Sorted
<1>6. \A t \in Tasks : (t \in Range(semwait)) <=> (waitsem[t] # None)
  BY DEF Inv, Calls, CallOf
<1>7. lockcount \in [All -> 0..1]
  BY DEF Inv, Types
<1>8. \A i \in DOMAIN wdlist : wdlist[i].lag >= 0
  <2>1. wdlist \in Seq(Timer)
    BY DEF Inv, Types, DogList
  <2> QED
    BY <2>1, DogListType
<1> QED
  BY <1>3, <1>4, <1>5, <1>6, <1>7, <1>8 DEF TypeOK

(* The head of a sorted list has the highest priority.                     *)
LEMMA InvHighestRuns == Inv => HighestRuns
<1> SUFFICES ASSUME Inv, lockcount[current] = 0
             PROVE  pending = <<>> /\ \A t \in Range(ready) : Priority[t] <= Priority[current]
  BY DEF HighestRuns
<1>1. pending = <<>>
  BY DEF Inv, Held
<1>2. TaskList(ready) /\ Idle \in Range(ready)
  BY DEF Inv, Lists, Apart
<1>3. ready \in Seq(All) /\ Sorted(ready) /\ Len(ready) \in Nat
  BY <1>2, ListEntries DEF TaskList
<1>4. ASSUME NEW t \in Range(ready) PROVE Priority[t] <= Priority[current]
  <2>1. PICK i \in 1..Len(ready) : ready[i] = t
    BY <1>3, Members
  <2>2. 1 \in 1..Len(ready) /\ current = ready[1]
    <3>1. 1 \in 1..Len(ready)
      BY <1>3, <2>1
    <3> QED
      BY <1>3, <3>1 DEF current
  <2>3. t \in All /\ current \in All
    BY <1>3, <2>1, <2>2, ListEntries
  <2>4. Priority[t] \in Nat /\ Priority[current] \in Nat
    BY <2>3, KernelAssumption
  <2>5. CASE i = 1
    BY <2>1, <2>2, <2>4, <2>5
  <2>6. CASE i # 1
    <3>1. 1 < i
      BY <1>3, <2>1, <2>6
    <3> QED
      BY <1>3, <2>1, <2>2, <2>4, <3>1 DEF Sorted
  <2> QED
    BY <2>5, <2>6
<1> QED
  BY <1>1, <1>4

(* Every timer of a task in the list belongs to the call the task is in.   *)
LEMMA InvDogsOfWaits == Inv => DogsOfWaits
<1> SUFFICES ASSUME Inv, NEW i \in DOMAIN wdlist, Dog(i) \in Tasks
             PROVE  pc[Dog(i)] = (IF wdlist[i].func = "sig_timeout" THEN "sleep" ELSE "wait")
  BY DEF DogsOfWaits
<1> DEFINE e == <<wdlist[i].dog, wdlist[i].func>>
<1>1. e \in Entries(wdlist)
  <2>1. DOMAIN wdlist = 1..Len(wdlist)
    BY DogListType DEF Inv, Types, DogList
  <2> QED
    BY <2>1 DEF Entries
<1>2. pc[e[1]] = (IF e[2] = "sig_timeout" THEN "sleep" ELSE "wait")
  BY <1>1 DEF Inv, Clocks, Dog
<1> QED
  BY <1>2 DEF Dog

-----------------------------------------------------------------------------
(* The theorems. *)

(* The inductive invariant holds, whatever tasks, priorities, semaphores   *)
(* and delays there are.                                                   *)
THEOREM Invariance == Spec => []Inv
<1>1. Init => Inv
  BY InitInv
<1>2. Inv /\ [Next]_vars => Inv'
  BY NextInv
<1> QED
  BY <1>1, <1>2, PTL DEF Spec

(* Every task is always in exactly one list, once, and the lists are       *)
(* sorted (up_block_task, up_unblock_task, sched_addprioritized).          *)
THEOREM ListsSorted == Spec => []TypeOK
BY Invariance, InvTypeOK, PTL

(* The running task always has the highest priority of those that could    *)
(* run, unless it has locked the scheduler (sched_addreadytorun).          *)
THEOREM PriorityScheduling == Spec => []HighestRuns
BY Invariance, InvHighestRuns, PTL

(* The count of a semaphore is always exact, and a mutex is held by one    *)
(* task (sem_wait, sem_post, sem_waitirq).                                 *)
THEOREM SemaphoresExact == Spec => []SemExact
<1>1. Inv => SemExact
  BY DEF Inv
<1> QED
  BY <1>1, Invariance, PTL

(* No timer of a task is ever on outside of the wait that started it       *)
(* (sigtimedwait, sem_timedwait).                                          *)
THEOREM NoLateTimer == Spec => []DogsOfWaits
BY Invariance, InvDogsOfWaits, PTL

(* A wait that times out has always lasted the ticks it asked for and one  *)
(* more (wd_start, wd_timer).                                              *)
THEOREM TimeoutsExact == Spec => []TimeoutExact
<1>1. Inv => TimeoutExact
  BY DEF Inv
<1> QED
  BY <1>1, Invariance, PTL

(* The list of lags implements the specification of independent timers     *)
(* (wd_start, wd_cancel, wd_timer).                                        *)
THEOREM ImplementsTimers == Spec => TimersIndependent
<1>1. Init => Abstract!Init
  BY InitMaps
<1>2. Inv /\ Inv' /\ [Next]_vars => [Abstract!Next]_Left
  BY NextMaps
<1> QED
  BY <1>1, <1>2, Invariance, PTL DEF Spec, TimersIndependent, Abstract!Spec

(* A mutex belongs to one task at most, counting the task that a post has  *)
(* chosen and that has not run yet.                                        *)
Exclusive ==
  \A m \in Mutexes : \A t, u \in Granted(m) \cup Owners(m) : t = u

(* Mutual exclusion, across posts, timeouts and signals that race to end a *)
(* wait (sem_post, sem_waitirq).                                           *)
THEOREM MutualExclusion == Spec => []Exclusive
<1>1. Inv => Exclusive
  <2> SUFFICES ASSUME Inv, NEW m \in Mutexes, NEW t \in Granted(m) \cup Owners(m),
                      NEW u \in Granted(m) \cup Owners(m)
               PROVE  t = u
    BY DEF Exclusive
  <2> DEFINE W == Waiting(m)
             G == Granted(m)
             O == Owners(m)
  <2>1. W \subseteq Tasks /\ G \subseteq Tasks /\ O \subseteq Tasks
    BY DEF Waiting, Granted, Owners
  <2>2. /\ IF W = {} THEN count[m] >= 0 ELSE count[m] = -Cardinality(W)
        /\ count[m] + Cardinality(W) + Cardinality(G) + Cardinality(O) = 1
        /\ count[m] \in Int
    BY DEF Inv, SemExact, Sems, Types
  <2> HIDE DEF W, G, O
  <2>3. Cardinality(W) \in Nat /\ Cardinality(G) \in Nat /\ Cardinality(O) \in Nat
    BY <2>1, OneMore
  <2>4. Cardinality(G) + Cardinality(O) <= 1
    BY <2>2, <2>3
  <2>5. ASSUME NEW S, S \subseteq Tasks, Cardinality(S) <= 1, t \in S, u \in S
        PROVE  t = u
    <3>1. Cardinality(S) \in Nat /\ Cardinality(S) # 0 /\ Cardinality(S \ {t}) = Cardinality(S) - 1
      BY <2>5, OneMore
    <3>2. Cardinality(S \ {t}) = 0 /\ S \ {t} \subseteq Tasks
      BY <2>5, <3>1
    <3>3. S \ {t} = {}
      BY <3>2, OneMore
    <3> QED
      BY <2>5, <3>3
  <2>6. CASE Cardinality(G) = 0
    <3>1. G = {} /\ Cardinality(O) <= 1
      BY <2>1, <2>3, <2>4, <2>6, OneMore
    <3> QED
      BY <2>1, <2>5, <3>1 DEF G, O
  <2>7. CASE Cardinality(G) # 0
    <3>1. Cardinality(O) = 0 /\ Cardinality(G) <= 1
      BY <2>3, <2>4, <2>7
    <3>2. O = {}
      BY <2>1, <3>1, OneMore
    <3> QED
      BY <2>1, <2>5, <3>1, <3>2 DEF G, O
  <2> QED
    BY <2>6, <2>7
<1> QED
  BY <1>1, Invariance, PTL

(* A sleep or timed wait of n ticks is over when the timer interrupt of    *)
(* its tick n + 1 ends, whatever other timers are started and cancelled.   *)
WaitsBounded ==
  \A t \in Timed : /\ passed[t] <= want[t] + 1
                   /\ ~isr => passed[t] <= want[t]

(* Every tick counts for every task that waits.                            *)
EveryTickCounts == [][Tick => \A t \in Timed : passed'[t] = passed[t] + 1]_vars

(* No timed wait outlasts its ticks, and each tick brings it closer to its *)
(* end (wd_timer, sig_timeout, sem_timeout).                               *)
THEOREM WaitsEndInTime == Spec => []WaitsBounded /\ EveryTickCounts
<1>1. Inv => WaitsBounded
  <2> SUFFICES ASSUME Inv, NEW t \in Timed
               PROVE  passed[t] <= want[t] + 1 /\ (~isr => passed[t] <= want[t])
    BY DEF WaitsBounded
  <2>1. t \in Tasks /\ t \in Dogs
    BY Zenon DEF Inv, Lists, Apart, Timed, Dogs
  <2>2. passed[t] \in Nat /\ want[t] \in Nat /\ DogList(wdlist)
    BY <2>1 DEF Inv, Types
  <2>3. LeftIn(wdlist)[t] \in Nat \cup {-1}
    BY <2>1, <2>2, LeftOfEntry
  <2>4. /\ LeftIn(wdlist)[t] # -1 /\ LeftIn(wdlist)[t] + passed[t] = want[t] + 1
        /\ ~isr => LeftIn(wdlist)[t] # 0
    BY <2>1 DEF Inv, Clocks
  <2> QED
    BY <2>2, <2>3, <2>4
<1>2. ASSUME Inv, Tick, NEW t \in Timed PROVE passed'[t] = passed[t] + 1
  <2>1. t \in Tasks
    BY <1>2, Zenon DEF Inv, Lists, Apart, Timed
  <2>2. passed[t] \in Nat /\ want[t] \in Nat /\ passed[t] <= want[t] + 1
    BY <1>1, <1>2, <2>1 DEF Inv, Types, WaitsBounded
  <2> QED
    BY <1>2, <2>1, <2>2 DEF Tick
<1>3. Inv /\ [Next]_vars => [Tick => \A t \in Timed : passed'[t] = passed[t] + 1]_vars
  BY <1>2
<1> QED
  BY <1>1, <1>3, Invariance, PTL DEF Spec, EveryTickCounts
=============================================================================
