# GreenBone dog feeder: a verification project in TLA+

The repository is a NuttX tree with one application of its own, the dog feeder
(`src/apps/examples/dogfeed`), and the drivers of the board it runs on
(`src/nuttx/configs/greenbone`). This directory models that application, those
drivers, and the parts of NuttX the application waits on: the serial console
driver, the scheduler, semaphores, sleeping and the timers. The models are
checked with TLC, and all the safety properties are proved with TLAPS.

## 1. The system

A feeder has six keys, four LEDs, a two-digit display, a motor that doses food
and a valve that lets water in. Three settings, `percent_food` (0-99),
`period_food` and `period_water` (0-24 minutes), say how much and how often.

| Part | Source | Concurrency |
|---|---|---|
| main loop | `dogfeed.c`, `dogfeed_main` | task of priority 100, endless |
| setters and getters | `dogfeed.c` | called by both tasks, no lock |
| command server | `server.c`, `create_server` | task of priority 50, TCP port 3333 |
| display and LED drivers | `stm32_display.c`, `stm32_led.c` | called by both tasks, no lock |
| button, valve and motor drivers | `stm32_button.c`, `stm32_valve.c`, `stm32_motor.c` | called by the main loop |
| start-up | `os_do_appstart`, `nsh_initialize`, `nsh_builtin`, `nsh_archinitialize`, `dogfeed_main` up to the loop | before the loop |
| serial console | `serial.c`, `serialirq.c`, `stm32_serial.c` | tasks that print or read, and the USART interrupt |
| scheduler, semaphores, signals, watchdogs | `src/nuttx/sched`, `up_blocktask.c`, `up_unblocktask.c`, `up_reprioritizertr.c` | all tasks, timer and device interrupts |
| network stack, heap, shell | NuttX | external |

The two tasks share the statics of `dogfeed.c`, the display and the LEDs. With
fixed-priority scheduling on one processor the main task runs without
interruption until it waits: in `usleep`, or in a `printf` whose serial buffer
is full. The server runs only during those waits, and loses the processor
between any two of its instructions. (A time slice that ends gives the processor
to another task of the same priority, the shell, never to the server.)

The board has two configurations. In `netnsh` the shell is the first task; it
starts the feeder on command, with policy SCHED_RR, and does not wait for it
(`SCHED_WAITPID` is not set); a task has 8 descriptors. In `nsh` the kernel starts
`dogfeed_main` itself, with SCHED_FIFO and 16 descriptors, and there is no shell.
`Startup` models both, and `Kernel` any set of tasks with time slices; `serial_rx`
and `kernel` include the shell of `netnsh`. For the other modules the two are the
same.

## 2. Modules

| Module | Models | State and actions |
|---|---|---|
| `DogFeed` | the main loop and what it calls | the statics, the locals, the pins; one action per stretch of the loop between two places where it can wait or branch (`pc`) |
| `FrontPanel` | the main loop with no client | `DogFeed` and a history variable, `steady` |
| `Appliance` | what the feeder promises the person at the panel | abstract: settings, run/edit, minute, feeding, watering |
| `DogServer` | the nine commands | one action per access of the server to shared state (`spc`) |
| `Feeder` | both tasks together | interleaving of `DogFeed` and `DogServer` under the priority rule |
| `SharedPanel` | panel and client at once | `Feeder` and a history variable, `touched`: what a client has changed since the panel, or the loop, last looked |
| `Protocol` | the sockets and the scanner of `create_server` | one action per socket call, with its failure, and one per received byte |
| `Drivers` | `display_write` and `leds_write` | one action per register or pin access, two tasks |
| `Startup` | power-on to the loop | one action per `up_*` function, `open`, and the rest of `dogfeed_main` before the loop; `entry` is the configuration's first task |
| `SerialTx` | `uart_write`, `uart_putxmitchar`, the transmit interrupt | ring, semaphores, interrupt enable and USART; one action per stretch of code that is atomic towards the interrupt |
| `SerialRx` | `uart_read`, the receive interrupt | likewise, with overruns, noise and framing errors |
| `Fifo` | what the transmit direction promises | abstract: bytes under way, none lost |
| `LossyFifo` | what the receive direction promises | abstract: a byte that arrives is accepted or lost; an accepted one is delivered in its turn |
| `Kernel` | task lists, scheduler lock, semaphores, sleep, signals, watchdog list | the lists of `os_start.c`; one action per stretch of a kernel call between two places where another task or an interrupt can come in |
| `Timers` | what a set of timers promises | abstract: the ticks each timer has left |
| `*Proofs` | | the theorems about the module of that name; `FeederProofs` holds those about `SharedPanel` and `FrontPanel` as well, `BoardProofs` those about `Drivers` and `Startup`; `KernelListProofs` and `KernelStepProofs` prepare `KernelProofs` |
| `MC*` | | constants for TLC |

How they fit:

* `Startup` ends in the state `DogFeed!MainInit` describes (`LoopReady`).
* `Protocol` produces the `<<letter, value>>` pairs that `DogServer` takes as
  `Commands`; that they meet `DogServer`'s assumption is the theorem
  `CommandsSafe`.
* `DogFeed` and `DogServer` treat a display or LED write as one step; `Drivers`
  looks inside that step.
* `DogFeed` lets the main task wait in `usleep` and `printf` and assumes that
  the wait ends. `Kernel` (`WaitEnds`) and `SerialTx` (`WriteReturns`) look
  inside those two waits.
* `Feeder` and `Drivers` assume that the server runs only while the main task
  waits. That rule is `HighestRuns` of `Kernel`.

Abstractions worth knowing:

* The three settings are one function `setting` on the modes that select them.
* `minutes` is an unbounded `int`. The code looks at it only modulo a period,
  modulo 256, and (period 0) compared with 0, so `NextMinute` subtracts a common
  multiple of these moduli (`MinuteCycle`) whenever two of them have passed.
  This is exact, not a bound on the behaviour.
* `x % 0`: the processor divides in hardware without trapping, the quotient is 0
  and the remainder the dividend (`Remainder`).
* `increase_value` and `decrease_value` load the mode and the setting once, as
  the optimised build does.
* The bytes given to a driver are always 0 or 1 for motor and valve, so `Pins`
  is the whole effect of `valve_write` and `motor_write`.
* Serial: a code stretch under `irqsave`, or with the interrupt in question
  disabled, is one action. How many bytes the USART takes in one call of
  `uart_xmitchars` is a choice (`Sendable`).
* Protocol: the commands of a message, which the properties compare the scanner
  with, are defined by the places where a letter is followed by two figures, not
  by a second scanner.
* Kernel: at first all tasks are ready, in any order within a priority. A task
  resumed behind `up_block_task` still has interrupts disabled, so its way out of
  the call is one action. The timer interrupt is several steps, one per timer
  that expires. `sigtimedwait` is modelled with the interrupts its own code leaves
  enabled; `usleep` calls it with interrupts disabled, so its behaviours are among
  the modelled ones. No caller starts a timer that is on, so `WdStart` has no
  timer to cancel first; delays are far from the overflow that `wd_start` also
  guards against. `sched_mergepending` searches for the place of a pending task
  from the one inserted before it, which in sorted lists (`TypeOK`) is the place
  `AddPrioritized` finds. The ticks left of a time slice are not counted, so the
  slice of a SCHED_RR task may end at any tick (`TimeSlice`); what `sched_unlock`
  does for such a task is to set this count back. A `sem_timedwait` that finds the
  semaphore taken and its time malformed or already past returns `EINVAL` or
  `ETIMEDOUT` at once, before it starts its watchdog or waits; it changes no
  variable and is a stuttering step.
* `printf` and `atoi` belong to the C library of the tree. `atoi` is `strtol`, and
  of it the part is modelled that two bytes from `0` to `?` can reach.
* A definition placed right above another and named after a slip
  (`RemainderZero`, `StuckAt`, `RetestSkipped`, ...) is a deliberately wrong
  variant. No specification uses it; substituted for its neighbour it makes a
  property fail.

## 3. Runs

| Run | Instance | Shows |
|---|---|---|
| `panel` | percent 0..3, periods 0..2, 2 ticks a second, 3 seconds a minute, display below 4, byte 8 | in configuration mode digits, LED, `count` and setting agree (`PanelConsistent`); minutes are shown (`MinutesShown`); meals start at positive multiples of positive periods only (`FeedOnSchedule`); uninterrupted portions have their exact length (`PortionExact`); the loop implements `Appliance` (`KeepsPromise`); the valve closes for a small `percent_food` (`ValveCloses`) |
| `feeder_edit` | percent 0..2, keys FOOD, confirm, up, down; commands A, B, E, H, I | settings and answers stay in range and pins follow flags under every interleaving; the panel is true until a command changes what is edited (`PanelTrueUnlessTouched`) |
| `feeder_clock` | keys period and confirm; commands B, C, D, G | meals are on time unless a command resets the clock while the loop shows the minute (`MealsOnTimeUnlessReset`); the server finishes every command, a confirmation takes effect, the motor stops |
| `protocol` | all messages of 1..6 bytes over `A B 1 ? \n`, buffer of 6 | well-formed input is carried out exactly, also when cut (`WellFormedExact`); sockets are closed on every path; a connection with data ends |
| `drivers` | display values with every tens and every units pattern, 100 and 255; the five LED bytes the application writes | alone, a write is exact and the units are legible with the wiring of the macros (`AloneExact`); overlapping, it mixes at most two values (`TornDigits`, `MixedLeds`); other pins of the ports are kept (`OthersKept`) |
| `startup` | both configurations: shell with a table of 8 descriptors, 3 or 4 inherited, and feeder alone with 16 | the loop starts only with everything in place; eight descriptors are just enough; a start that gives up leaves the motor off and the valve pins high |
| `serial_tx` | ring of 3, two writers, writes of up to 2 bytes | a writer that waits will be woken (`NoStall`); no bytes are stranded; `\r\n` stays together; ring and USART are a FIFO; a write returns |
| `serial_rx` | ring of 3, two readers, two byte values, reads of up to 2 bytes | a byte is never slept through; the interrupt is never left disabled; the console is a FIFO that loses a byte, if at all, in the data register and never one that is in the ring (`IsLossyFifo`); a read returns once a byte came |
| `kernel` | main, with time slices, and shell of one priority, server below, idle; one mutex, one event, delays of 1 and 2 ticks, the Ethernet poll timer | every task is in one list; the highest priority runs; counts are exact whatever ends a wait; no timer outlives its wait; a timeout lasts the ticks asked for and one more; the delta list behaves as independent timers; every timed wait ends |

Why the bounds are enough.

* Panel and feeder: the limits keep the order of the real ones. In `panel` the
  last second of a minute is below `PercentMax` and twice it is above (59 < 99 <
  118 becomes 2 < 3 < 4), a period of 0, 1 and a proper divisor occur, and the
  display limit lies between `PercentMax` and the byte size, so that minutes run
  past it and wrap. Keys and commands are split by theme between the two
  `feeder_` runs, because all of them with a clock are too many states for one
  run; every action of both tasks fires in one of the two.
* Protocol: six bytes hold two complete commands.
* Drivers: the two drivers share no state, so the constraint `OneDriver` of
  `MCDrivers` explores each of them while the other is unused. The product of
  the two would add states and no behaviour.
* Serial: a ring of 3 is full with two bytes, so a single line end fills it, and
  every index wraps. The USART holds two bytes, as the real one does. Two
  tasks are enough for one inside and one that waits for the semaphore; the
  proofs cover any number and any size.
* Kernel: two tasks of one priority and one below show preemption, order within
  a priority, the end of a slice and the pending list. Two different delays and a periodic timer
  put up to four timers into the list in every order.

Runs that are expected to fail, each refuting one line of a comment:

| Run | Line | What happens |
|---|---|---|
| `race_step` | `dogfeed.c:190` "we cannot change the display with it running" | the panel restarts the feeder after the test of `running` |
| `race_confirm` | `dogfeed.c:245` "if it is running don't do anything" | likewise in `set_confirm_mode` |
| `protocol_framing` | `server.c:39` "AXX (65 XX XX)" | `A1A1` is carried out as A with 11 |

Other disagreements between text and code, seen while modelling and plain
without a run:

* The board's `README.txt:51` says "LED2 PB1  (WATER Selected)"; PB1 is lit for
  the food period, because `set_mode` writes the mode itself and `PERIOD_FOOD`
  is 2.
* The segment order `README.txt:61` gives for digit 2 is not the one of the
  `GPIO_DSP2` macros, with which the patterns are legible (`AloneExact`). The
  patterns of the tens are legible with neither order, so only the units are
  compared with glyphs.
* `serial.c:382` says that after the transfer has started "we are committed and
  signals will be ignored"; `uart_putxmitchar` (line 271) ends the transfer on a
  signal, and `uart_write` returns early.
* `serialirq.c:107` asks "Potential bug? ... Can that happen?" about a writer
  left waiting with the transmit interrupt disabled. It cannot: `NoStall`.
* From a `percent_food` of 59 on the valve never closes between two waterings,
  because line 442 of `dogfeed.c` compares it with `seconds`, where line 448
  has `seconds * 2` for the motor. `ValveCloses` is therefore stated for smaller
  values only.

`CHECK_DEADLOCK FALSE` appears where the program may end: the server after a
failed socket call, and `Startup` on entering the loop.

## 4. Fairness

* `FrontPanel`: weak fairness of the loop. It waits only for the clock and for
  the serial line, which need nobody's help.
* `Feeder`: weak fairness of the main task, and strong fairness of a server that
  is inside a command. Strong, because the server is enabled only during the
  waits of the main task; the loop sleeps in every turn (`usleep(1)` is at least
  one clock tick), so the server gets the processor again and again. Nobody has
  to press a key or send a command.
* `Protocol`: weak fairness of scanning and closing only. `accept` and `recv`
  have no timeout, so no client has to come and a silent one blocks the server.
* `SerialTx`, `SerialRx`: weak fairness of the interrupt, of the transmitter and
  of a task inside a call. Nobody has to print, type or read, and no signal has
  to come. `SerialRx` has no fairness of arrivals.
* `Kernel`: strong fairness of the timer interrupt, which is enabled whenever
  the processor has interrupts enabled and stays pending while it has not; weak
  fairness of the rest of the interrupt and of a call that only has to return.
  No task has to call anything, no device has to post and nobody has to signal.

## 5. Proofs

Eight modules hold the theorems. All of them are for every value of the
constants that the named assumptions allow.

**`FeederProofs`** (both tasks, any limits, clock rates, keys, commands):
`TypeCorrect`, `SettingsSafe`, `RepliesSafe`, `ActuatorsSafe`. Assumptions: the
limits are ordered as in the code (a setting fits the display, the display's
limit fits a byte), `PercentMax` has at most two digits, the clock rates are
positive, `MinuteCycle` is a common multiple of the moduli, and commands are
letters A to I with a value of 0 to 99. None of the properties is inductive. The
invariant `FeederInv` adds

* `CountBounded`: outside the few statements between a key press and the clamp
  `count` is in range. The server can reset `count` but never meets the main
  task inside those statements, because it runs only while the main task waits;
* `ServerBounded`: a server about to store or to send holds a value that was
  checked against the limit of the very setting it works on, whatever the main
  task has done to that setting since. This is why the missing lock cannot take
  a setting out of range: the server stores a value that was in range, not an
  increment of one that no longer is.

The actuators need `PinsIdle` besides: an actuator whose flag is off has its pin
off also between the start of a meal and the end of that loop turn.

Two more theorems are the parts of liveness properties that need no fairness.
`MotorRestsSafe`: from second `PercentMax / 2 + 1` of a minute on the motor stands
still, whatever the panel and the client do to `percent_food` and to the clock.
`RestInv` is the invariant: behind the comparison in a loop turn a motor that is on
has not reached that second, and everything but `Tick` leaves `seconds` alone or
puts it to 0. `CommandProgress`: every access of the server lowers `StepsLeft`, from
nine at most, and no step of the main task changes the server's state.

Also there, about `SharedPanel`: `SharedPanelTrue` and `SharedScheduleSafe`.
`HistoryOnly` shows that `touched` adds nothing to the behaviour, so that `FeederInv` is
inherited. `EditInv` and `MinuteInv` are the panel's claims, each conditional on
`touched`; a command either sets `touched` or leaves the claim alone.

And about `FrontPanel`: `PanelTrue`, `MinutesSafe`, `ScheduleSafe`,
`PortionSafe`, and `PromiseKept`, which shows step by step that the loop
implements `Appliance`. The invariant `PanelInv` says for every label of the loop
how `count`, digits and LEDs relate to the setting (`PanelEditInv`) and how minutes,
seconds and digits relate to each other (`ClockInv`). `PortionInv` adds how far
a portion can have got.

**`SerialTxProofs`**, **`SerialRxProofs`** (any ring size from 2, any set of
tasks): type correctness, `NoStallSafe`, `NothingStrandedSafe`,
`NotSleptThroughSafe`, `NeverDeafSafe`, and the refinements `FifoImplemented` and
`LossyFifoImplemented`; in the latter the data register is the place where a byte
arrives and may be lost, and the ring is the queue. The invariants `TxInv` and `RxInv` rest on two facts: at
most one task is between taking and giving the ring's semaphore (`OneInside`),
and the count of the wait semaphore together with `xmitwaiting` or `recvwaiting`
is determined by whether that task waits (`TokenInv`). The latter is what a
signal disturbs: it leaves the announcement behind, and the invariant shows that
it turns into at most one token, which the next wait consumes. `LinesSafe` (CR
before every LF) is an action property with an invariant of its own on top of the
refinement: `LineInv` says that every LF under way follows a CR, and that a writer
with only the LF of a line end left has its CR as the newest byte. A signal
between the two bytes drops the LF, which the invariant allows; no other writer
can put a byte in between, because the semaphore is still held.

**`BoardProofs`**, about `Drivers`: `PinsSafe`, `DigitsSafe`, `LedsSafe`, for all bytes and all
foreign bits. `PortInv` says that a task about to write a port holds the foreign
bits and its own segments, and `LedInv` which byte each LED comes from. The
priority rule is not used: the claims hold for any interleaving. `AloneSafe`
(`AloneExact`) adds `AloneInv`: while the last write that began is alone, at most
one task is inside the device, and what that write has passed shows its byte.
`UnitsShape` compares the ten patterns of `digits2` with the glyphs.

There too, about `Startup`: `LoopSafe`, `GivenUpSafe`, in both configurations, for any
tables of at least eight descriptors. `StartInv` follows the lists that `nsh_archinitialize` and
`dogfeed_main` work through.

**`ProtocolProofs`**: `SocketsSafe`, `CommandsSafe` and `CommandsExact`
(`WellFormedExact`), for all messages and buffer sizes. `Framed` is declarative:
the commands that begin at the places `Starts` of the message, in order. The
invariant `ReadInv` says that after `i - 1` bytes of a well-formed message the
scanner has carried out the commands at `Read(sent, i - 1)`, the places whose
three bytes it has seen, and that `dog_cmd`, `first_digit` and `value` are the part
seen of the next one. `CommandAdded` shows that one more place, larger than all
others, appends one command; `StartsCut` and `ReadPrefix` carry the result over
to a message the `recv` has cut.

The other three theorems there are about every message, also the ones that are not
well-formed. `CommandsBounded`: at most one command for three bytes (`UsedInv` counts
the bytes that the commands, the letter and the figure at hand have used up).
`CommandsReal`: the commands have letters of their own among the scanned bytes, each
with a figure behind it, in the same order. What a broken message can mix up are
thus the figures of a command, never its letter or its place. `LetterInv` carries a
witness, the places of the letters, and where the letter at hand is: everything behind
it is figures. `ScanProgress`: each byte is looked at once.

**`KernelProofs`** (any tasks, priorities, time slices, semaphores, users and delays; the idle
task has the lowest priority): `ListsSorted` (`TypeOK`), `PriorityScheduling`
(`HighestRuns`), `SemaphoresExact`, `NoLateTimer` (`DogsOfWaits`), `TimeoutsExact`,
and `ImplementsTimers`, the refinement of `Timers`. Two more follow from the
same invariant: `MutualExclusion` (a mutex has one owner at most, counting a task that
a post has chosen and that has not run yet) and `WaitsEndInTime` (no sleep or timed wait
outlasts its ticks, and every tick counts for every wait). The parts of the proof:

* The lists (`KernelListProofs`). `Added`, `Merged` and `TakenOut` say what `AddPrioritized`, `Merge` and
  `RemoveFirst` do to a sorted list without repetitions; `Cancelled`, `Started`
  and `Ticked` what the three operations on the list of lags do to the ticks
  each timer has left. `Merge` and `Due` are recursive functions; `Least`,
  `Induction` and `Recursion` provide the induction they need, for a set of
  numbers in place of a predicate.
* The inductive invariant `Inv` (also in `KernelListProofs`). `Lists`: ready, pending, semaphore and signal
  lists divide the tasks among them. `Calls`: what each place inside a kernel
  call says of the task's lock, lists, semaphore and errno. `Held`: tasks are
  pending only under a lock. `Clocks`: a timer belongs to a wait, outside the
  timer interrupt none is due, and the ticks left and the ticks passed of a wait
  add up to what it asked for and one more. The last of these is why
  `TimeoutExact` holds, and it needs the refinement's view of the lags: an
  entry's own lag says nothing about it. `SemExact` and `TimeoutExact` complete
  the invariant.
* One lemma per action that `Inv` is kept, in `KernelStepProofs` for the actions
  that end no wait of another task and in `KernelProofs` for the rest. Everything that ends a wait (post,
  timeout, signal) goes through `WokenInv`, because what the three have in
  common, one waiter leaving its list and its semaphore, is where they could
  disagree.
* The refinement. Under `Inv`, starting, stopping, ticking and firing map to the
  actions of `Timers`, and everything else leaves the list of lags alone.

Only model-checked: liveness (`ValveCloses`, `ConfirmTakesEffect`,
`ServerReturns`, `MotorStops`, `ConnectionEnds`, `WriteReturns`, `ReadReturns`,
`WaitEnds`). It needs fairness, which is out of the prover's reach. What of these
properties needs none is proved for four of them: `MotorRestsSafe` for `MotorStops`,
`CommandProgress` for `ServerReturns`, `ScanProgress` for `ConnectionEnds` and
`WaitsEndInTime` for `WaitEnds`. Each gives a bound on how much is left to do, so that
only the fairness of the step that does it is left to TLC. The theorems without a
run of their own (these four, `CommandsBounded`, `CommandsReal`, `MutualExclusion`) are stated in the proof modules.

## 6. Not modelled

* The network stack and the heap are external: calls succeed or fail, `recv`
  returns any beginning of a message. Retransmission, segments and buffers are
  library code to the application.
* The shell starts the program and is otherwise one of the tasks that print and
  read; its command lines are not modelled.
* Serial console: open and close, `O_NONBLOCK`, `poll`, `ioctl`, and the polled
  output of the idle task and of interrupt handlers (`uart_irqwrite`). Neither
  the feeder nor its shell uses them. DMA, flow control and termios are not
  configured.
* Kernel: creation and exit of tasks, changes of priority, signal handlers, masks
  and queued signals, message queues, and the pool of 16 watchdogs (`wd_create`
  returning NULL). The Ethernet driver is up all the time: taking it down, or a
  transmit timeout that restarts it, stops the poll timer (`stm32_ifdown`), and
  bringing it up may fail. Priority inheritance and tickless operation are not configured.
* `display_read`, `leds_read`, `valve_read` and `motor_read` have no caller.
* The glitch of the motor pin between its configuration and the write of 0 in
  `up_motor` is inside one action.
* The busy wait after a key press takes time but changes nothing.
* A second feeder started while one runs, which the shell of `netnsh` would allow.
  It would share all statics with the first.
* Status LEDs of the kernel, GPIO register access, and the rest of the NuttX
  tree (file systems, other boards, other drivers, other applications), which
  this program does not use.

## 7. Plan

1. Creation and exit of tasks, with the descriptor lists they copy and close.
2. The socket layer between `recv` and the Ethernet interrupt (`net_lock`, the
   read-ahead buffers), so that `Protocol`'s `Recv` is looked into as `printf`
   is now.
3. The order of `ready` within a priority as an abstract specification that
   `Kernel` implements.
