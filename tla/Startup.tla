------------------------------ MODULE Startup ------------------------------
(***************************************************************************)
(* From power-on to the main loop.  nsh_archinitialize sets up the five    *)
(* board devices; dogfeed_main calls it, opens the devices, shows the      *)
(* initial state and creates the server.  The board has two configurations *)
(* with different entry points: in netnsh the shell comes first, calls     *)
(* nsh_archinitialize too, and starts dogfeed_main on command, again if it *)
(* gave up; in nsh the kernel starts dogfeed_main itself.  As in DogFeed,  *)
(* a definition just above another one and named after a slip is a wrong   *)
(* variant that no specification uses.                                     *)
(***************************************************************************)
EXTENDS Integers, Sequences, SequencesExt

EntryPoints == {"nsh_main", "dogfeed_main"}

CONSTANTS NFILE_DESCRIPTORS,  \* the size of a task's descriptor table, for
                              \* each entry point: 8 and 16
          Inherited           \* how many of them the shell may hand over

ASSUME TableAssumption ==
  /\ NFILE_DESCRIPTORS \in [EntryPoints -> Nat]
  /\ \A e \in EntryPoints : NFILE_DESCRIPTORS[e] >= 8
  /\ Inherited \subseteq 3 .. NFILE_DESCRIPTORS["nsh_main"]

VARIABLES
  entry,       \* USER_ENTRYPOINT of the configuration
  phase, step, \* phase of the start, position in the list it works on
  caller,      \* who called nsh_archinitialize: "nsh" or "dogfeed"
  nodes,       \* the devices that have an inode under /dev
  files,       \* how many descriptors dogfeed_main inherited
  fds,         \* the devices it has open, in order of their descriptors
  server,      \* whether the server task exists
  memory,      \* whether every allocation so far succeeded
  leds, display, motor, valve   \* as in DogFeed; Unset before the driver

pins     == <<leds, display, motor, valve>>
bootVars == <<entry, phase, step, caller, nodes, files, fds, server, memory, pins>>

UpOrder      == <<"leds", "display", "buttons", "valve", "motor">>
OpenOrder    == <<"leds", "buttons", "display", "valve", "motor">>
BoardDevices == ToSet(UpOrder)

Unset == -1

(* os_do_appstart creates the first task, which inherits the standard      *)
(* descriptors of the idle task.                                           *)
PowerOn ==
  /\ entry \in EntryPoints
  /\ caller = IF entry = "nsh_main" THEN "nsh" ELSE "dogfeed"
  /\ phase = "arch" /\ step = 1
  /\ nodes = {} /\ files = 3 /\ fds = <<>> /\ server = FALSE /\ memory = TRUE
  /\ leds = Unset /\ display = Unset /\ motor = Unset /\ valve = Unset

-----------------------------------------------------------------------------
(* nsh_archinitialize *)

(* The output pins of device d as its up_ function leaves them: LEDs dark, *)
(* the digits 00, the motor off, and both valve pins high.                 *)
Configured(d) ==
  /\ leds'    = IF d = "leds"    THEN 0 ELSE leds
  /\ display' = IF d = "display" THEN 0 ELSE display
  /\ motor'   = IF d = "motor"   THEN 0 ELSE motor
  /\ valve'   = IF d = "valve"   THEN 3 ELSE valve

(* register_driver: -EEXIST leaves the inode of the first call in place,   *)
(* -ENOMEM leaves none.  The up_ functions only report a failure.          *)
register_driver(d) ==
  \/ d \in nodes /\ UNCHANGED <<nodes, memory>>
  \/ d \notin nodes /\ nodes' = nodes \cup {d} /\ UNCHANGED memory
  \/ d \notin nodes /\ memory' = FALSE /\ UNCHANGED nodes

Up ==
  /\ phase = "arch" /\ step <= Len(UpOrder)
  /\ Configured(UpOrder[step])
  /\ register_driver(UpOrder[step])
  /\ step' = step + 1
  /\ UNCHANGED <<entry, phase, caller, files, fds, server>>

(* nsh_netinit follows in both callers; its result is ignored.             *)
Netinit ==
  /\ phase = "arch" /\ step > Len(UpOrder)
  /\ phase' = IF caller = "nsh" THEN "prompt" ELSE "open"
  /\ step' = 1
  /\ UNCHANGED <<entry, caller, nodes, files, fds, server, memory, pins>>

(* nsh_builtin starts the program, which inherits the shell's descriptors: *)
(* standard input, output and error, and the script it is run from.  The   *)
(* shell does not wait for it, but a second start is modelled only after   *)
(* the first gave up.                                                      *)
Launch ==
  /\ entry = "nsh_main" /\ phase \in {"prompt", "returned"}
  /\ \E n \in Inherited : files' = n
  /\ phase' = "arch" /\ step' = 1 /\ caller' = "dogfeed"
  /\ UNCHANGED <<entry, nodes, fds, server, memory, pins>>

-----------------------------------------------------------------------------
(* dogfeed_main *)

(* open: the inode must be there and a descriptor must be free.            *)
OpensWithoutNode(d) == files + Len(fds) < NFILE_DESCRIPTORS[entry]
OpensBelowLast(d)   == d \in nodes /\ files + Len(fds) + 1 < NFILE_DESCRIPTORS[entry]

Opens(d) == d \in nodes /\ files + Len(fds) < NFILE_DESCRIPTORS[entry]

Open ==
  /\ phase = "open" /\ step <= Len(OpenOrder)
  /\ Opens(OpenOrder[step])
  /\ fds' = Append(fds, OpenOrder[step])
  /\ step' = step + 1
  /\ UNCHANGED <<entry, phase, caller, nodes, files, server, memory, pins>>

(* return -ENOENT; the exiting task's descriptors are released.            *)
OpenFails ==
  /\ phase = "open" /\ step <= Len(OpenOrder)
  /\ ~Opens(OpenOrder[step])
  /\ phase' = "returned" /\ fds' = <<>>
  /\ UNCHANGED <<entry, step, caller, nodes, files, server, memory, pins>>

(* write_led(mode) and write_display(count) of the initial statics.        *)
Show ==
  /\ phase = "open" /\ step > Len(OpenOrder)
  /\ leds' = 0 /\ display' = 0
  /\ phase' = "create"
  /\ UNCHANGED <<entry, step, caller, nodes, files, fds, server, memory, motor, valve>>

(* task_create, and on to the loop or return pid.                          *)
Create ==
  /\ phase = "create"
  /\ \/ phase' = "loop" /\ server' = TRUE /\ UNCHANGED <<fds, memory>>
     \/ phase' = "returned" /\ fds' = <<>> /\ memory' = FALSE /\ UNCHANGED server
  /\ UNCHANGED <<entry, step, caller, nodes, files, pins>>

BootNext ==
  Up \/ Netinit \/ Launch \/ Open \/ OpenFails \/ Show \/ Create

BootSpec == PowerOn /\ [][BootNext]_bootVars

-----------------------------------------------------------------------------
(* The loop is entered only with all five devices open and registered and   *)
(* the server created, and with the outputs in the state module DogFeed     *)
(* starts from: LEDs dark, 00 shown, motor off, both valve pins high.       *)
LoopReady ==
  phase = "loop" =>
     /\ ToSet(fds) = BoardDevices /\ BoardDevices \subseteq nodes /\ server
     /\ leds = 0 /\ display = 0 /\ motor = 0 /\ valve = 3

(* A start by the kernel or from the bare prompt never gives up for want of *)
(* descriptors: the five devices and the three standard descriptors fit the *)
(* table, that of the shell exactly.                                        *)
(* One that does give up leaves neither descriptors nor a server behind,    *)
(* the motor off, but the valve pins high as up_valve set them, with nobody *)
(* left to lower them.                                                      *)
GivenUp ==
  phase = "returned" =>
     /\ files = 3 => ~memory
     /\ motor = 0 /\ valve = 3 /\ fds = <<>> /\ ~server
=============================================================================
