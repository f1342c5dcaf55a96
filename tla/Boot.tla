-------------------------------- MODULE Boot --------------------------------
(***************************************************************************)
(* Start-up of the firmware, Vitis/main.c with DNN_init of myDNN_File.c    *)
(* and start_application of echo.c, and the LED helper RGB_driver.h.  Only *)
(* a missing network interface stops main; every other failure is printed  *)
(* and start-up goes on.                                                   *)
(*                                                                         *)
(* RGB_State is static in a header, so that main.c and echo.c each have a  *)
(* copy of their own, and neither sees what the other has lit.             *)
(***************************************************************************)
CONSTANT Environments  \* what the firmware may meet, see Environment below

VARIABLES
  env,        \* the one it meets, chosen at the beginning
  phase,      \* the step main is about to take, or how it ended
  usable,     \* the engines DNN_init has initialised
  listening,  \* start_application has installed accept_callback
  RGB_State,  \* what each source file believes is lit
  gpio        \* the lit bits of the GPIO register that both LEDs share
lights == <<RGB_State, gpio>>
boot == <<env, phase, usable, listening, lights>>

Files   == {"main.c", "echo.c"}  \* that include RGB_driver.h
LEDs    == {"LD4", "LD5"}  \* LED 1, network; LED 2, DNN
Colours == {"Red", "Green", "Blue"}
Engines == {"pcap", "dma"}

BootTypeOK ==
  /\ env \in Environments
  /\ phase \in {"DNN_init", "xemac_add", "start_application", "loop", "returned"}
  /\ usable \subseteq Engines /\ listening \in BOOLEAN
  /\ RGB_State \in [Files -> SUBSET (LEDs \X Colours)] /\ gpio \subseteq LEDs \X Colours

\* Mutated: the mask of the other LED's bits is missing.
ShowAlone(lit, led, colour) == {<<led, colour>>}

\* RGB1_* and RGB2_*: clear the three bits of one LED, then set one of them.
Off(lit, led)          == {bit \in lit : bit[1] # led}
Show(lit, led, colour) == Off(lit, led) \cup {<<led, colour>>}

\* RGB_Write, at the end of each: all six bits of the caller's own copy are written.
RGB_Write(file, lit) == RGB_State' = [RGB_State EXCEPT ![file] = lit] /\ gpio' = lit

BootInit ==
  /\ env \in Environments
  /\ phase = "DNN_init" /\ usable = {} /\ listening = FALSE
  /\ RGB_State = [file \in Files |-> {}] /\ gpio = {}

\* The engines usable after each outcome of start-up's calls.
Dma_Init  == IF env.faults THEN {{"pcap"}, Engines} ELSE {Engines}
Dcfg_Init == IF env.faults THEN {{}} ELSE {}  \* DNN_init ends with its failure
DNN_init  == Dcfg_Init \cup Dma_Init

\* tcp_new, tcp_bind and tcp_listen: whether accept_callback is installed.
start_application == IF env.faults THEN BOOLEAN ELSE {TRUE}

\* The driver is set up, its failure printed, and the LEDs are.
Initialise ==
  /\ phase = "DNN_init" /\ phase' = "xemac_add" /\ usable' \in DNN_init
  /\ RGB_Write("main.c", Show(Off(Off({}, "LD4"), "LD5"), "LD5", "Red"))
  /\ UNCHANGED <<env, listening>>

\* A failure returns from main: the IPv4 branch leaves LED 1 dark.
AddInterface ==
  /\ phase = "xemac_add"
  /\ phase' \in (IF env.faults THEN {"returned"} ELSE {}) \cup {"start_application"}
  /\ UNCHANGED <<env, usable, listening, lights>>

\* start_application is called; main does not look at its result.
StartApplication ==
  /\ phase = "start_application" /\ phase' = "loop"
  /\ listening' \in start_application
  /\ RGB_Write("main.c", Show(RGB_State["main.c"], "LD4", "Green"))
  /\ UNCHANGED <<env, usable>>

Start == Initialise \/ AddInterface \/ StartApplication

\* The main loop hands over what lwIP received.
Dispatching == phase = "loop"

=============================================================================
