# Formal models of SIGMA, the digit-recognition network on the Arty Z7-20

This directory holds TLA+ models of the repository's hardware (`src/RTL_src`),
firmware (`src/Vitis`) and desktop program (`src/UI`), the TLC configurations that
check them on small instances, and TLAPS proofs, for every value of the parameters,
of every safety property the passing runs check: from the neuron's arithmetic over
the whole network, the driver and the TCP server to what the desktop program displays.

## 1. The system

A GUI on a PC sends either a *variant command* (3 bytes: which of three sigmoid
tables the network should use) or a *detect frame* (1 + 1568 bytes) over TCP.
The firmware on the ARM core collects the bytes, and either rewrites the
reconfigurable partition through the PCAP port or streams the pixels through an
AXI DMA into the network, waits a fixed time and reads the digit from a register.

| Component | Source | State | Operations | Talks to |
|---|---|---|---|---|
| Neuron | `Neuron_des.v`, `Weight_Memory.v`, `Sigmoid_ROM.v` | address counter, product and accumulator, six valid bits, table address | one clock edge | its layer |
| Arithmetic | the same, `genSigmoidFuncVals.py` | accumulator | saturating add, table lookup | - |
| Layers, serialisers, top | `CNN_Layer1..4.v`, `DNN_top.v` | 80 neurons, three HOLD/TRANSFER machines | one clock edge, reset | DMA stream in, hardmax out |
| Maximum finder | `Hardware_Max_Estimate.v` | counter, maximum, vector, digit | load, examine, announce | layer 4, register slave |
| Register slave | `IP_src/MY_DNN_AXILITE.v` | four registers, write and read machines | write, read | driver, reset of the network, digit |
| Driver | `myDNN_File.c` | `TxBuffer`, position in a call; PCAP and DMA engines | LoadDNN, Use_DigitRecognitionDNN, DNN_Reset, DNN_init | register slave, PCAP, DMA |
| TCP server | `echo.c` | `rx_buf`, `rx_len`, shared by all connections | receive, close, accept | lwIP, driver, LEDs |
| Boot, main loop, LEDs | `main.c`, `RGB_driver.h` | two copies of `RGB_State`, the GPIO register | start-up, dispatch, light a colour | all of the firmware |
| GUI | `Digit_Recognition_Gui.py` | request in progress, background thread, result queue, confirmed variant, prediction | click, answer or timeout, poll | TCP server |
| Test program | `dnn_dfx_main.c` | `BitBuffer`, variant and frame counters, the tally | read from SD, load, reset per frame, infer, count | the same engines and registers as the driver |
| Ethernet PHY adapter | `xemacpsif_physpeed.c` | `phymapemac0`, the wait's counter, the clock's divisors and their lock | detect, negotiate or pin a speed, set the clock | PHY, SLCR |

The Vivado scripts, `bintohex.py` and the test benches are tools or generated code
and are not modelled. `PROJECT.json` lists every component with
its status and every hazard with its line.

What is hard here: the stream into the network has no back-pressure and no
framing, so correctness hangs on cycle-exact agreement between valid pipelines
that a reset does not clear; `Bias` is driven by two always blocks; the driver
gives up on transfers without stopping them and replaces completion by fixed
delays; one receive buffer serves all connections and is not cleared when one
closes; failures of the driver are only printed; the GUI's timeout says nothing
about the board, where the request may still take effect; and the link may come
and go while the firmware negotiates its speed.

What makes each part correct:

* *Neuron*: a result is the sum of exactly the pixels of one frame, each with its
  own weight, and the trained bias; it comes at a fixed distance from the last pixel.
* *Arithmetic*: an addition clamps; the table is read where its generator put the value,
  and the generator's fixed-point format is the RTL's.
* *Network*: every complete frame gets its own digit, in order; after a fixed
  time the digit register holds it until the next frame.
* *Register slave*: a write goes to the register it names and is answered once; a
  read returns the register it names, whatever is asked for or written meanwhile.
* *Driver*: a reported digit is that of the whole frame of this call; a reported
  load has left the variant in the partition, clean and running.
* *TCP server*: a request, however it is cut, gets one answer to its own bytes.
* *Boot, LEDs*: the colours say what has happened, whatever failed on the way.
* *GUI*: what it highlights is what the board holds, what it displays was computed
  from the frame just sent; the window is always unlocked again.
* *Test program*: every frame of a variant is counted, no error is blamed on the
  network without a reported failure, and the program ends.
* *PHY adapter*: after a successful set-up the MAC's clock is that of the link, and
  every wait ends.

## 2. Modules

| Module | Models | Correspondence |
|---|---|---|
| `NeuronClock` | one clock edge of a neuron | `Edge` is all always blocks of `singl_neuron_mod`; `AddrNext`, `SumNext`, `BiasChoices`, `FrameOver` one block or condition each; `WeightNext` the weight memory. `MayArrive` is the contract the code needs of its stream |
| `Neuron` | a neuron under any stream and any reset | one action, `Tick`, per edge; starts with arbitrary registers |
| `FixedPoint` | the arithmetic | `SatAdd` both saturating additions, `RomAddress` the ROM's address, `Argument` the generator's `x`, `EntriesPerOne` its 2^`fractBits` with the clamp at 0, `One` what 1.0 is in the accumulator. A *format* is 2^(`weightIntWidth` + `inputIntWidth` - 1); the generator and the RTL have one each |
| `HardmaxClock`, `Hardmax` | the maximum finder | `ScanEdge` is its always block; `Load` and `Scan` are edges with and without `in_Valid_i` |
| `DnnTop` | the network | composes four `NeuronClock!Edge`s, three `SerialiserEdge`s (`DNN_top.v` 83-232) and a `ScanEdge` on one clock (`Clock`), and a reset at any time (`Reset`) |
| `AxiLite` | the register slave | `SlaveEdge` is the write state machine, `Written` the address the register file uses, `ReaderEdge` the read state machine, `RData` what each register reads as; `Clock` is an edge of both; the master is an external AXI master |
| `Driver` | the driver with the engines it polls | one action per step between which an engine may act; `PcapFinish` and `DmaSends` are the engines (external), `Infer` the network as `DnnTop` shows it |
| `Boot` | start-up and LEDs | `Initialise`, `AddInterface` and `StartApplication` are the steps of `main`; `RGB_State` has a copy for each file that includes the header, `gpio` is the register both LEDs show; `Show` and `Off` are the `RGB*` helpers on a copy's set of lit bits, `RGB_Write` their last call, which copies it to the register |
| `Bench` | the test program on top of `Driver` | `ReadFile` overwrites `BitBuffer`; `Dfx_LoadVariant` and `DNN_Infer` are the driver's steps with what `main` and `Run_TestSuite` do when they return; `FrameReset`, `FrameRelease` the reset before a frame; `program` chooses between test program and server |
| `EchoServer` | the TCP server on top of `Boot` | `Recv` is one call of `recv_callback`: copy or overrun, variant command or frame, echo, result (`Written`: a `tcp_write` may fail, and its error is ignored); `Accept`, `Close`; `LateLoad` is the end of a PCAP transfer that a failed load left running (`late`) |
| `Gui` | the desktop program on top of `EchoServer` | `Click` opens a request's connection and locks the window; `VariantAnswered`, `DetectAnswered` and `GiveUp` end its thread; `PollQueue` is `_poll_queue` with the two result handlers; `Connect`, `Arrive`, `Hangup` are the network |
| `PhySetup` | the link's set-up for this board's build | `detect_phy`, `phy_setup_emacps`, one action per `get_*_phy_speed` up to its first wait, `SeeReset`, `Await` and `Resolve` for the loops behind it, `configure_IEEE_phy_speed`; `LinkUp`, `ResetEnds`, `Replug` are PHY and cable |
| `RequestServer` | what the board promises | every request served in one step, at most once |
| `MC*` | instances for TLC | |
| `*_proofs` | theorems: `Server_proofs` those of `EchoServer`, `RequestServer` and `Gui`, `Bench_proofs` those of `Driver` and `Bench`, the others those of the module they are named after | invariants and lemmas on top of the module; they add nothing to the model |

Abstractions. In `NeuronClock` an accumulator is the sequence of the terms it
has added (a product is its pixel and weight address, the bias is *trained* or
*zero*), because which terms and in what order is what can go wrong, and
saturating addition is not associative; what one addition does is `FixedPoint`. There
the generator's argument is counted in steps of its table, and `Matches` compares it with
the accumulator, both scaled to integers; the sigmoid of it is data.
The doubly driven `Bias` is a choice of either value whenever both blocks are
active. In `DnnTop` one neuron stands for its layer, since all of them get the
same data and valid on the same edges, and a layer's output vector is named by
the frame it is complete for. In `Driver` a frame is two halves. In `EchoServer`
a byte is a connection and a position; a pixel byte is never a command byte
(the GUI sends 128 times a value of at most 255); the driver is its outcomes. An
engine that `DNN_init` did not bring up does nothing, and whether a call on it
then fails or hangs in an assertion of Xilinx's driver makes no difference to what
is checked: a server that hangs just takes no further step.

`Driver` and `EchoServer` overlap on purpose: the first has the steps of a load and an
inference, the second their outcomes. What an environment of the server may do is a
record (`Environment`): `overlap` (two clients at once), `vanish` (clients that close
or die early), `chained` (lwIP hands over segments received out of order as one chain
of pbufs, of which the callback reads the first), `faults` (of start-up and of the
driver), `starved` (lwIP has no memory for a write: either `tcp_write` may fail), and the
clients there are. The variable `env` is chosen once, so that one run
covers several environments. In `Gui` a click is a connection; the history variables `unsure` and
`mingled` say when window and board can no longer be compared (below). In `PhySetup` the
register pages and the tuning of delays are left out; a register's content is what the
firmware tests of it.

Operators whose names say how they differ from the one after them (comment
"Mutated: ...") are plausible faults of the code. They are used nowhere; with one
of them in place of the original the run and property named in `PROJECT.json`
must fail, which shows that the property says something.

## 3. What the runs check

| Run | Shows | Bounds |
|---|---|---|
| `neuron` | `CorrectResult`, `ResultOnTime`, `AddressInStep` | 4 weights, reset of 3 edges, up to 2 pixels too many. The pipeline is three deep, so a gap can fall before, within and after the last three pixels. For all sizes: proved |
| `fixed_point` | `Saturates`, `RomMatchesGenerator` | 128 values, 16 entries; every pair of operands; formats of one to six integer bits in the generator and in the RTL, so that they agree, differ either way, and do not fit the table (`fractBits` clamped). For all widths and formats: proved |
| `hardmax` | `DigitCorrect`, `ScanEnds` | 4 inputs, words 0..2, so that all orders and ties occur. For all sizes: proved but for `ScanEnds` |
| `dnn_top` | `InnerContract`, `InOrder`, `SettledRead`, `Answered` | frames of 4, layers of 2, 3 frames with the maximum first, last and tied, gaps to 2, a reset of 6 edges at any time. Frames overlap in flight, as in the design (a frame is longer than a burst). For all sizes: proved but for `Answered` |
| `axi_lite` | `RegistersAsWritten`, `ResponsePaired`, `ReadBack`, `Served` | all 4 registers, 2 words; the next write or read may begin while a response is outstanding, and both channels run at once. For all words: proved but for `Served` |
| `driver` | `OwnDigit`, `LoadedMeansReady`, `SuiteScoresAll`, `BenchEnds` | server and test program; 6 calls, 2 variants, 2 frames each; both engines slower than their timeouts at will, two PCAP transfers held: enough for a load, a frame given up, a load given up and a recovery. For all bounds: proved but for `BenchEnds` |
| `echo` | `OwnAnswer`, `NoByteTwice`, `LedsTell`, `SoundEchoMeansLoaded`, `StaleShrinks`, `ImplementsRequestServer` | frames of 5 bytes, segments to 4: every cutting of every request; a send buffer with exactly the room one frame's answer needs. Six environments: 3 clients that take turns, the same dying at any byte, the same with faults, 2 clients short of memory with and without dying, and 2 clients with everything else allowed. For any number of clients and all sizes: proved |
| `gui` | `ConfirmedIsLoaded`, `DisplayedIsOwn`, `Unlocks` | frames of 4, segments to 3. Three environments: 3 requests whose connections reach the board one after the other, 2 that overlap, 2 with faults and writes that find no memory; sockets closed by a timeout at any byte in all of them. For any number of requests: proved but for `Unlocks` |
| `phy` | `ClockMatchesLink`, `SetupEnds` | every PHY, address, setting, clock source and set of divisors; 2 set-ups, the cable pulled once at any time, a wait of 2 looks. For all bounds: proved but for `SetupEnds` |
| `echo_failed_load` | violated: `EchoMeansLoaded` | a driver that may fail |
| `echo_bad_frame` | violated: `BadFrameCostsOne` | clients that die |
| `driver_late_done` | violated: `DoneIsOwn` | a PCAP slower than its timeout, a device that holds one transfer |

`SettledRead` is what makes the driver's `usleep(10)` right. `DrainTime` is, in the
design, 4*6 + 31 + 31 + 11 + 11 = 108 clock periods, about one microsecond.

The three runs that end in a violation show where the code departs from what it
says of itself:

* `README.md` 116 takes the echo of a variant command for the confirmation of the
  swap; `echo.c` echoes it whether `LoadDNN` succeeded or not, so the GUI shows a
  variant as active that is not. The failure of an inference (a result packet with
  the digit 0, which the GUI displays) and LED 1 (blue after a failed reload) behave
  alike; both can be seen in `LoadVariant` and `Detect` of `EchoServer`.
* `echo.c` 86-91 says a bad frame costs one detect. The overrun drops the piece
  that did not fit, but the pieces behind it are collected as the head of the next
  request, so the next frame is lost too. In real sizes: 200 bytes of a dead frame,
  then frames that arrive as 1460 + 109 bytes: the first piece of the next frame
  overruns, its last 109 bytes stay, and the one after it overruns too.
  `StaleShrinks` shows that what stays behind gets shorter, so that it does end.
* `myDNN_File.c` 266 clears the done bits so that no later load sees them; when the
  wait has timed out they are cleared before they are set. `LoadedMeansReady` holds
  only for loads that begin with an idle device.

Other places where the code departs from what one may expect, seen while modelling and
bounded by the properties above:

* `RGB_State` is `static` in a header (`RGB_driver.h` 60) that `main.c` 33 and `echo.c` 31
  include: there are two copies, and neither file sees what the other has lit. `main.c`
  leaves LED 1 green and LED 2 red. The first `RGB1_Blue` of `echo.c` (126) therefore puts out
  the red of LED 2, which should mean that no inference has been run (`README.md` 193); its
  first `RGB2_Green` (152), when no variant has been loaded, puts out the green of LED 1
  although the server listens (186). `README.md` 199 and `RGB_driver.h` 58 and 74 say that a
  helper leaves the other LED alone. `LedsTell` lists the four pairs of colours that can
  occur, among them <blue, dark> and <dark, blue>, and says which facts about the board can
  still be read off them. With one shared copy (`Show` on the register itself) the dark ones
  would not occur.
* `README.md` 186 says that LED 1 shows green when the server is listening; `main.c` 250-251
  turns it green whatever `start_application` returned (`StartApplication` of `Boot`). It
  stays dark when the network interface cannot be added (only the IPv6 branch of
  `main` shows red, while the table promises it for a missing link), and is not turned blue
  when a load that was given up arrives in the partition after all. LED 2 turns blue when the
  inference is over, also when its result could not be sent (195).
* The sigmoid tables. `README.md` 205 warns that the generator must have the RTL's integer widths;
  `RomMatchesGenerator` says why: the table is right over the whole range of the
  accumulator exactly if the formats are equal and not larger than half the table
  (`Reconciled`), and wrong for some accumulator otherwise. The comment in
  `genSigmoidFuncVals.py` 39-44 says that `weightIntWidth = 4` does not match
  the 1 in `includes.v`; `includes.v` 36-39 has 4, so that the comment is out of date, and
  the calls at 45-47 (4 and 1, tables of 2^5, 2^8 and 2^10) are `Reconciled`. `README.md` 206 calls weights Q1.15;
  the committed ones are in the format with 4 integer bits.
* `dnn_dfx_main.c` 412 says that its reset lets every frame start clean. It clears the
  network, but a DMA transfer that the frame before gave up on goes on, and the rest
  of it enters the network before the next transfer begins. Without the reset (in the
  server) the rest ends its own frame and does no harm; with it the next
  digit may be that of the old frame's rest and half of the new frame. So
  `DigitIsOwn` holds for the server in every case, and for the test program until
  it gives up a DMA transfer; `OwnDigit` says this.
* The test program reads the next bitstream into `BitBuffer` while a PCAP transfer that
  was given up may still be reading it (`Overwritten`); a partition may then hold a mixture. Its
  comments at 148 and 478 place the DMA in the static region, see section 6.
* `ConfirmedIsLoaded` and `DisplayedIsOwn` need a driver that works, memory for the
  answers, segments that arrive one by one, and requests whose bytes do not mix with those of a later one
  (`mingled`). Of a chain of pbufs the callback copies only the first and then frees
  all of it (`echo.c` 83, 190): `FA CE` of a command may stay in the buffer without its
  third byte. The next command then makes `FA CE FA ...`, an unknown code; nothing is
  loaded, and the GUI takes its echo for a confirmation. And a variant request that
  timed out leaves the display and the board apart until the next one succeeds (`unsure`).
  What the window highlights is then the last *confirmed* variant, as its label says.
* The PHY adapter believes the speed bits of a TI PHY without a link, takes the
  number 0 that the Marvell branch returns without one for 10 Mbps, leaves the SLCR
  unlocked when the clock is not its own or has no divisors (861-864, 911-913), and does
  not look again after the last second of its wait (593). With no PHY on the bus it takes
  the Marvell branch and never leaves the loop on the reset bit (575-581).
  `ClockMatchesLink` and `SetupEnds` say what remains true.

The constant `DataFirst = TRUE` of `AxiLite` opens a behaviour that no run covers: an AXI
master may offer data before its address. The register file then writes to the
previous write's address, and the write is never answered. The run and the
proofs assume a master that does not.

## 4. Fairness

Only where a liveness property needs it. `DnnTop` and `Hardmax` assume that the
clock runs (`WF_vars(Clock)`, an edge outside reset, so that no reset is forced to
come; `WF_vars(Scan)`: `Scan` is an edge without a new
vector, and a vector that restarts the scan is an outcome of `ScanEnds`).
`AxiLite` assumes that the clock runs and that the master does not withhold the
signals of a write or a read for ever. `Bench` assumes that its processor runs
(`WF(BenchMain)`: its waits are counted loops) and the network's clock (`WF(BenchInfer)`);
the PCAP and DMA engines owe nothing, which is why its timeouts matter. `PhySetup`
assumes that the processor runs and that a PHY that answers ends its reset; nobody has to
plug in a cable. `Gui` assumes that the thread ends (its sockets have a timeout, so
`GiveUp` is always possible) and that Tk's timer calls `_poll_queue`; the
network, the board and the user owe nothing. `EchoServer` is checked for safety only.
The runs of `Driver`, `EchoServer`, `Gui` and `PhySetup` stop when their bounds (calls, connections,
set-ups) are used up or the firmware has ended, hence `CHECK_DEADLOCK FALSE` there.

## 5. What is proved

All theorems hold for every value of the constants under the named assumptions of
the modules: `NeuronAssumption` (at least one weight, an address space at least
that large, a reset of at least three edges), `HardmaxAssumption`,
`FixedPointAssumption` (the accumulator and the table are divisible by the formats, as the
powers of two are), `AxiAssumption`, `PhyAssumption`, and

* `LayerAssumption`: a layer has as many inputs as the one before has neurons, the first
  layer has more than any other, and no fewer than the last has neurons (784, 30, 30, 10 and
  10 neurons in `includes.v`); `ResetAssumption`: a reset is held for at least four
  edges more than the last layer has neurons (14; `DNN_Reset` holds it for microseconds at
  100 MHz). The invariant needs both: a serialiser, its layer and the maximum finder are
  done with a frame before the next can reach them, and a scan in progress runs on
  through a reset, which does not reach the maximum finder;
* `DriverAssumption`, `BenchAssumption`: the names of the variants are none of the states
  of the partition, the list of bitstreams has no variant twice, and the bound on calls lets
  the test program finish;
* `EchoAssumption`, `RoomAssumption`: the same of the names; a buffer that holds a
  command; a send buffer with room for a frame and its answer. `GuiAssumption`: no
  connection is called `NoConn`.

* `Neuron_proofs`: `TypeCorrect`, `ResultCorrect`, `ResultTimely`,
  `AddressBounded`. None of the three properties is inductive: whether
  the accumulator is complete when `FrameOver` is taken depends on what is still in
  the pipeline. The invariant `IInv` says, as long as the contract is kept, what
  every register holds as a function of `sent`, `idle` and the valid bits: which
  pixels have been accumulated, which is in `Mult` and which in `dataIn_reg`, and
  in the last edges of a frame each register step by step (`idle` counts them).
  While a reset is held it says how much of the pipeline `quiet` edges have
  emptied; this is where three edges are needed. One lemma per phase, then
  one step for `Tick`.
* `Hardmax_proofs`: `TypeCorrect`, `HardmaxCorrect`. During a scan the digit is the first maximum
  of the inputs before `cntr`, and `Max_val` is its value.
* `FixedPoint_proofs`: `TypeCorrect`, `AccumulatorSaturates`, `TableCorrect`, from facts on `SatAdd`
  and on division by the step. `TableCorrect` takes any two formats. If they agree and fit
  the table, a step of the accumulator's top bits is a step of the generator's argument;
  if not, its proof names an accumulator whose entry is wrong.
* `AxiLite_proofs`: `TypeCorrect`, `WritesCorrect`, `ResponsesCorrect`, `ReadsCorrect`, each under
  `~DataFirst`. The channels share only the register file and have an invariant
  each. `WriteInv` relates the state of the write machine to what the master still
  offers (`Phase`), counts one response for the write being made and one for the write
  being answered (`Owed`), and lets only the register being written differ from what
  it must hold (`File`); `ReadInv` does the same for the reads (`Asked`). They are needed
  because the register file does not look at the state machine: that its
  address is the right one follows from which offers can be outstanding in which state.
* `PhySetup_proofs`: `TypeCorrect`, `ClockCorrect`, for any number of set-ups and pulled
  cables. `ClockMatchesLink` speaks of an idle firmware only; the invariant adds which
  states a setting can be in (`PathOK`), that with automatic speed a fresh reading
  is what the clock was set to (`AutoOK`), and that with a pinned speed the clock was
  set before the PHY was told, which has no other link from then on (`PinnedOK`).
* `DnnTop_proofs`: `TypeCorrect`, `ContractKept`, `AnnouncedInOrder`, `ReadSettled`. None
  of them follows from the state of the control alone: a serialiser in `TRANSFER` is
  deaf, a new vector restarts a scan, and only the distance between frames keeps either
  from happening. The invariant therefore follows each frame: `age[f]` is the number of
  edges since the first layer announced frame `f`, and what each stage holds is a function of
  the ages. `AgesOK` says that two ages differ by at least `Period`, the edges a whole
  frame takes; `Start(l)` is the age at which a frame reaches layer `l`, `PhaseOf` what serialiser and
  layer hold `p` edges later, `RestOf` what they hold when no age falls into their stay
  of `Stay(N)` edges, no longer than `Period`, so that no two frames are ever in one stage;
  `ScanAt` says the same of the maximum finder, which also keeps the vector of the
  frame that reached it last. `PendingOK` ties the waiting frames to the ages below
  `Announced`, `IdleOK` the drain time to the youngest. The ages are no
  part of the model: `FlowInv` only claims that they exist, and the proof of a step gives the
  next ones (`Ageing`). One lemma per stage (`StageStep`, `ScanStep`), whose first
  layer is the argument of `Neuron_proofs` again (`EdgeGood`), and one per conjunct for the
  whole network. `ResetOK` counts what `quiet` edges of reset have emptied; `ResetRecovers`
  shows that a whole reset empties the network, so that the ages may start anew.
* `Bench_proofs`: `BenchTypeCorrect`, `DigitsAreOwn`, `SuiteIsFair`, `LoadIsReady`.
  `DriverInv` is the server's part and holds under both programs: which engine may do
  what while the firmware is in a load that found the device idle (`LoadOK`) or between
  loads (`ReadyOK`), and that the network has taken half a frame exactly while the DMA
  still has the other half (`FrameOK`), so that every transfer begins with a new frame
  even after one that was given up. `OwnDigit` is not inductive without them. For the
  test program `MainOK` bounds the calls used by where its loops are, `FineOK` says that
  as long as nothing was reported to have failed every load finds an idle device, and
  `TallyOK` that the frames counted are as many as were begun and all different.
* `Server_proofs`. `SafeInv` (bytes used have left the buffer, what start-up has done) gives
  `ServerTypeCorrect`, `BytesUsedOnce` and `LedsCorrect` in every environment; for the LEDs
  `LedsOK` relates what each file's copy holds, and which of the two the register shows, to
  what has been loaded and answered, since the colours alone do not determine the next ones. With
  clients that take turns `TurnOK` adds that the buffer holds exactly what has arrived of the one
  unfinished request; the lemmas on `Recv` are stated for a request that has the buffer to
  itself (`Clean`), whichever environment gave it that, and give `AnswersAreOwn`
  and `EchoTellsLoaded`. `ServerImplements` maps the server to `RequestServer` by what it has sent
  (`FabricBar`, `AnswerBar`): a segment that completes a request is a step of the abstract
  board, every other one a stutter. `BufferFrees` follows from `StaleOK`, which says how
  the bytes of a dead client are laid out in front of those of the next.
  For the desktop program `WindowOK` relates window, thread and queue, `AloneOK` says
  that until `mingled` only one request at a time has bytes on the board, again
  `Clean`, and `TellsOK` what a result, arrived or in the queue, says about the board: the steps between an
  answer and the moment `_poll_queue` reads it are where `HighlightIsLoaded` and
  `DisplayIsOwn` could fail. `WindowTypeCorrect` is the types.

Only model-checked: liveness (`Answered`, `ScanEnds`, `Served`, `BenchEnds`, `Unlocks`,
`SetupEnds`), which is beyond the prover as used here, and what the three runs that end
in a violation refute. What the proofs of the network leave to the abstraction (one neuron
for its layer, vectors named by frames) is in section 2; the contract under which
`Neuron_proofs` speaks of one neuron is `ContractKept`.

## 6. Not modelled, and the plan

Order of work:

1. (done) neuron, arithmetic, maximum finder, network; register slave; driver;
   start-up, LEDs and TCP server; their first proofs.
2. (done) GUI composed with the server; test program composed with the driver; PHY
   adapter; loads that are given up and arrive later; proofs of the register slave and
   the PHY adapter.
3. (done) proofs of the network, the driver with the test program, the server with its
   refinement of `RequestServer`, and the GUI.
4. An abstract specification of the network, a queue of frames that answers them in order,
   with `DnnTop` proved to implement it; the driver's call as an implementation of
   the outcomes `EchoServer` assumes of it.

Left out for good: the trained weights and the sigmoid's values (data), ReLU
(not selected by `includes.v`), the wiring in `MY_DNN_IP.v`, lwIP, the parts of the PHY
adapter for other chips (SGMII and 1000BASE-X, the ZynqMP and Versal divisors), the DHCP
loop and the IPv6 branch of `main`, which this build does not select, the Vivado scripts, `bintohex.py`, the
test benches, and drawing in the GUI (a grid is the content of a frame). That a
failed inference is answered with a digit is stated by no property: the packet has no
field for a failure. The driver model follows the block design in
`src/Vivado` in placing the DMA inside the reconfigurable partition, although
`README.md` 102 and a comment in `myDNN_File.c` 14 call it static: a
reconfiguration ends a DMA transfer in progress.
