-------------------------------- MODULE Bench --------------------------------
(***************************************************************************)
(* The stand-alone test program, Test_DNN_C_src/dnn_dfx_main.c: it loads   *)
(* the variants from SD card one after the other, runs the same frames on  *)
(* each, and counts right and wrong digits.  Its transfers are the         *)
(* driver's, so the two programs share the steps of module Driver, but it  *)
(* transfers a bitstream once, from a buffer it reuses, and resets the     *)
(* network before every frame.                                             *)
(*                                                                         *)
(* The digit a frame is expected to give is the one computed from its own  *)
(* pixels by the variant under test; any other counts as a different one.  *)
(***************************************************************************)
EXTENDS Driver, FiniteSets

CONSTANTS
  Programs,    \* which firmware runs: "server" (myDNN_File.c), "bench" or either
  bitstreams,  \* the table of variants, in order, each of them once
  NumFrames    \* NUM_TEST_FRAMES

ASSUME BenchAssumption ==
  /\ Programs \subseteq {"server", "bench"} /\ bitstreams \in Seq(Variants)
  /\ \A j, k \in 1 .. Len(bitstreams) : bitstreams[j] = bitstreams[k] => j = k
  /\ NumFrames \in Nat \ {0} /\ MaxCalls >= Len(bitstreams) * (1 + NumFrames)

VARIABLES
  program,  \* the firmware that runs
  at,       \* where main of the bench is
  v, i,     \* its loop counters: the variant and the frame
  tally,    \* for each variant: frames right and wrong, and the digits seen
  late,     \* history: a DMA transfer was given up since the last good load
  trouble   \* history: a call has failed
bench   == <<program, at, v, i, tally, late, trouble>>
allVars == <<vars, bench>>

Label == bitstreams[v]
Empty == [right |-> 0, wrong |-> 0, seen |-> {}]

BenchTypeOK ==
  /\ TypeOK /\ program \in Programs
  /\ at \in {"main", "load", "loading", "reset", "held", "infer", "done", "returned"}
  /\ v \in 1 .. Len(bitstreams) + 1 /\ i \in 1 .. NumFrames
  /\ \A b \in Variants : tally[b].right + tally[b].wrong \in 0 .. NumFrames
  /\ {late, trouble} \subseteq BOOLEAN

BenchInit ==
  /\ Init /\ program \in Programs
  /\ at = "main" /\ v = 1 /\ i = 1 /\ tally = [b \in Variants |-> Empty]
  /\ late = FALSE /\ trouble = FALSE

-----------------------------------------------------------------------------
\* Sd_Mount, Dcfg_Init and Dma_Init: any failure ends the program.
Mount     == {"load", "returned"}
Dcfg_Init == {"load", "returned"}
Dma_Init  == {"load", "returned"}
Start ==
  /\ at = "main" /\ at' \in Mount \cup Dcfg_Init \cup Dma_Init
  /\ UNCHANGED vars /\ UNCHANGED <<program, v, i, tally, late, trouble>>

NextVariant == at' = "load" /\ v' = v + 1 /\ i' = 1

\* What transfers still to finish will deliver once the buffer they read from holds
\* something else: the running one is caught anywhere, those behind it have yet to
\* begin.
Overwritten(content) ==
  IF pcap = <<>> THEN {<<>>}
  ELSE {[k \in DOMAIN pcap |-> IF k = 1 THEN first ELSE content] :
          first \in {pcap[1], content, "mixed"}}

\* Sd_ReadFile into BitBuffer, and a length of whole words.  A read may fail before
\* or after part of the buffer was overwritten.
ReadFile ==
  /\ at = "load" /\ v <= Len(bitstreams) /\ at' = "loading"
  /\ pcap' \in Overwritten(Label)
  /\ call' = [id |-> call.id + 1, op |-> Label, idle |-> pcap = <<>>] /\ pass' = 2
  /\ pc' = "cleared" /\ done' = FALSE
  /\ UNCHANGED <<last, ready, dma, tx>> /\ UNCHANGED network
  /\ UNCHANGED <<program, v, i, tally, late, trouble>>
ReadFileFails ==
  /\ at = "load" /\ v <= Len(bitstreams) /\ NextVariant
  /\ pcap' \in {pcap} \cup Overwritten("mixed")
  /\ trouble' = TRUE
  /\ UNCHANGED <<pc, call, pass, done, last, ready, dma, tx>> /\ UNCHANGED network
  /\ UNCHANGED <<program, tally, late>>

\* Pcap_LoadBitstream and the reset behind it, step by step as in the driver; a
\* failure skips the variant.
Pcap_LoadBitstream == Submit \/ SubmitFails \/ SeeDone \/ PcapTimeout
Dfx_LoadVariant ==
  /\ at = "loading" /\ (Pcap_LoadBitstream \/ HoldReset \/ ReleaseReset)
  /\ CASE pc' # "idle"            -> UNCHANGED <<at, v, i, late, trouble>>
       [] pc' = "idle" /\ last'.ok  -> at' = "reset" /\ late' = FALSE /\ UNCHANGED <<v, i, trouble>>
       [] pc' = "idle" /\ ~last'.ok -> NextVariant /\ trouble' = TRUE /\ UNCHANGED late
  /\ UNCHANGED <<program, tally>>

-----------------------------------------------------------------------------
\* Run_TestSuite: reset, infer, count.
FrameReset ==
  /\ at = "reset" /\ at' = "held"
  /\ IF pcap = <<>> THEN HeldInReset ELSE UNCHANGED <<running, fed>>
  /\ UNCHANGED <<pc, call, pass, pcap, done, fabric, dma, tx, digit, last, ready>>
  /\ UNCHANGED <<program, v, i, tally, late, trouble>>
FrameRelease ==
  /\ at = "held" /\ at' = "infer" /\ running' = (pcap = <<>> \/ running)
  /\ UNCHANGED <<pc, call, pass, pcap, done, fabric, dma, tx, fed, digit, last, ready>>
  /\ UNCHANGED <<program, v, i, tally, late, trouble>>

\* Mutated: a failed inference is not counted.
CountedIfOk(t, ok, got) ==
  CASE ok /\ got = Digit(<<call.id, call.id>>, Label) ->
         [t EXCEPT !.right = @ + 1, !.seen = @ \cup {got}]
    [] ok /\ got # Digit(<<call.id, call.id>>, Label) ->
         [t EXCEPT !.wrong = @ + 1, !.seen = @ \cup {got}]
    [] ~ok -> t

Counted(t, ok, got) ==
  CASE ok /\ got = Digit(<<call.id, call.id>>, Label) ->
         [t EXCEPT !.right = @ + 1, !.seen = @ \cup {got}]
    [] ok /\ got # Digit(<<call.id, call.id>>, Label) ->
         [t EXCEPT !.wrong = @ + 1, !.seen = @ \cup {got}]
    [] ~ok -> [t EXCEPT !.wrong = @ + 1]

\* DNN_Infer, step by step as in the driver.
DNN_Infer == Copy \/ StartDma \/ StartFails \/ DmaTimeout \/ DmaIdle \/ ReadDigit
Run_TestSuite ==
  /\ at = "infer" /\ DNN_Infer
  /\ late' = (late \/ (pc = "dmaWait" /\ pc' = "idle"))
  /\ IF pc' = "idle"
     THEN /\ tally' = [tally EXCEPT ![Label] = Counted(@, last'.ok, last'.digit)]
          /\ trouble' = (trouble \/ ~last'.ok)
          /\ IF i < NumFrames THEN i' = i + 1 /\ at' = "reset" /\ UNCHANGED v
             ELSE NextVariant
     ELSE UNCHANGED <<at, v, i, tally, trouble>>
  /\ UNCHANGED program

End ==
  /\ at = "load" /\ v = Len(bitstreams) + 1 /\ at' = "done"
  /\ UNCHANGED vars /\ UNCHANGED <<program, v, i, tally, late, trouble>>

Main == Start \/ ReadFile \/ ReadFileFails \/ Dfx_LoadVariant \/ FrameReset
        \/ FrameRelease \/ Run_TestSuite \/ End
Engines == PcapFinish \/ DmaSends \/ Infer

BenchMain    == program = "bench" /\ Main
BenchEngines == program = "bench" /\ Engines /\ UNCHANGED bench
BenchInfer   == program = "bench" /\ Infer /\ UNCHANGED bench
ServerStep   == program = "server" /\ Next /\ UNCHANGED bench
BenchNext    == BenchMain \/ BenchEngines \/ ServerStep

\* The bench's processor runs, and the network's clock; the engines it waits for
\* owe it nothing.
BenchSpec ==
  BenchInit /\ [][BenchNext]_allVars /\ WF_allVars(BenchMain) /\ WF_allVars(BenchInfer)

-----------------------------------------------------------------------------
\* Both programs' digits are their own.  The bench's only as long as it has given
\* up no DMA transfer since the last good load: its reset between frames lets the
\* rest of such a transfer begin a frame, which without the reset it would end.
OwnDigit == program = "server" \/ ~late => DigitIsOwn

\* Every frame of a variant is counted once unless the variant was skipped, and the
\* bench accuses the hardware only if it has reported a failure before: without
\* one no frame is wrong and, the frames showing different digits, there is no
\* warning that all of them were the same.
SuiteScoresAll ==
  /\ \A k \in 1 .. v - 1 : LET t == tally[bitstreams[k]] IN
       /\ t.right + t.wrong \in {0, NumFrames}
       /\ ~trouble => t.right = NumFrames /\ Cardinality(t.seen) = NumFrames
  /\ ~trouble => \A b \in Variants : tally[b].wrong = 0

\* The test program ends, even if no transfer it starts ever does.
BenchEnds == program = "bench" ~> at \in {"done", "returned"}

=============================================================================
