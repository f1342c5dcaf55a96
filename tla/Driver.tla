------------------------------- MODULE Driver -------------------------------
(***************************************************************************)
(* The driver of Vitis/myDNN_File.c: LoadDNN and Use_DigitRecognitionDNN,  *)
(* called one at a time by the server, step by step against the engines    *)
(* they start and poll: the PCAP transfer that rewrites the reconfigurable *)
(* partition, and the DMA that streams the pixels of TxBuffer into it.     *)
(*                                                                         *)
(* A frame is two halves, so that a transfer can be caught in the middle;  *)
(* a half is the number of the call whose pixels it holds.  The network is *)
(* the one of module DnnTop, seen from the bus: it takes halves until it   *)
(* has two and then its digit register changes (SettledRead, InOrder).     *)
(***************************************************************************)
EXTENDS Integers, Sequences

CONSTANTS
  Variants,  \* the partial bitstreams
  MaxCalls,  \* bound: driver calls made
  Depth,     \* PCAP transfers the device holds, the running one included
  PcapSlow,  \* a PCAP transfer may outlast PCAP_TIMEOUT_US
  DmaSlow    \* a DMA transfer may outlast DMA_TIMEOUT_US

ASSUME DriverAssumption ==
  /\ MaxCalls \in Nat /\ Depth \in Nat \ {0} /\ {PcapSlow, DmaSlow} \subseteq BOOLEAN
  /\ Variants \cap {"none", "detect", "boot", "mixed"} = {}

VARIABLES
  pc,       \* where the firmware is in the call
  call,     \* its number, the variant to load or "detect", and (history)
            \* whether the PCAP device was idle when it began
  pass,     \* LoadDNN transfers the bitstream twice
  pcap,     \* the transfers the device holds; the first is running
  done,     \* the DMA and PCAP done bits of the device's interrupt status
  fabric,   \* the variant the partition holds, pcap permitting
  running,  \* bit 0 of slv_reg0: the network is out of reset
  dma,      \* halves the DMA has still to send
  tx,       \* TxBuffer
  fed,      \* halves the network has taken of the current frame
  digit,    \* what the digit register was computed from
  last,     \* the result of the last call: whether it succeeded, and its digit
  ready     \* history: the variant loaded last, "none" after a load that failed
            \* or that found an earlier transfer still going on
firmware == <<pc, call, pass, last, ready>>
network  == <<fabric, running, fed, digit>>
vars == <<pc, call, pass, pcap, done, fabric, running, dma, tx, fed, digit, last, ready>>

Calls   == 0 .. MaxCalls
Garbage == -1
Contents == Variants \cup {"mixed"}  \* mixed: from a buffer that was overwritten (Bench)
Halves  == Calls \cup {Garbage}
Digit(frame, by) == [frame |-> frame, by |-> by]
NoDigit == Digit(<<Garbage>>, "none")

TypeOK ==
  /\ pc \in {"idle", "cleared", "pcapWait", "settle", "held", "copied", "dmaWait", "drain"}
  /\ call \in [id: Calls, op: Variants \cup {"none", "detect"}, idle: BOOLEAN]
  /\ pass \in {1, 2} /\ done \in BOOLEAN
  /\ pcap \in Seq(Contents) /\ Len(pcap) <= Depth
  /\ fabric \in Contents \cup {"boot"} /\ running \in BOOLEAN
  /\ dma \in 0 .. 2 /\ tx \in [{1, 2} -> Halves]
  /\ fed \in Seq(Halves) /\ Len(fed) <= 2
  /\ digit \in [frame: Seq(Halves), by: Contents \cup {"boot", "none"}]
  /\ last \in [ok: BOOLEAN, digit: [frame: Seq(Halves), by: Contents \cup {"boot", "none"}]]
  /\ ready \in Variants \cup {"none"}

\* After DNN_init: the network of the full bitstream, held in reset by slv_reg0.
Init ==
  /\ pc = "idle" /\ call = [id |-> 0, op |-> "none", idle |-> TRUE] /\ pass = 1
  /\ pcap = <<>> /\ done = FALSE
  /\ fabric = "boot" /\ running = FALSE
  /\ dma = 0 /\ tx = [k \in {1, 2} |-> Garbage]
  /\ fed = <<>> /\ digit = NoDigit
  /\ last = [ok |-> FALSE, digit |-> NoDigit] /\ ready = "none"

Return(ok, d) ==
  /\ pc' = "idle" /\ last' = [ok |-> ok, digit |-> d]
  /\ ready' = CASE call.op = "detect"                    -> ready
                [] call.op # "detect" /\ ok /\ call.idle -> call.op
                [] OTHER                                 -> "none"
  /\ UNCHANGED <<call, pass>>

-----------------------------------------------------------------------------
\* LoadDNN: Pcap_LoadBitstream, then Dfx_LoadVariant, which calls it again.
Load(v) ==
  /\ pc = "idle" /\ call.id < MaxCalls
  /\ call' = [id |-> call.id + 1, op |-> v, idle |-> pcap = <<>>] /\ pass' = 1
  /\ pc' = "cleared" /\ done' = FALSE
  /\ UNCHANGED <<last, ready, pcap, dma, tx>> /\ UNCHANGED network

\* Mutated: a full device is not looked at.
SubmitUnchecked ==
  /\ pc = "cleared"
  /\ pcap' = Append(pcap, call.op) /\ pc' = "pcapWait"
  /\ UNCHANGED <<call, pass, last, ready, done, dma, tx>> /\ UNCHANGED network

\* XDcfg_Transfer takes the transfer or refuses it.
Submit ==
  /\ pc = "cleared" /\ Len(pcap) < Depth
  /\ pcap' = Append(pcap, call.op) /\ pc' = "pcapWait"
  /\ UNCHANGED <<call, pass, last, ready, done, dma, tx>> /\ UNCHANGED network
SubmitFails ==
  /\ pc = "cleared" /\ Return(FALSE, NoDigit)
  /\ UNCHANGED <<pcap, done, dma, tx>> /\ UNCHANGED network

\* The done bits are seen; they are cleared before the next transfer.
SeeDone ==
  /\ pc = "pcapWait" /\ done /\ done' = FALSE
  /\ IF pass = 1 THEN pass' = 2 /\ pc' = "cleared" ELSE pass' = pass /\ pc' = "settle"
  /\ UNCHANGED <<call, last, ready, pcap, dma, tx>> /\ UNCHANGED network

\* Mutated: the tries are not counted down.
PcapWaitForever == FALSE

\* The loop ran out of tries.  The transfer is not aborted, and bits set since
\* the last look are cleared unseen.
PcapTimeout ==
  /\ pc = "pcapWait" /\ PcapSlow /\ done' = FALSE /\ Return(FALSE, NoDigit)
  /\ UNCHANGED <<pcap, dma, tx>> /\ UNCHANGED network

\* Mutated: what the network has taken of a frame survives the reset.
HeldButNotCleared == running' = FALSE /\ UNCHANGED fed

\* DNN_Reset.  A register in a partition that is being rewritten takes no write.
HeldInReset == running' = FALSE /\ fed' = <<>>
HoldReset ==
  /\ pc = "settle" /\ pc' = "held"
  /\ IF pcap = <<>> THEN HeldInReset ELSE UNCHANGED <<running, fed>>
  /\ UNCHANGED <<call, pass, last, ready, pcap, done, fabric, dma, tx, digit>>
ReleaseReset ==
  /\ pc = "held" /\ Return(TRUE, NoDigit)
  /\ running' = (pcap = <<>> \/ running)
  /\ UNCHANGED <<pcap, done, fabric, dma, tx, fed, digit>>

-----------------------------------------------------------------------------
\* Use_DigitRecognitionDNN: TxBuffer is overwritten before the DMA is asked
\* whether it is still reading it.
Copy ==
  /\ pc = "idle" /\ call.id < MaxCalls
  /\ call' = [id |-> call.id + 1, op |-> "detect", idle |-> pcap = <<>>]
  /\ tx' = [k \in {1, 2} |-> call'.id] /\ pc' = "copied"
  /\ UNCHANGED <<pass, last, ready, pcap, done, dma>> /\ UNCHANGED network

\* XAxiDma_SimpleTransfer refuses a transfer while one is going on.  The engine
\* is in the partition: while that is rewritten it may seem to be idle.
StartDma ==
  /\ pc = "copied" /\ dma = 0 /\ pc' = "dmaWait"
  /\ dma' \in (IF pcap = <<>> THEN {2} ELSE {0, 2})
  /\ UNCHANGED <<call, pass, last, ready, pcap, done, tx>> /\ UNCHANGED network
StartFails ==
  /\ pc = "copied" /\ Return(FALSE, NoDigit)
  /\ UNCHANGED <<pcap, done, dma, tx>> /\ UNCHANGED network

DmaTimeout ==
  /\ pc = "dmaWait" /\ DmaSlow /\ dma > 0 /\ Return(FALSE, NoDigit)
  /\ UNCHANGED <<pcap, done, dma, tx>> /\ UNCHANGED network
DmaIdle ==
  /\ pc = "dmaWait" /\ dma = 0 /\ pc' = "drain"
  /\ UNCHANGED <<call, pass, last, ready, pcap, done, dma, tx>> /\ UNCHANGED network

\* The pipeline settles during usleep(10) (ten times DnnTop's DrainTime).
Drained == Len(fed) < 2

\* Mutated: no delay before the register is read.
ReadAtOnce ==
  /\ pc = "drain" /\ Return(TRUE, digit)
  /\ UNCHANGED <<pcap, done, dma, tx>> /\ UNCHANGED network

ReadDigit ==
  /\ pc = "drain" /\ Drained /\ Return(TRUE, digit)
  /\ UNCHANGED <<pcap, done, dma, tx>> /\ UNCHANGED network

-----------------------------------------------------------------------------
\* The device writes the partition.  All its registers, those of the DMA and of
\* the network, come up without a known value but for the idle DMA.
PcapFinish ==
  /\ pcap # <<>> /\ fabric' = Head(pcap) /\ pcap' = Tail(pcap) /\ done' = TRUE
  /\ dma' = 0 /\ digit' = NoDigit /\ running' \in BOOLEAN /\ fed' \in {<<>>, <<Garbage>>}
  /\ UNCHANGED <<tx>> /\ UNCHANGED firmware

\* TREADY is always high: pixels sent to a network in reset are lost.
DmaSends ==
  /\ dma > 0 /\ pcap = <<>> /\ Drained
  /\ dma' = dma - 1
  /\ fed' = IF running THEN Append(fed, tx[3 - dma]) ELSE <<>>
  /\ UNCHANGED <<pcap, done, fabric, running, tx, digit>> /\ UNCHANGED firmware

Infer ==
  /\ ~Drained /\ digit' = Digit(fed, fabric) /\ fed' = <<>>
  /\ UNCHANGED <<pcap, done, fabric, running, dma, tx>> /\ UNCHANGED firmware

Firmware ==
  \/ \E v \in Variants : Load(v)
  \/ Submit \/ SubmitFails \/ SeeDone \/ PcapTimeout \/ HoldReset \/ ReleaseReset
  \/ Copy \/ StartDma \/ StartFails \/ DmaTimeout \/ DmaIdle \/ ReadDigit
Next == Firmware \/ PcapFinish \/ DmaSends \/ Infer

Spec == Init /\ [][Next]_vars

-----------------------------------------------------------------------------
\* When LoadDNN reports success the partition holds the variant, nothing writes it
\* any more, and the network runs with none of an earlier frame in it; provided
\* that no transfer given up on was still going on when the call began.
LoadedMeansReady ==
  [][pc = "held" /\ pc' = "idle" /\ call.idle =>
       pcap' = <<>> /\ fabric' = call.op /\ running' /\ fed' = <<>>]_vars

\* After such a load, and as long as none fails, a digit that
\* Use_DigitRecognitionDNN reports was computed from the whole frame of that very
\* call by that variant, whatever transfers earlier calls have given up on while
\* they went on.
DigitIsOwn ==
  ready # "none" /\ pc = "idle" /\ call.op = "detect" /\ last.ok
    => last.digit = Digit(<<call.id, call.id>>, ready)

\* Done bits seen belong to the transfer that is waited for.
DoneIsOwn == [][pc = "pcapWait" /\ pc' \in {"cleared", "settle"} => pcap = <<>>]_vars

=============================================================================
