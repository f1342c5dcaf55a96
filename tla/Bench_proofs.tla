---------------------------- MODULE Bench_proofs ----------------------------
(***************************************************************************)
(* The driver's calls, and the test program's tally of them, for any       *)
(* number of variants, frames and calls and any depth of the PCAP device,  *)
(* with both engines as slow as they like.                                 *)
(***************************************************************************)
EXTENDS Bench, SequenceTheorems, FiniteSetTheorems, TLAPS

Loads   == {"cleared", "pcapWait", "settle", "held"}
Detects == {"copied", "dmaWait", "drain"}

CallOK ==
  /\ pc \in Loads => call.op \in Variants
  /\ pc \in Detects => call.op = "detect"

\* A load that found the device idle sees only its own transfer: its done bit means
\* that the variant is there, and the DMA, which is in the partition, at rest.
LoadOK ==
  pc \in Loads /\ call.idle =>
    /\ pc = "cleared" => pcap = <<>> /\ ~done
    /\ pc = "pcapWait" => \/ pcap = <<call.op>> /\ ~done
                          \/ pcap = <<>> /\ done /\ fabric = call.op /\ dma = 0
    /\ pc \in {"settle", "held"} => pcap = <<>> /\ fabric = call.op /\ dma = 0
    /\ pc = "held" => ~running /\ fed = <<>>

\* Between loads a loaded variant stays where it is.
Usable == ready # "none" /\ pc \notin Loads
ReadyOK == Usable => pcap = <<>> /\ fabric = ready /\ (running <=> at # "held")

\* A half that the network has taken is the first of two of which the DMA still
\* has the second, so a transfer always begins with a new frame, and what this
\* call's transfer has delivered is this call's.
Own   == <<call.id, call.id>>
Taken == fed = Own \/ (fed = <<>> /\ digit = Digit(Own, ready))
FrameOK ==
  Usable /\ (program = "server" \/ ~late) =>
    /\ Len(fed) = 1 <=> dma = 1
    /\ program = "bench" /\ pc \in {"idle", "copied"} => dma = 0 /\ fed = <<>>
    /\ pc \in Detects => tx[1] = call.id /\ tx[2] = call.id
    /\ pc = "dmaWait" => (dma = 1 => fed = <<call.id>>) /\ (dma = 0 => Taken)
    /\ pc = "drain" => dma = 0 /\ Taken

DriverInv == TypeOK /\ CallOK /\ LoadOK /\ ReadyOK /\ FrameOK /\ OwnDigit

-----------------------------------------------------------------------------
\* Where main is, and that the calls it has made do not exceed the bound.
Testing == at \in {"reset", "held", "infer"}
Before  == (v - 1) * (1 + NumFrames)
Used    == CASE at = "loading"                            -> 1
             [] at \in {"reset", "held"}                  -> i
             [] at = "infer" /\ pc \notin Detects         -> i
             [] at = "infer" /\ pc \in Detects            -> i + 1
             [] at \in {"main", "load", "done", "returned"} -> 0
MainOK ==
  /\ program \in Programs
  /\ at \in {"main", "load", "loading", "reset", "held", "infer", "done", "returned"}
  /\ v \in 1 .. Len(bitstreams) + 1 /\ i \in 1 .. NumFrames
  /\ {late, trouble} \subseteq BOOLEAN /\ (~Testing => i = 1)
  /\ program = "server" => at = "main" /\ v = 1 /\ ~late /\ ~trouble
  /\ program = "bench" =>
       /\ pc \in Loads <=> at = "loading"
       /\ pc \in Detects => at = "infer"
       /\ Testing \/ at = "loading" => v <= Len(bitstreams)
       /\ at = "loading" => call.op = Label
       /\ call.id <= Before + Used

\* As long as nothing has failed, every load finds an idle device.
FineOK ==
  program = "bench" /\ ~trouble =>
    /\ ~late
    /\ pc \notin Loads => pcap = <<>>
    /\ pc \in Loads => call.idle
    /\ Testing => ready = Label

\* The digits of earlier calls: those of this one differ from them.
Ended == IF pc \in Detects THEN call.id - 1 ELSE call.id
Seen  == {Digit(<<j, j>>, b) : j \in 0 .. Ended, b \in Variants}
Digits  == [frame: Seq(Halves), by: Contents \cup {"boot", "none"}]
Tallies == [right: Nat, wrong: Nat, seen: SUBSET Digits]
TallyOK ==
  /\ tally \in [Variants -> Tallies]
  /\ \A b \in Variants : tally[b].right + tally[b].wrong <= NumFrames
  /\ \A k \in 1 .. Len(bitstreams) :
       LET t == tally[bitstreams[k]]
       IN /\ k < v => t.right + t.wrong \in {0, NumFrames} /\ (~trouble => t.right = NumFrames)
          /\ k = v => t.right + t.wrong = (IF Testing THEN i - 1 ELSE 0)
          /\ k > v => t.right + t.wrong = 0
  /\ ~trouble => \A b \in Variants :
       /\ tally[b].wrong = 0
       /\ IsFiniteSet(tally[b].seen) /\ Cardinality(tally[b].seen) = tally[b].right
       /\ tally[b].seen \subseteq Seen

IInv == DriverInv /\ MainOK /\ FineOK /\ TallyOK

-----------------------------------------------------------------------------
\* Sequences of at most one element that the proofs meet.
LEMMA TailTyped ==
  ASSUME NEW T, NEW q \in Seq(T), q # <<>>
  PROVE  Head(q) \in T /\ Tail(q) \in Seq(T) /\ Len(Tail(q)) = Len(q) - 1
BY HeadTailProperties

\* The type invariant of the driver's variables is kept by every step of a call,
\* and by every step of an engine.
LEMMA NoDigitTyped == NoDigit \in Digits
BY DEF NoDigit, Digit, Digits, Halves, Garbage

LEMMA FirmwareTypes ==
  ASSUME TypeOK, CallOK, Firmware
  PROVE  TypeOK'
<1> USE DriverAssumption DEF TypeOK, network
<1>1. ASSUME NEW w \in Variants, Load(w) PROVE TypeOK'
  <2>1. call' \in [id: Calls, op: Variants \cup {"none", "detect"}, idle: BOOLEAN]
    BY <1>1 DEF Load, Calls
  <2> QED  BY <1>1, <2>1 DEF Load
<1>2. CASE Submit
  <2>1. call.op \in Contents
    BY <1>2 DEF Submit, CallOK, Loads, Contents
  <2>2. pcap' \in Seq(Contents) /\ Len(pcap') <= Depth
    BY <1>2, <2>1 DEF Submit
  <2> QED  BY <1>2, <2>2 DEF Submit
<1>3. ASSUME NEW ok \in BOOLEAN, NEW d \in Digits, Return(ok, d)
      PROVE  /\ pc' = "idle" /\ call' = call /\ pass' = pass
             /\ last' \in [ok: BOOLEAN, digit: Digits]
             /\ (call.op # "detect" => call.op \in Variants) => ready' \in Variants \cup {"none"}
  BY <1>3 DEF Return
<1>4. call.op \in Variants \/ call.op = "detect" \/ pc = "idle"
  BY DEF CallOK, Loads, Detects
<1>5. CASE SubmitFails
  BY <1>3, <1>4, <1>5, NoDigitTyped DEF SubmitFails, Digits
<1>6. CASE SeeDone
  BY <1>6 DEF SeeDone
<1>7. CASE PcapTimeout
  BY <1>3, <1>4, <1>7, NoDigitTyped DEF PcapTimeout, Digits
<1>8. CASE HoldReset
  <2>1. running' \in BOOLEAN /\ fed' \in Seq(Halves) /\ Len(fed') <= 2
    <3>1. CASE pcap = <<>>
      <4>1. running' = FALSE /\ fed' = <<>>
        BY <1>8, <3>1 DEF HoldReset, HeldInReset
      <4>2. fed' \in Seq(Halves) /\ Len(fed') <= 2
        BY ONLY <4>1
      <4> QED  BY <4>1, <4>2
    <3>2. CASE pcap # <<>>
      BY <1>8, <3>2 DEF HoldReset
    <3> QED  BY <3>1, <3>2
  <2> QED  BY <1>8, <2>1 DEF HoldReset
<1>9. CASE ReleaseReset
  BY <1>3, <1>4, <1>9, NoDigitTyped DEF ReleaseReset, Digits
<1>10. CASE Copy
  <2>1. call' \in [id: Calls, op: Variants \cup {"none", "detect"}, idle: BOOLEAN]
        /\ call'.id \in Halves
    BY <1>10 DEF Copy, Calls, Halves
  <2>2. tx' \in [{1, 2} -> Halves]
    BY <1>10, <2>1 DEF Copy
  <2> QED  BY <1>10, <2>1, <2>2 DEF Copy
<1>11. CASE StartDma
  BY <1>11 DEF StartDma
<1>12. CASE StartFails
  BY <1>3, <1>4, <1>12, NoDigitTyped DEF StartFails, Digits
<1>13. CASE DmaTimeout
  BY <1>3, <1>4, <1>13, NoDigitTyped DEF DmaTimeout, Digits
<1>14. CASE DmaIdle
  BY <1>14 DEF DmaIdle
<1>15. CASE ReadDigit
  BY <1>3, <1>4, <1>15 DEF ReadDigit, Digits
<1> QED
  BY <1>1, <1>2, <1>5, <1>6, <1>7, <1>8, <1>9, <1>10, <1>11, <1>12, <1>13, <1>14, <1>15
     DEF Firmware

LEMMA EngineTypes ==
  ASSUME TypeOK, Engines
  PROVE  TypeOK'
<1> USE DriverAssumption DEF TypeOK, firmware
<1>1. CASE PcapFinish
  <2>1. fabric' \in Contents /\ pcap' \in Seq(Contents) /\ Len(pcap') <= Depth
    BY <1>1, TailTyped DEF PcapFinish
  <2>2. fed' \in Seq(Halves) /\ Len(fed') <= 2
    <3>1. Garbage \in Halves
      BY DEF Halves
    <3>2. <<>> \in Seq(Halves) /\ <<Garbage>> \in Seq(Halves)
      BY <3>1
    <3>3. Len(<<>>) = 0 /\ Len(<<Garbage>>) = 1
      OBVIOUS
    <3>4. fed' = <<>> \/ fed' = <<Garbage>>
      BY <1>1 DEF PcapFinish
    <3>5. CASE fed' = <<>>
      BY ONLY <3>5, <3>2, <3>3
    <3>6. CASE fed' = <<Garbage>>
      BY ONLY <3>6, <3>2, <3>3
    <3> QED  BY ONLY <3>4, <3>5, <3>6
  <2> QED  BY <1>1, <2>1, <2>2, NoDigitTyped DEF PcapFinish, Digits
<1>2. CASE DmaSends
  <2>1. 3 - dma \in {1, 2} /\ tx[3 - dma] \in Halves
    BY <1>2 DEF DmaSends
  <2>2. fed' \in Seq(Halves) /\ Len(fed') <= 2
    BY <1>2, <2>1 DEF DmaSends, Drained
  <2> QED  BY <1>2, <2>2 DEF DmaSends
<1>3. CASE Infer
  <2>1. digit' \in Digits
    BY <1>3 DEF Infer, Digit, Digits
  <2> QED  BY <1>3, <2>1 DEF Infer, Digits
<1> QED
  BY <1>1, <1>2, <1>3 DEF Engines

-----------------------------------------------------------------------------
\* What the steps of a call need of main, which is neither holding the reset before
\* nor after them: a DMA transfer that is given up is noted, a good load forgets it.
MainStep ==
  /\ program' = program /\ at # "held" /\ at' # "held"
  /\ ~late' => ~late \/ pc = "held"
  /\ program = "bench" /\ pc = "dmaWait" /\ pc' = "idle" => late'

\* The steps of a load.
LEMMA LoadStep ==
  ASSUME DriverInv, MainStep,
         (\E w \in Variants : Load(w)) \/ Submit \/ SubmitFails \/ SeeDone \/ PcapTimeout
           \/ HoldReset \/ ReleaseReset
  PROVE  DriverInv'
<1>1. TypeOK /\ CallOK /\ LoadOK /\ ReadyOK /\ FrameOK
  BY DEF DriverInv
<1>2. TypeOK'
  BY <1>1, FirmwareTypes DEF Firmware
<1>3. /\ Variants \cap {"none", "detect", "boot", "mixed"} = {}
      /\ pc \in Loads => call.op \in Variants /\ call.op # "detect" /\ call.op # "none"
  BY <1>1, DriverAssumption DEF CallOK
<1> USE DEF Loads, Detects
<1>4. ASSUME NEW w \in Variants, Load(w) PROVE DriverInv'
  <2>1. pc' = "cleared" /\ call'.op = w /\ (call'.idle <=> pcap' = <<>>) /\ ~done'
    BY <1>4 DEF Load
  <2>2. CallOK' /\ LoadOK'
    BY <2>1 DEF CallOK, LoadOK
  <2> QED  BY <1>2, <2>1, <2>2 DEF DriverInv, ReadyOK, FrameOK, Usable, OwnDigit, DigitIsOwn
<1>5. CASE Submit
  <2>1. pc = "cleared" /\ pc' = "pcapWait" /\ call' = call /\ pcap' = Append(pcap, call.op)
        /\ done' = done
    BY <1>5 DEF Submit
  <2>2. call.idle => pcap' = <<call.op>> /\ ~done'
    BY <1>1, <2>1 DEF LoadOK
  <2>3. CallOK' /\ LoadOK'
    BY <1>3, <2>1, <2>2 DEF CallOK, LoadOK
  <2> QED  BY <1>2, <2>1, <2>3 DEF DriverInv, ReadyOK, FrameOK, Usable, OwnDigit, DigitIsOwn
<1>6. CASE SubmitFails \/ PcapTimeout
  <2>1. pc \in Loads /\ pc' = "idle" /\ last'.ok = FALSE /\ ready' = "none"
    BY <1>3, <1>6 DEF SubmitFails, PcapTimeout, Return
  <2> QED
    BY <1>2, <2>1 DEF DriverInv, CallOK, LoadOK, ReadyOK, FrameOK, Usable, OwnDigit, DigitIsOwn
<1>7. CASE SeeDone
  <2>1. /\ pc = "pcapWait" /\ done /\ ~done' /\ call' = call /\ pc' \in {"cleared", "settle"}
        /\ pcap' = pcap /\ fabric' = fabric /\ dma' = dma
    BY <1>7 DEF SeeDone, network
  <2>2. call.idle => pcap' = <<>> /\ fabric' = call.op /\ dma' = 0
    BY <1>1, <2>1 DEF LoadOK
  <2>3. CallOK' /\ LoadOK'
    BY <1>3, <2>1, <2>2 DEF CallOK, LoadOK
  <2> QED  BY <1>2, <2>1, <2>3 DEF DriverInv, ReadyOK, FrameOK, Usable, OwnDigit, DigitIsOwn
<1>8. CASE HoldReset
  <2>1. /\ pc = "settle" /\ pc' = "held" /\ call' = call
        /\ pcap' = pcap /\ fabric' = fabric /\ dma' = dma
        /\ pcap = <<>> => ~running' /\ fed' = <<>>
    BY <1>8 DEF HoldReset, HeldInReset
  <2>2. CallOK' /\ LoadOK'
    BY <1>1, <1>3, <2>1 DEF CallOK, LoadOK
  <2> QED  BY <1>2, <2>1, <2>2 DEF DriverInv, ReadyOK, FrameOK, Usable, OwnDigit, DigitIsOwn
<1>9. CASE ReleaseReset
  <2>1. /\ pc = "held" /\ pc' = "idle" /\ call' = call /\ pcap' = pcap /\ fabric' = fabric
        /\ dma' = dma /\ fed' = fed
        /\ ready' = (IF call.idle THEN call.op ELSE "none") /\ (pcap = <<>> => running')
    BY <1>3, <1>9 DEF ReleaseReset, Return
  <2>2. ready' # "none" => pcap' = <<>> /\ fabric' = ready' /\ running' /\ dma' = 0 /\ fed' = <<>>
    BY <1>1, <2>1 DEF LoadOK
  <2>3. CallOK' /\ LoadOK' /\ ReadyOK'
    BY <2>1, <2>2 DEF CallOK, LoadOK, ReadyOK, Usable, MainStep
  <2>4. FrameOK'
    BY <2>1, <2>2 DEF FrameOK, Usable
  <2>5. OwnDigit'
    BY <1>3, <2>1 DEF OwnDigit, DigitIsOwn
  <2> QED  BY <1>2, <2>3, <2>4, <2>5 DEF DriverInv
<1> QED  BY <1>4, <1>5, <1>6, <1>7, <1>8, <1>9

\* The steps of an inference.
LEMMA InferenceStep ==
  ASSUME DriverInv, MainStep,
         Copy \/ StartDma \/ StartFails \/ DmaTimeout \/ DmaIdle \/ ReadDigit
  PROVE  DriverInv'
<1>1. TypeOK /\ CallOK /\ LoadOK /\ ReadyOK /\ FrameOK
  BY DEF DriverInv
<1>2. TypeOK'
  BY <1>1, FirmwareTypes DEF Firmware
<1> USE DEF Loads, Detects
<1>3. /\ pc \notin Loads /\ pc' \notin Loads /\ ready' = ready /\ fabric' = fabric
      /\ running' = running /\ fed' = fed /\ digit' = digit /\ program' = program
      /\ ~late' => ~late
    BY <1>1 DEF Copy, StartDma, StartFails, DmaTimeout, DmaIdle, ReadDigit, Return, network,
                MainStep, CallOK
<1>4. CallOK' /\ LoadOK'
  BY <1>1, <1>3
     DEF Copy, StartDma, StartFails, DmaTimeout, DmaIdle, ReadDigit, Return, CallOK, LoadOK
<1>5. pcap' = pcap
  BY DEF Copy, StartDma, StartFails, DmaTimeout, DmaIdle, ReadDigit
<1>6. ReadyOK'
  BY <1>1, <1>3, <1>5 DEF ReadyOK, Usable, MainStep
<1>7. CASE Copy
  <2>1. pc = "idle" /\ pc' = "copied" /\ dma' = dma /\ tx'[1] = call'.id /\ tx'[2] = call'.id
    BY <1>7 DEF Copy
  <2>2. FrameOK'
    BY <1>1, <1>3, <2>1 DEF FrameOK, Usable
  <2> QED  BY <1>2, <1>4, <1>6, <2>1, <2>2 DEF DriverInv, OwnDigit, DigitIsOwn
<1>8. CASE StartDma
  <2>1. pc = "copied" /\ pc' = "dmaWait" /\ dma = 0 /\ tx' = tx /\ call' = call
        /\ (pcap = <<>> => dma' = 2)
    BY <1>8 DEF StartDma
  <2>2. FrameOK'
    BY <1>1, <1>3, <2>1 DEF FrameOK, Usable, ReadyOK
  <2> QED  BY <1>2, <1>4, <1>6, <2>1, <2>2 DEF DriverInv, OwnDigit, DigitIsOwn
<1>9. CASE StartFails \/ DmaTimeout
  <2>1. /\ pc \in {"copied", "dmaWait"} /\ pc' = "idle" /\ dma' = dma /\ ~last'.ok
        /\ program = "bench" /\ pc = "dmaWait" => late'
    BY <1>9 DEF StartFails, DmaTimeout, Return, MainStep
  <2>2. FrameOK'
    BY <1>1, <1>3, <2>1 DEF FrameOK, Usable
  <2> QED  BY <1>2, <1>4, <1>6, <2>1, <2>2 DEF DriverInv, OwnDigit, DigitIsOwn
<1>10. CASE DmaIdle
  <2>1. pc = "dmaWait" /\ pc' = "drain" /\ dma = 0 /\ dma' = dma /\ tx' = tx /\ call' = call
    BY <1>10 DEF DmaIdle
  <2>2. FrameOK'
    BY <1>1, <1>3, <2>1 DEF FrameOK, Usable, Taken, Own
  <2> QED  BY <1>2, <1>4, <1>6, <2>1, <2>2 DEF DriverInv, OwnDigit, DigitIsOwn
<1>11. CASE ReadDigit
  <2>1. /\ pc = "drain" /\ pc' = "idle" /\ Len(fed) < 2 /\ dma' = dma /\ call' = call
        /\ last'.digit = digit
    BY <1>11 DEF ReadDigit, Drained, Return
  <2>2. Usable /\ (program = "server" \/ ~late)
          => dma = 0 /\ fed = <<>> /\ digit = Digit(Own, ready)
    <3>1. Usable /\ (program = "server" \/ ~late) => dma = 0 /\ Taken
      BY <1>1, <2>1 DEF FrameOK
    <3>2. Len(fed) < 2 => fed # Own
      BY DEF Own
    <3> QED  BY <2>1, <3>1, <3>2 DEF Taken
  <2>3. FrameOK'
    BY <1>3, <2>1, <2>2 DEF FrameOK, Usable
  <2>4. OwnDigit'
    BY <1>3, <2>1, <2>2 DEF OwnDigit, DigitIsOwn, Usable, Own
  <2> QED  BY <1>2, <1>4, <1>6, <2>3, <2>4 DEF DriverInv
<1> QED  BY <1>7, <1>8, <1>9, <1>10, <1>11

\* The engines, and the network.
LEMMA EngineStep ==
  ASSUME DriverInv, MainOK, Engines, UNCHANGED bench
  PROVE  DriverInv'
<1>1. TypeOK /\ CallOK /\ LoadOK /\ ReadyOK /\ FrameOK /\ OwnDigit
  BY DEF DriverInv
<1>2. TypeOK'
  BY <1>1, EngineTypes
<1>3. /\ pc' = pc /\ call' = call /\ last' = last /\ ready' = ready
      /\ program' = program /\ at' = at /\ late' = late
  BY DEF Engines, PcapFinish, DmaSends, Infer, firmware, bench
<1>4. CallOK' /\ OwnDigit'
  BY <1>1, <1>3 DEF CallOK, OwnDigit, DigitIsOwn, Loads, Detects
<1> USE DEF Loads, Detects
<1>5. CASE PcapFinish
  <2>1. ~Usable
    BY <1>1, <1>5 DEF PcapFinish, ReadyOK
  <2>2. pcap # <<>> /\ fabric' = Head(pcap) /\ pcap' = Tail(pcap) /\ done' /\ dma' = 0
    BY <1>5 DEF PcapFinish
  <2>3. LoadOK'
    <3> SUFFICES ASSUME pc \in Loads, call.idle PROVE LoadOK'
      BY <1>3 DEF LoadOK
    <3>1. pc = "pcapWait" /\ pcap = <<call.op>>
      BY <1>1, <2>2 DEF LoadOK
    <3>2. pcap' = <<>> /\ fabric' = call.op
      BY <2>2, <3>1
    <3> QED  BY <1>3, <2>2, <3>1, <3>2 DEF LoadOK
  <2>4. ~Usable'
    BY <1>3, <2>1 DEF Usable
  <2> QED  BY <1>2, <1>4, <2>3, <2>4 DEF DriverInv, ReadyOK, FrameOK
<1>6. CASE DmaSends
  <2>1. /\ dma \in {1, 2} /\ dma' = dma - 1 /\ Len(fed) < 2
        /\ fed' = (IF running THEN Append(fed, tx[3 - dma]) ELSE <<>>)
        /\ UNCHANGED <<pcap, done, fabric, running, tx, digit>>
    BY <1>1, <1>6 DEF DmaSends, Drained, TypeOK
  <2>2. LoadOK' /\ ReadyOK'
    BY <1>1, <1>3, <2>1 DEF LoadOK, ReadyOK, Usable
  <2>3. FrameOK'
    <3> SUFFICES ASSUME Usable, program = "server" \/ ~late PROVE FrameOK'
      BY <1>3 DEF FrameOK, Usable
    <3>1. Len(fed) = 1 <=> dma = 1
      BY <1>1 DEF FrameOK
    <3>2. pc # "drain" /\ ~(program = "bench" /\ pc \in {"idle", "copied"})
      BY <1>1, <2>1 DEF FrameOK
    <3>3. running
      <4>1. at # "held"
        <5>1. program \in {"server", "bench"}
          BY BenchAssumption DEF MainOK
        <5>2. program = "bench" => pc \in Detects
          BY <1>1, <3>2 DEF Usable, TypeOK
        <5> QED  BY <5>1, <5>2 DEF MainOK
      <4> QED  BY <1>1, <4>1 DEF ReadyOK
    <3>4. Len(fed) \in Nat /\ fed \in Seq(Halves)
      BY <1>1 DEF TypeOK
    <3>5. fed' = Append(fed, tx[3 - dma])
      BY <2>1, <3>3
    <3>6. CASE dma = 2
      <4>1. Len(fed) = 0
        <5>1. Len(fed) # 1
          BY <3>1, <3>6
        <5>2. Len(fed) < 2
          BY <2>1
        <5>3. \A n \in Nat : n < 2 /\ n # 1 => n = 0
          OBVIOUS
        <5> QED  BY <3>4, <5>1, <5>2, <5>3
      <4>2. fed = <<>>
        BY ONLY <3>4, <4>1, EmptySeq
      <4>3. fed' = <<tx[1]>> /\ dma' = 1
        BY ONLY <2>1, <3>5, <3>6, <4>2
      <4>4. Len(fed') = 1
        BY ONLY <4>3
      <4>5. pc \in Detects => tx[1] = call.id /\ tx[2] = call.id
        BY <1>1 DEF FrameOK
      <4>6. pc = "dmaWait" => fed' = <<call.id>>
        BY <4>3, <4>5
      <4>7. Len(fed') = 1 /\ dma' = 1 /\ dma' # 0
        BY <4>3, <4>4
      <4> QED  BY <1>3, <2>1, <3>2, <4>5, <4>6, <4>7 DEF FrameOK, Usable
    <3>7. CASE dma = 1
      <4>1. Len(fed') = 2 /\ dma' = 0
        BY <2>1, <3>1, <3>4, <3>5, <3>7
      <4>2. pc = "dmaWait" => fed = <<call.id>> /\ tx[2] = call.id
        BY <1>1, <3>7 DEF FrameOK
      <4>3. pc = "dmaWait" => fed' = <<call.id, call.id>>
        <5>1. 3 - dma = 2
          BY <3>7
        <5>2. ASSUME NEW x \in Halves, NEW y \in Halves PROVE Append(<<x>>, y) = <<x, y>>
          <6>1. <<x>> \in Seq(Halves) /\ <<x, y>> \in Seq(Halves)
            OBVIOUS
          <6>2. Append(<<x>>, y) \in Seq(Halves) /\ Len(Append(<<x>>, y)) = 2
                /\ Append(<<x>>, y)[1] = x /\ Append(<<x>>, y)[2] = y
            BY <6>1
          <6>3. \A n \in 1 .. 2 : Append(<<x>>, y)[n] = <<x, y>>[n]
            BY <6>2
          <6>4. Len(<<x, y>>) = 2
            OBVIOUS
          <6> QED  BY ONLY <6>1, <6>2, <6>3, <6>4, SeqEqual
        <5>3. call.id \in Halves
          BY <1>1 DEF TypeOK, Halves
        <5> QED  BY <3>5, <4>2, <5>1, <5>2, <5>3
      <4>4. pc \in Detects => tx[1] = call.id /\ tx[2] = call.id
        BY <1>1 DEF FrameOK
      <4> QED  BY <1>3, <2>1, <3>2, <4>1, <4>3, <4>4 DEF FrameOK, Usable, Taken, Own
    <3> QED  BY <2>1, <3>6, <3>7
  <2> QED  BY <1>2, <1>4, <2>2, <2>3 DEF DriverInv
<1>7. CASE Infer
  <2>1. /\ ~(Len(fed) < 2) /\ fed' = <<>> /\ digit' = Digit(fed, fabric)
        /\ UNCHANGED <<pcap, done, fabric, running, dma, tx>>
    BY <1>7 DEF Infer, Drained
  <2>2. Len(fed) = 2
    <3>1. Len(fed) \in Nat /\ Len(fed) <= 2
      BY <1>1 DEF TypeOK
    <3>2. \A n \in Nat : n <= 2 /\ ~(n < 2) => n = 2
      OBVIOUS
    <3> QED  BY <2>1, <3>1, <3>2
  <2>3. LoadOK' /\ ReadyOK'
    BY <1>1, <1>3, <2>1, <2>2 DEF LoadOK, ReadyOK, Usable
  <2>4. FrameOK'
    <3> SUFFICES ASSUME Usable, program = "server" \/ ~late PROVE FrameOK'
      BY <1>3 DEF FrameOK, Usable
    <3>1. fabric = ready /\ fed # <<>> /\ Len(fed') = 0
      BY <1>1, <2>1, <2>2 DEF ReadyOK
    <3>2. dma # 1 /\ (pc \in Detects => tx[1] = call.id /\ tx[2] = call.id)
          /\ ~(program = "bench" /\ pc \in {"idle", "copied"})
      BY <1>1, <2>2, <3>1 DEF FrameOK
    <3>3. Taken => Taken'
      BY <1>3, <2>1, <3>1 DEF Taken, Own
    <3>4. (pc = "dmaWait" /\ dma = 0 => Taken) /\ (pc = "drain" => dma = 0 /\ Taken)
      BY <1>1 DEF FrameOK
    <3> QED  BY <1>3, <2>1, <3>1, <3>2, <3>3, <3>4 DEF FrameOK
  <2> QED  BY <1>2, <1>4, <2>3, <2>4 DEF DriverInv
<1> QED  BY <1>5, <1>6, <1>7 DEF Engines

-----------------------------------------------------------------------------
\* The calls that are left when a variant's turn comes suffice for it.
LEMMA Budget ==
  ASSUME v \in 1 .. Len(bitstreams)
  PROVE  /\ Before \in Nat /\ Before + 1 + NumFrames <= MaxCalls
         /\ ((v + 1) - 1) * (1 + NumFrames) = Before + 1 + NumFrames
<1>1. Len(bitstreams) \in Nat /\ NumFrames \in Nat /\ MaxCalls \in Nat
      /\ MaxCalls >= Len(bitstreams) * (1 + NumFrames)
  BY BenchAssumption, DriverAssumption
<1>2. ASSUME NEW a \in Nat, NEW b \in Nat, NEW n \in Nat, a + 1 <= b
      PROVE  /\ a * n \in Nat /\ b * n \in Nat /\ (a + 1) * n = a * n + n
             /\ a * n + n <= b * n
  <2>1. PICK d \in Nat : b = a + 1 + d
    BY <1>2
  <2>2. b * n = a * n + n + d * n
    BY <2>1
  <2>3. d * n \in Nat /\ a * n \in Nat /\ b * n \in Nat
    OBVIOUS
  <2>4. (a + 1) * n = a * n + n
    OBVIOUS
  <2> QED  BY <2>2, <2>3, <2>4
<1>3. v - 1 \in Nat /\ (v - 1) + 1 <= Len(bitstreams) /\ 1 + NumFrames \in Nat
      /\ (v - 1) + 1 = (v + 1) - 1
  BY <1>1
<1>4. /\ (v - 1) * (1 + NumFrames) \in Nat
      /\ ((v - 1) + 1) * (1 + NumFrames) = (v - 1) * (1 + NumFrames) + (1 + NumFrames)
      /\ (v - 1) * (1 + NumFrames) + (1 + NumFrames) <= Len(bitstreams) * (1 + NumFrames)
      /\ Len(bitstreams) * (1 + NumFrames) \in Nat
  BY <1>1, <1>2, <1>3
<1> QED  BY <1>1, <1>3, <1>4 DEF Before

\* A buffer that is overwritten leaves the transfers as many as they were.
LEMMA OverwrittenTyped ==
  ASSUME TypeOK, NEW c \in Contents, NEW q \in Overwritten(c)
  PROVE  q \in Seq(Contents) /\ Len(q) <= Depth /\ (pcap = <<>> => q = <<>>)
<1>1. CASE pcap = <<>>
  <2>1. q = <<>>
    BY <1>1 DEF Overwritten
  <2> QED  BY <1>1, <2>1 DEF TypeOK
<1>2. CASE pcap # <<>>
  <2>1. PICK f \in {pcap[1], c, "mixed"} : q = [k \in DOMAIN pcap |-> IF k = 1 THEN f ELSE c]
    BY <1>2 DEF Overwritten
  <2>2. /\ pcap \in Seq(Contents) /\ Len(pcap) \in Nat \ {0} /\ Len(pcap) <= Depth
        /\ DOMAIN pcap = 1 .. Len(pcap)
    BY <1>2, EmptySeq, LenProperties DEF TypeOK
  <2>3. f \in Contents
    <3>1. pcap[1] \in Contents
      BY <2>2, ElementOfSeq
    <3> QED  BY <2>1, <3>1 DEF Contents
  <2>4. q \in [1 .. Len(pcap) -> Contents]
    BY <2>1, <2>2, <2>3
  <2>5. q \in Seq(Contents) /\ Len(q) = Len(pcap)
    BY <2>2, <2>4
  <2> QED  BY <1>2, <2>2, <2>5
<1> QED  BY <1>1, <1>2

\* Outside a load and an inference the driver is at rest.
LEMMA AtRest ==
  ASSUME TypeOK, MainOK, program = "bench", at \notin {"loading", "infer"}
  PROVE  pc = "idle"
BY DEF TypeOK, MainOK, Loads, Detects

LEMMA MainKeepsDriver ==
  ASSUME DriverInv, MainOK, BenchMain
  PROVE  DriverInv'
<1>1. /\ TypeOK /\ CallOK /\ LoadOK /\ ReadyOK /\ FrameOK /\ OwnDigit
      /\ program = "bench" /\ program' = program
  BY DEF DriverInv, BenchMain, Main, Start, ReadFile, ReadFileFails, Dfx_LoadVariant,
         FrameReset, FrameRelease, Run_TestSuite, End
<1> USE DEF Loads, Detects
<1>2. CASE Start \/ End
  <2>1. UNCHANGED vars /\ late' = late /\ at # "held" /\ at' # "held"
    BY <1>2 DEF Start, End, Mount, Dcfg_Init, Dma_Init
  <2>2. TypeOK' /\ CallOK' /\ LoadOK' /\ OwnDigit'
    BY <1>1, <2>1 DEF vars, TypeOK, CallOK, LoadOK, OwnDigit, DigitIsOwn
  <2>3. ReadyOK' /\ FrameOK'
    BY <1>1, <2>1 DEF vars, ReadyOK, FrameOK, Usable, Taken, Own
  <2> QED  BY <2>2, <2>3 DEF DriverInv
<1>3. CASE ReadFile
  <2>1. /\ at = "load" /\ v \in 1 .. Len(bitstreams) /\ pc = "idle" /\ pc' = "cleared" /\ ~done'
        /\ call' = [id |-> call.id + 1, op |-> Label, idle |-> pcap = <<>>]
        /\ pcap' \in Overwritten(Label)
    BY <1>1, <1>3, BenchAssumption, AtRest DEF ReadFile, MainOK
  <2>2. Label \in Variants /\ Label \in Contents
    BY <2>1, BenchAssumption, ElementOfSeq DEF Label, Contents
  <2>3. pcap' \in Seq(Contents) /\ Len(pcap') <= Depth /\ (pcap = <<>> => pcap' = <<>>)
    BY <1>1, <2>1, <2>2, OverwrittenTyped
  <2>4. call'.id \in Calls
    <3>1. call.id \in Nat /\ call.id <= Before + 0 /\ NumFrames \in Nat /\ MaxCalls \in Nat
      BY <1>1, <2>1, BenchAssumption, DriverAssumption DEF MainOK, TypeOK, Calls, Used
    <3>2. Before \in Nat /\ Before + 1 + NumFrames <= MaxCalls
      BY <2>1, Budget
    <3> QED  BY <2>1, <3>1, <3>2 DEF Calls
  <2>5. TypeOK'
    <3>1. call' \in [id: Calls, op: Variants \cup {"none", "detect"}, idle: BOOLEAN]
      <4>1. call'.id = call.id + 1
        BY <2>1
      <4> QED  BY <2>1, <2>2, <2>4, <4>1
    <3> QED  BY <1>1, <1>3, <2>3, <3>1 DEF ReadFile, TypeOK, network
  <2>6. CallOK' /\ LoadOK'
    BY <2>1, <2>2, <2>3 DEF CallOK, LoadOK
  <2>7. ReadyOK' /\ FrameOK' /\ OwnDigit'
    BY <2>1 DEF ReadyOK, FrameOK, Usable, OwnDigit, DigitIsOwn
  <2> QED  BY <2>5, <2>6, <2>7 DEF DriverInv
<1>4. CASE ReadFileFails
  <2>1. /\ at = "load" /\ at' = "load" /\ pc = "idle" /\ late' = late
        /\ pcap' \in {pcap} \cup Overwritten("mixed")
        /\ UNCHANGED <<pc, call, pass, done, last, ready, dma, tx>> /\ UNCHANGED network
    BY <1>1, <1>4, AtRest DEF ReadFileFails, NextVariant
  <2>2. pcap' \in Seq(Contents) /\ Len(pcap') <= Depth /\ (pcap = <<>> => pcap' = <<>>)
    <3>1. "mixed" \in Contents
      BY DEF Contents
    <3>2. CASE pcap' = pcap
      BY <1>1, <3>2 DEF TypeOK
    <3>3. CASE pcap' \in Overwritten("mixed")
      BY <1>1, <3>1, <3>3, OverwrittenTyped
    <3> QED  BY <2>1, <3>2, <3>3
  <2>3. TypeOK' /\ CallOK' /\ LoadOK' /\ OwnDigit'
    BY <1>1, <2>1, <2>2 DEF TypeOK, CallOK, LoadOK, OwnDigit, DigitIsOwn, network
  <2>4. ReadyOK' /\ FrameOK'
    BY <1>1, <2>1, <2>2 DEF ReadyOK, FrameOK, Usable, Taken, Own, network
  <2> QED  BY <2>3, <2>4 DEF DriverInv
<1>5. CASE Dfx_LoadVariant
  <2>1. at = "loading" /\ pc \in Loads
        /\ (Submit \/ SubmitFails \/ SeeDone \/ PcapTimeout \/ HoldReset \/ ReleaseReset)
    BY <1>1, <1>5 DEF Dfx_LoadVariant, Pcap_LoadBitstream, MainOK
  <2>2. MainStep
    <3>1. at' # "held" /\ (~late' => ~late \/ (pc' = "idle" /\ last'.ok))
      BY <1>5, <2>1 DEF Dfx_LoadVariant, NextVariant
    <3>2. pc' = "idle" /\ last'.ok => pc = "held"
      BY <2>1 DEF Submit, SubmitFails, SeeDone, PcapTimeout, HoldReset, ReleaseReset, Return
    <3> QED  BY <1>1, <2>1, <3>1, <3>2 DEF MainStep
  <2> QED  BY <2>1, <2>2, LoadStep
<1>6. CASE FrameReset
  <2>1. /\ at = "reset" /\ at' = "held" /\ pc = "idle" /\ late' = late
        /\ pcap = <<>> => running' = FALSE /\ fed' = <<>>
        /\ pcap # <<>> => running' = running /\ fed' = fed
        /\ UNCHANGED <<pc, call, pass, pcap, done, fabric, dma, tx, digit, last, ready>>
    BY <1>1, <1>6, AtRest DEF FrameReset, HeldInReset
  <2>2. fed' \in Seq(Halves) /\ Len(fed') <= 2 /\ running' \in BOOLEAN
    <3>1. CASE pcap = <<>>
      <4>1. running' = FALSE /\ fed' = <<>>
        BY <2>1, <3>1
      <4>2. fed' \in Seq(Halves) /\ Len(fed') <= 2
        BY ONLY <4>1
      <4> QED  BY <4>1, <4>2
    <3>2. CASE pcap # <<>>
      BY <1>1, <2>1, <3>2 DEF TypeOK
    <3> QED  BY <3>1, <3>2
  <2>3. TypeOK' /\ CallOK' /\ LoadOK' /\ OwnDigit'
    BY <1>1, <2>1, <2>2 DEF TypeOK, CallOK, LoadOK, OwnDigit, DigitIsOwn
  <2>4. ReadyOK'
    BY <1>1, <2>1 DEF ReadyOK, Usable
  <2>5. FrameOK'
    BY <1>1, <2>1 DEF FrameOK, ReadyOK, Usable
  <2> QED  BY <2>3, <2>4, <2>5 DEF DriverInv
<1>7. CASE FrameRelease
  <2>1. /\ at = "held" /\ at' = "infer" /\ pc = "idle" /\ late' = late
        /\ running' = (pcap = <<>> \/ running)
        /\ UNCHANGED <<pc, call, pass, pcap, done, fabric, dma, tx, fed, digit, last, ready>>
    BY <1>1, <1>7, AtRest DEF FrameRelease
  <2>2. TypeOK' /\ CallOK' /\ LoadOK' /\ OwnDigit'
    BY <1>1, <2>1 DEF TypeOK, CallOK, LoadOK, OwnDigit, DigitIsOwn
  <2>3. ReadyOK' /\ FrameOK'
    BY <1>1, <2>1 DEF ReadyOK, FrameOK, Usable
  <2> QED  BY <2>2, <2>3 DEF DriverInv
<1>8. CASE Run_TestSuite
  <2>1. at = "infer" /\ pc \notin Loads /\ (DNN_Infer => Copy \/ StartDma \/ StartFails
                                       \/ DmaTimeout \/ DmaIdle \/ ReadDigit)
    BY <1>1, <1>8 DEF Run_TestSuite, DNN_Infer, MainOK
  <2>2. MainStep
    BY <1>1, <1>8, <2>1 DEF Run_TestSuite, NextVariant, MainStep
  <2> QED  BY <1>8, <2>1, <2>2, InferenceStep DEF Run_TestSuite
<1> QED  BY <1>2, <1>3, <1>4, <1>5, <1>6, <1>7, <1>8 DEF BenchMain, Main

LEMMA DriverInvInvariant ==
  ASSUME DriverInv, MainOK, [BenchNext]_allVars
  PROVE  DriverInv'
<1>1. CASE BenchMain
  BY <1>1, MainKeepsDriver
<1>2. CASE BenchEngines
  BY <1>2, EngineStep DEF BenchEngines
<1>3. CASE ServerStep
  <2>1. program = "server" /\ Next /\ UNCHANGED bench
    BY <1>3 DEF ServerStep
  <2>2. at = "main" /\ ~late
    BY <2>1 DEF MainOK
  <2>3. MainStep
    BY <2>1, <2>2 DEF MainStep, bench
  <2>4. CASE Engines
    BY <2>1, <2>4, EngineStep
  <2>5. CASE Firmware
    BY <2>3, <2>5, LoadStep, InferenceStep DEF Firmware
  <2> QED  BY <2>1, <2>4, <2>5 DEF Next, Engines
<1>4. CASE UNCHANGED allVars
  <2>1. UNCHANGED vars /\ UNCHANGED bench
    BY <1>4 DEF allVars
  <2>2. TypeOK' /\ CallOK' /\ LoadOK' /\ OwnDigit'
    BY <2>1 DEF DriverInv, vars, bench, TypeOK, CallOK, LoadOK, OwnDigit, DigitIsOwn
  <2>3. ReadyOK' /\ FrameOK'
    BY <2>1 DEF DriverInv, vars, bench, ReadyOK, FrameOK, Usable, Taken, Own
  <2> QED  BY <2>2, <2>3 DEF DriverInv
<1> QED  BY <1>1, <1>2, <1>3, <1>4 DEF BenchNext

-----------------------------------------------------------------------------
\* What a step of a load, and of an inference, does to what main keeps track of.
LEMMA LoadResult ==
  ASSUME TypeOK, pc \in Loads,
         Submit \/ SubmitFails \/ SeeDone \/ PcapTimeout \/ HoldReset \/ ReleaseReset
  PROVE  /\ call' = call /\ pc' \in Loads \cup {"idle"}
         /\ pc' = "idle" /\ last'.ok => pc = "held" /\ pcap' = pcap
         /\ pc' = "idle" /\ last'.ok /\ call.op # "detect" /\ call.idle => ready' = call.op
BY DEF Submit, SubmitFails, SeeDone, PcapTimeout, HoldReset, ReleaseReset, Return, Loads

LEMMA InferenceResult ==
  ASSUME TypeOK, CallOK, DNN_Infer
  PROVE  /\ pc' \in Detects \cup {"idle"} /\ pcap' = pcap /\ ready' = ready
         /\ \/ pc = "idle" /\ pc' = "copied" /\ call'.id = call.id + 1
            \/ pc \in Detects /\ call' = call
         /\ pc' = "idle" => last'.ok \in BOOLEAN
         /\ pc' = "idle" /\ last'.ok => pc = "drain" /\ last'.digit = digit /\ Len(fed) < 2
<1>1. CASE Copy
  BY <1>1 DEF Copy, Detects
<1>2. CASE StartDma \/ DmaIdle
  BY <1>2 DEF StartDma, DmaIdle, Detects
<1>3. ASSUME NEW ok, NEW d, Return(ok, d), pc \in Detects
      PROVE  /\ pc' = "idle" /\ call' = call /\ ready' = ready
             /\ last'.ok = ok /\ last'.digit = d
  BY <1>3 DEF Return, CallOK
<1>4. CASE StartFails \/ DmaTimeout
  BY <1>3, <1>4 DEF StartFails, DmaTimeout, Detects
<1>5. CASE ReadDigit
  BY <1>3, <1>5 DEF ReadDigit, Detects, Drained
<1> QED  BY <1>1, <1>2, <1>4, <1>5 DEF DNN_Infer

LEMMA MainKeepsMain ==
  ASSUME TypeOK, CallOK, MainOK, BenchMain
  PROVE  MainOK'
<1>1. /\ program = "bench" /\ program' = program /\ {late, trouble} \subseteq BOOLEAN
      /\ call.id \in Nat /\ v \in 1 .. Len(bitstreams) + 1 /\ i \in 1 .. NumFrames
      /\ Len(bitstreams) \in Nat /\ NumFrames \in Nat \ {0} /\ program' \in Programs
      /\ call.id <= Before + Used /\ Before \in Nat
  <2>1. program = "bench" /\ program' = program
    BY DEF BenchMain, Main, Start, ReadFile, ReadFileFails, Dfx_LoadVariant,
           FrameReset, FrameRelease, Run_TestSuite, End
  <2>2. Len(bitstreams) \in Nat /\ NumFrames \in Nat \ {0} /\ v \in 1 .. Len(bitstreams) + 1
    BY BenchAssumption DEF MainOK
  <2>3. Before \in Nat
    <3>1. ASSUME NEW a \in Nat, NEW b \in Nat PROVE a * b \in Nat
      OBVIOUS
    <3>2. v - 1 \in Nat /\ 1 + NumFrames \in Nat
      BY <2>2
    <3> QED  BY <3>1, <3>2 DEF Before
  <2> QED  BY <2>1, <2>2, <2>3 DEF MainOK, TypeOK, Calls
\* Only these conjuncts depend on the step.
<1>2. ASSUME /\ at' \in {"main", "load", "loading", "reset", "held", "infer", "done", "returned"}
             /\ v' \in 1 .. Len(bitstreams) + 1 /\ i' \in 1 .. NumFrames
             /\ {late', trouble'} \subseteq BOOLEAN /\ (~Testing' => i' = 1)
             /\ pc' \in Loads <=> at' = "loading"
             /\ pc' \in Detects => at' = "infer"
             /\ Testing' \/ at' = "loading" => v' <= Len(bitstreams)
             /\ at' = "loading" => call'.op = Label'
             /\ call'.id <= Before' + Used'
      PROVE  MainOK'
  BY <1>1, <1>2 DEF MainOK
<1>3. at \notin {"loading", "infer"} => pc = "idle"
  BY <1>1, AtRest
\* The next variant's turn.
<1>4. ASSUME NextVariant, v <= Len(bitstreams), call'.id <= Before + 1 + NumFrames,
             pc' = "idle", {late', trouble'} \subseteq BOOLEAN
      PROVE  MainOK'
  <2>1. at' = "load" /\ v' = v + 1 /\ i' = 1 /\ v' \in 1 .. Len(bitstreams) + 1
    BY <1>1, <1>4 DEF NextVariant
  <2>2. Before' = Before + 1 + NumFrames
    BY <1>1, <1>4, <2>1, Budget DEF Before
  <2>3. Used' = 0
    BY <2>1 DEF Used
  <2> QED  BY <1>1, <1>2, <1>4, <2>1, <2>2, <2>3 DEF Testing, Loads, Detects
<1>5. CASE Start \/ End
  <2>1. /\ at \in {"main", "load"} /\ at' \in {"load", "returned", "done"} /\ pc' = "idle"
        /\ UNCHANGED <<call, v, i, late, trouble>> /\ i = 1
    BY <1>3, <1>5 DEF Start, End, Mount, Dcfg_Init, Dma_Init, vars, MainOK, Testing
  <2>2. Before' = Before /\ Used = 0 /\ Used' = 0
    BY <2>1 DEF Before, Used
  <2> QED  BY <1>1, <1>2, <2>1, <2>2 DEF Testing, Loads, Detects
<1>6. CASE ReadFile
  <2>1. /\ at = "load" /\ at' = "loading" /\ v <= Len(bitstreams) /\ pc' = "cleared"
        /\ call'.id = call.id + 1 /\ call'.op = Label
        /\ UNCHANGED <<v, i, late, trouble>> /\ i = 1
    BY <1>6 DEF ReadFile, MainOK, Testing
  <2>2. Before' = Before /\ Used = 0 /\ Used' = 1 /\ Label' = Label
    BY <2>1 DEF Before, Used, Label
  <2> QED  BY <1>1, <1>2, <2>1, <2>2 DEF Testing, Loads, Detects
<1>7. CASE ReadFileFails
  <2>1. at = "load" /\ v <= Len(bitstreams) /\ NextVariant /\ pc' = pc /\ call' = call
        /\ late' = late /\ trouble' = TRUE
    BY <1>7 DEF ReadFileFails
  <2>2. Used = 0
    BY <2>1 DEF Used
  <2> QED  BY <1>1, <1>3, <1>4, <2>1, <2>2
<1>8. CASE Dfx_LoadVariant
  <2>1. at = "loading" /\ pc \in Loads /\ v <= Len(bitstreams) /\ call.op = Label /\ i = 1
    BY <1>1, <1>8 DEF Dfx_LoadVariant, MainOK, Testing
  <2>2. call' = call /\ pc' \in Loads \cup {"idle"}
    BY <1>8, <2>1, LoadResult DEF Dfx_LoadVariant, Pcap_LoadBitstream
  <2>3. Used = 1
    BY <2>1 DEF Used
  <2>4. CASE pc' # "idle"
    <3>1. at' = at /\ v' = v /\ i' = i /\ late' = late /\ trouble' = trouble
      BY <1>8, <2>4 DEF Dfx_LoadVariant
    <3>2. Before' = Before /\ Used' = 1 /\ Label' = Label
      BY <2>1, <3>1 DEF Before, Used, Label
    <3> QED  BY <1>1, <1>2, <2>1, <2>2, <2>3, <2>4, <3>1, <3>2 DEF Testing, Loads, Detects
  <2>5. CASE pc' = "idle" /\ last'.ok
    <3>1. at' = "reset" /\ v' = v /\ i' = i /\ late' = FALSE /\ trouble' = trouble
      BY <1>8, <2>5 DEF Dfx_LoadVariant
    <3>2. Before' = Before /\ Used' = i
      BY <3>1 DEF Before, Used
    <3> QED  BY <1>1, <1>2, <2>1, <2>2, <2>3, <2>5, <3>1, <3>2 DEF Testing, Loads, Detects
  <2>6. CASE pc' = "idle" /\ ~last'.ok
    <3>1. NextVariant /\ trouble' = TRUE /\ late' = late
      BY <1>8, <2>6 DEF Dfx_LoadVariant
    <3> QED  BY <1>1, <1>4, <2>1, <2>2, <2>3, <2>6, <3>1
  <2> QED  BY <2>4, <2>5, <2>6
<1>9. CASE FrameReset \/ FrameRelease
  <2>1. /\ at \in {"reset", "held"} /\ at' \in {"held", "infer"} /\ pc = "idle" /\ pc' = "idle"
        /\ UNCHANGED <<call, v, i, late, trouble>> /\ v <= Len(bitstreams)
    BY <1>1, <1>3, <1>9 DEF FrameReset, FrameRelease, MainOK, Testing
  <2>2. Before' = Before /\ Used = i /\ Used' = i
    BY <2>1 DEF Before, Used, Detects
  <2> QED  BY <1>1, <1>2, <2>1, <2>2 DEF Testing, Loads, Detects
<1>10. CASE Run_TestSuite
  <2>1. /\ at = "infer" /\ v <= Len(bitstreams)
        /\ pc' \in Detects \cup {"idle"}
        /\ \/ pc = "idle" /\ pc' = "copied" /\ call'.id = call.id + 1
           \/ pc \in Detects /\ call' = call
    BY <1>1, <1>10, InferenceResult DEF Run_TestSuite, MainOK, Testing
  <2>2. /\ late' \in BOOLEAN
        /\ Used = (IF pc \in Detects THEN i + 1 ELSE i)
    BY <1>1, <1>10, <2>1 DEF Run_TestSuite, Used
  <2>3. CASE pc' # "idle"
    <3>1. at' = at /\ v' = v /\ i' = i /\ trouble' = trouble /\ pc' \in Detects
      BY <1>10, <2>1, <2>3 DEF Run_TestSuite
    <3>2. Before' = Before /\ Used' = i + 1
      BY <2>1, <3>1 DEF Before, Used
    <3>3. call'.id <= Before + i + 1
      BY <1>1, <2>1, <2>2 DEF Detects
    <3> QED  BY <1>1, <1>2, <2>1, <2>2, <3>1, <3>2, <3>3 DEF Testing, Loads, Detects
  <2>4. CASE pc' = "idle"
    <3>1. trouble' \in BOOLEAN /\ call'.id <= Before + i + 1
      BY <1>1, <1>10, <2>1, <2>2, <2>4 DEF Run_TestSuite
    <3>2. CASE i < NumFrames
      <4>1. at' = "reset" /\ v' = v /\ i' = i + 1
        BY <1>10, <2>4, <3>2 DEF Run_TestSuite
      <4>2. Before' = Before /\ Used' = i + 1
        BY <4>1 DEF Before, Used
      <4> QED  BY <1>1, <1>2, <2>1, <2>2, <2>4, <3>1, <3>2, <4>1, <4>2 DEF Testing, Loads, Detects
    <3>3. CASE ~(i < NumFrames)
      <4>1. NextVariant /\ i = NumFrames
        BY <1>1, <1>10, <2>4, <3>3 DEF Run_TestSuite
      <4> QED  BY <1>1, <1>4, <2>1, <2>2, <2>4, <3>1, <4>1
    <3> QED  BY <3>2, <3>3
  <2> QED  BY <2>3, <2>4
<1> QED  BY <1>5, <1>6, <1>7, <1>8, <1>9, <1>10 DEF BenchMain, Main

LEMMA MainKeepsFine ==
  ASSUME DriverInv, MainOK, FineOK, BenchMain
  PROVE  FineOK'
<1>1. TypeOK /\ CallOK /\ LoadOK /\ program = "bench"
  BY DEF DriverInv, BenchMain
<1>2. at \notin {"loading", "infer"} => pc = "idle"
  BY <1>1, AtRest
<1>3. CASE Start \/ End
  BY <1>1, <1>2, <1>3
     DEF Start, End, Mount, Dcfg_Init, Dma_Init, vars, FineOK, Testing, Loads
<1>4. CASE ReadFile
  <2>1. at = "load" /\ at' = "loading" /\ pc' = "cleared" /\ (call'.idle <=> pcap = <<>>)
        /\ late' = late /\ trouble' = trouble
    BY <1>4 DEF ReadFile
  <2> QED  BY <1>1, <1>2, <2>1 DEF FineOK, Testing, Loads
<1>5. CASE ReadFileFails
  BY <1>5 DEF ReadFileFails, FineOK
<1>6. CASE Dfx_LoadVariant
  <2>1. at = "loading" /\ pc \in Loads /\ call.op = Label /\ call.op # "detect"
    BY <1>1, <1>6, DriverAssumption DEF Dfx_LoadVariant, MainOK, CallOK
  <2>2. /\ call' = call /\ pc' \in Loads \cup {"idle"}
        /\ pc' = "idle" /\ last'.ok => pc = "held" /\ pcap' = pcap
        /\ pc' = "idle" /\ last'.ok /\ call.op # "detect" /\ call.idle => ready' = call.op
    BY <1>1, <1>6, <2>1, LoadResult DEF Dfx_LoadVariant, Pcap_LoadBitstream
  <2>3. CASE pc' # "idle"
    <3>1. at' = at /\ late' = late /\ trouble' = trouble
      BY <1>6, <2>3 DEF Dfx_LoadVariant
    <3> QED  BY <1>1, <2>1, <2>2, <2>3, <3>1 DEF FineOK, Testing
  <2>4. CASE pc' = "idle" /\ last'.ok
    <3>1. at' = "reset" /\ v' = v /\ late' = FALSE /\ trouble' = trouble
      BY <1>6, <2>4 DEF Dfx_LoadVariant
    <3>2. ~trouble => pcap' = <<>> /\ ready' = Label
      <4> SUFFICES ASSUME ~trouble PROVE pcap' = <<>> /\ ready' = Label
        OBVIOUS
      <4>1. call.idle
        BY <1>1, <2>1 DEF FineOK
      <4>2. pc = "held" /\ pcap' = pcap /\ ready' = call.op
        BY <2>1, <2>2, <2>4, <4>1
      <4>3. pcap = <<>>
        BY <1>1, <2>1, <4>1, <4>2 DEF LoadOK
      <4> QED  BY <2>1, <4>2, <4>3
    <3>3. Label' = Label
      BY <3>1 DEF Label
    <3> QED  BY <2>4, <3>1, <3>2, <3>3 DEF FineOK, Loads
  <2>5. CASE pc' = "idle" /\ ~last'.ok
    BY <1>6, <2>5 DEF Dfx_LoadVariant, FineOK
  <2> QED  BY <2>3, <2>4, <2>5
<1>7. CASE FrameReset \/ FrameRelease
  <2>1. /\ Testing /\ pc' = pc /\ UNCHANGED <<pcap, call, ready, v, late, trouble>>
        /\ program' = program
    BY <1>7 DEF FrameReset, FrameRelease, Testing
  <2>2. Label' = Label
    BY <2>1 DEF Label
  <2> QED  BY <2>1, <2>2 DEF FineOK
<1>8. CASE Run_TestSuite
  <2>1. /\ at = "infer" /\ pc \notin Loads /\ pc' \in Detects \cup {"idle"} /\ pcap' = pcap
        /\ ready' = ready /\ program' = program
    BY <1>1, <1>8, InferenceResult DEF Run_TestSuite, MainOK
  <2>2. late' => late \/ trouble'
    <3>1. CASE pc = "dmaWait" /\ pc' = "idle"
      <4>1. ~last'.ok
        BY <1>1, <1>8, <3>1, InferenceResult DEF Run_TestSuite
      <4> QED  BY <1>8, <3>1, <4>1 DEF Run_TestSuite
    <3> QED  BY <1>8, <3>1 DEF Run_TestSuite
  <2>3. ~trouble' => ~trouble
    BY <1>8 DEF Run_TestSuite
  <2>4. (at' \in {"infer", "reset"} /\ v' = v) \/ at' = "load"
    BY <1>8, <2>1 DEF Run_TestSuite, NextVariant
  <2>5. v' = v => Label' = Label
    BY DEF Label
  <2> QED  BY <1>1, <2>1, <2>2, <2>3, <2>4, <2>5 DEF FineOK, Testing, Loads, Detects
<1> QED  BY <1>3, <1>4, <1>5, <1>6, <1>7, <1>8 DEF BenchMain, Main

-----------------------------------------------------------------------------
LEMMA SeenGrows ==
  ASSUME Ended <= Ended', Ended \in Int, Ended' \in Int
  PROVE  Seen \subseteq Seen'
<1>1. 0 .. Ended \subseteq 0 .. Ended'
  OBVIOUS
<1> QED  BY <1>1 DEF Seen

\* A step that counts nothing.
LEMMA TallyKept ==
  ASSUME MainOK, TallyOK, tally' = tally, Seen \subseteq Seen', trouble => trouble',
         {trouble, trouble'} \subseteq BOOLEAN,
         \/ v' = v /\ (IF Testing' THEN i' - 1 ELSE 0) = (IF Testing THEN i - 1 ELSE 0)
         \/ v' = v + 1 /\ ~Testing /\ ~Testing' /\ trouble'
  PROVE  TallyOK'
<1> USE DEF TallyOK
<1>1. v \in Nat
  BY BenchAssumption DEF MainOK
<1>2. ASSUME NEW k \in 1 .. Len(bitstreams)
      PROVE  LET t == tally[bitstreams[k]]
             IN /\ k < v' => t.right + t.wrong \in {0, NumFrames} /\ (~trouble' => t.right = NumFrames)
                /\ k = v' => t.right + t.wrong = (IF Testing' THEN i' - 1 ELSE 0)
                /\ k > v' => t.right + t.wrong = 0
  <2> DEFINE t == tally[bitstreams[k]]
  <2>1. k \in Int
    BY BenchAssumption
  <2>2. CASE v' = v /\ (IF Testing' THEN i' - 1 ELSE 0) = (IF Testing THEN i - 1 ELSE 0)
    BY <2>2
  <2>3. CASE v' = v + 1 /\ ~Testing /\ ~Testing' /\ trouble'
    <3>1. /\ k < v => t.right + t.wrong \in {0, NumFrames}
          /\ k = v => t.right + t.wrong = 0
          /\ k > v => t.right + t.wrong = 0
      BY <2>3
    <3>2. (k < v' => k < v \/ k = v) /\ (k = v' => k > v) /\ (k > v' => k > v)
      BY <1>1, <2>1, <2>3
    <3> QED  BY <2>3, <3>1, <3>2
  <2> QED  BY <2>2, <2>3
<1>3. ~trouble' => ~trouble
  OBVIOUS
<1>4. /\ tally' \in [Variants -> Tallies]
      /\ \A b \in Variants : tally'[b].right + tally'[b].wrong <= NumFrames
      /\ ~trouble' => \A b \in Variants :
           /\ tally'[b].wrong = 0
           /\ IsFiniteSet(tally'[b].seen) /\ Cardinality(tally'[b].seen) = tally'[b].right
           /\ tally'[b].seen \subseteq Seen'
  BY <1>3 DEF Tallies, Digits
<1> QED  BY <1>2, <1>4

LEMMA CountedResult ==
  ASSUME NEW t \in Tallies, NEW ok \in BOOLEAN, NEW got \in Digits
  PROVE  LET u == Counted(t, ok, got)
         IN /\ u \in Tallies /\ u.right + u.wrong = t.right + t.wrong + 1
            /\ ok /\ got = Digit(Own, Label) =>
                 /\ u.right = t.right + 1 /\ u.wrong = t.wrong /\ u.seen = t.seen \cup {got}
<1> DEFINE u == Counted(t, ok, got)
<1>1. t.right \in Nat /\ t.wrong \in Nat /\ t.seen \in SUBSET Digits
      /\ t = [right |-> t.right, wrong |-> t.wrong, seen |-> t.seen]
  BY DEF Tallies
<1>2. CASE ok /\ got = Digit(Own, Label)
  <2>1. u = [t EXCEPT !.right = @ + 1, !.seen = @ \cup {got}]
    BY <1>2 DEF Counted, Own
  <2>2. u = [right |-> t.right + 1, wrong |-> t.wrong, seen |-> t.seen \cup {got}]
    BY <1>1, <2>1
  <2> HIDE DEF u
  <2>3. u.right = t.right + 1 /\ u.wrong = t.wrong /\ u.seen = t.seen \cup {got}
    BY <2>2
  <2>4. u \in Tallies /\ u.right + u.wrong = t.right + t.wrong + 1
    BY <1>1, <2>2 DEF Tallies
  <2> QED  BY <2>3, <2>4 DEF u
<1>3. CASE ok /\ got # Digit(Own, Label)
  <2>1. u = [t EXCEPT !.wrong = @ + 1, !.seen = @ \cup {got}]
    BY <1>3 DEF Counted, Own
  <2>2. u = [right |-> t.right, wrong |-> t.wrong + 1, seen |-> t.seen \cup {got}]
    BY <1>1, <2>1
  <2> HIDE DEF u
  <2>3. u \in Tallies /\ u.right + u.wrong = t.right + t.wrong + 1
    BY <1>1, <2>2 DEF Tallies
  <2> QED  BY <1>3, <2>3 DEF u
<1>4. CASE ~ok
  <2>1. u = [t EXCEPT !.wrong = @ + 1]
    BY <1>4 DEF Counted
  <2>2. u = [right |-> t.right, wrong |-> t.wrong + 1, seen |-> t.seen]
    BY <1>1, <2>1
  <2> HIDE DEF u
  <2>3. u \in Tallies /\ u.right + u.wrong = t.right + t.wrong + 1
    BY <1>1, <2>2 DEF Tallies
  <2> QED  BY <1>4, <2>3 DEF u
<1> QED  BY <1>2, <1>3, <1>4

\* The end of an inference is the only step that counts.
LEMMA FrameIsCounted ==
  ASSUME IInv, Run_TestSuite, program = "bench", pc' = "idle"
  PROVE  TallyOK'
<1>1. /\ TypeOK /\ TypeOK' /\ CallOK /\ FrameOK /\ TallyOK
      /\ at = "infer" /\ Testing /\ program' = program
  <2>1. BenchMain
    BY DEF BenchMain, Main
  <2> QED  BY <2>1, MainKeepsDriver DEF IInv, DriverInv, Run_TestSuite, Testing
<1>2. /\ pc \in Detects /\ pc \notin Loads /\ call' = call /\ last'.ok \in BOOLEAN /\ last'.digit \in Digits
      /\ last'.ok => pc = "drain" /\ last'.digit = digit /\ Len(fed) < 2
  BY <1>1, InferenceResult DEF Run_TestSuite, TypeOK, Digits, Detects, Loads
<1>3. /\ v \in 1 .. Len(bitstreams) /\ v \in Nat /\ i \in Nat /\ NumFrames \in Nat /\ i <= NumFrames
      /\ i # 0 /\ trouble \in BOOLEAN
  BY <1>1, BenchAssumption DEF IInv, MainOK
<1>4. Label \in Variants /\ Label = bitstreams[v]
  BY <1>3, BenchAssumption, ElementOfSeq DEF Label
<1> DEFINE got == last'.digit
           t == tally[Label]
           u == Counted(t, last'.ok, got)
<1>5. /\ tally \in [Variants -> Tallies] /\ t \in Tallies /\ t.right + t.wrong = i - 1
      /\ t.right \in Nat /\ t.wrong \in Nat
  BY <1>1, <1>3, <1>4 DEF TallyOK, Tallies
<1>6. /\ tally' = [tally EXCEPT ![Label] = u]
      /\ trouble' = (trouble \/ ~last'.ok)
      /\ \/ i < NumFrames /\ i' = i + 1 /\ at' = "reset" /\ v' = v
         \/ i = NumFrames /\ at' = "load" /\ v' = v + 1 /\ i' = 1
  BY <1>3 DEF Run_TestSuite, NextVariant
<1>7. /\ u \in Tallies /\ u.right + u.wrong = i /\ u.right \in Nat /\ u.wrong \in Nat
      /\ last'.ok /\ got = Digit(Own, Label) =>
           u.right = t.right + 1 /\ u.wrong = t.wrong /\ u.seen = t.seen \cup {got}
  <2>1. u \in Tallies /\ u.right + u.wrong = t.right + t.wrong + 1
        /\ (last'.ok /\ got = Digit(Own, Label) =>
              u.right = t.right + 1 /\ u.wrong = t.wrong /\ u.seen = t.seen \cup {got})
    BY <1>2, <1>5, CountedResult
  <2> HIDE DEF u, t, got
  <2>2. u.right + u.wrong = i
    BY <1>3, <1>5, <2>1
  <2> QED  BY <2>1, <2>2 DEF Tallies
<1>8. /\ tally'[Label] = u
      /\ \A b \in Variants \ {Label} : tally'[b] = tally[b]
      /\ tally' \in [Variants -> Tallies]
  BY <1>4, <1>5, <1>6, <1>7
<1> HIDE DEF u, t, got
<1>9. Seen \subseteq Seen' /\ Ended = call.id - 1 /\ Ended' = call.id /\ call.id \in Nat
  <2>1. Ended = call.id - 1 /\ Ended' = call.id /\ call.id \in Nat
    BY <1>1, <1>2 DEF Ended, Detects, TypeOK, Calls
  <2> QED  BY <2>1, SeenGrows
\* Without a failure the digit is this frame's, and no earlier frame's.
<1>10. ASSUME ~trouble'
       PROVE  /\ u.wrong = 0 /\ IsFiniteSet(u.seen) /\ Cardinality(u.seen) = u.right
              /\ u.seen \subseteq Seen'
  <2>1. ~trouble /\ last'.ok
    BY <1>2, <1>3, <1>6, <1>10
  <2>2. ready = Label /\ ~late
    BY <1>1, <2>1 DEF IInv, FineOK, BenchMain
  <2>3. got = Digit(Own, Label)
    <3>1. Usable
      BY <1>2, <1>4, <2>2, DriverAssumption DEF Usable
    <3>2. Taken
      BY <1>1, <1>2, <2>1, <2>2, <3>1 DEF FrameOK
    <3>3. Len(Own) = 2
      BY DEF Own
    <3> QED  BY <1>2, <1>3, <2>1, <2>2, <3>2, <3>3 DEF Taken, got
  <2>4. /\ t.wrong = 0 /\ IsFiniteSet(t.seen) /\ Cardinality(t.seen) = t.right
        /\ t.seen \subseteq Seen
    BY <1>1, <1>4, <2>1 DEF TallyOK, t
  <2>5. got \notin Seen
    <3> SUFFICES ASSUME got \in Seen PROVE FALSE
      OBVIOUS
    <3>1. PICK j \in 0 .. Ended, b \in Variants : got = Digit(<<j, j>>, b)
      BY DEF Seen
    <3>2. <<j, j>>[1] = j /\ Own[1] = call.id /\ j # call.id
      BY <1>9 DEF Own
    <3>3. got.frame = <<j, j>> /\ got.frame = Own
      BY <2>3, <3>1 DEF Digit
    <3> QED  BY <3>2, <3>3
  <2>6. u.wrong = 0 /\ u.right = t.right + 1 /\ u.seen = t.seen \cup {got}
    BY <1>7, <2>1, <2>3, <2>4
  <2>7. IsFiniteSet(u.seen) /\ Cardinality(u.seen) = u.right
    <3>1. got \notin t.seen
      BY <2>4, <2>5
    <3>2. IsFiniteSet(t.seen \cup {got}) /\ Cardinality(t.seen \cup {got}) = Cardinality(t.seen) + 1
      BY <2>4, <3>1, FS_AddElement
    <3> QED  BY <2>4, <2>6, <3>2
  <2>8. got \in Seen'
    <3>1. call.id \in 0 .. Ended'
      BY <1>9
    <3> QED  BY <1>4, <2>3, <3>1 DEF Seen, Own
  <2> QED  BY <1>9, <2>4, <2>6, <2>7, <2>8
<1> DEFINE w(k) == tally'[bitstreams[k]]
<1>11. ASSUME NEW k \in 1 .. Len(bitstreams)
       PROVE  /\ k < v' => w(k).right + w(k).wrong \in {0, NumFrames}
                             /\ (~trouble' => w(k).right = NumFrames)
              /\ k = v' => w(k).right + w(k).wrong = (IF Testing' THEN i' - 1 ELSE 0)
              /\ k > v' => w(k).right + w(k).wrong = 0
  <2>1. k \in Int /\ bitstreams[k] \in Variants /\ (k # v => bitstreams[k] # Label)
    BY <1>3, <1>4, BenchAssumption, ElementOfSeq
  <2>2. CASE k = v
    <3>1. w(k) = u
      BY <1>4, <1>8, <2>2
    <3> HIDE DEF w
    <3>2. CASE i < NumFrames /\ i' = i + 1 /\ at' = "reset" /\ v' = v
      BY <1>3, <1>7, <2>2, <3>1, <3>2 DEF Testing
    <3>3. CASE i = NumFrames /\ at' = "load" /\ v' = v + 1 /\ i' = 1
      <4>1. ~trouble' => u.right = NumFrames
        BY <1>7, <1>10, <3>3
      <4> QED  BY <1>3, <1>7, <2>2, <3>1, <3>3, <4>1
    <3> QED  BY <1>6, <3>2, <3>3
  <2>3. CASE k # v
    <3>1. w(k) = tally[bitstreams[k]]
      BY <1>8, <2>1, <2>3
    <3>2. /\ k < v => w(k).right + w(k).wrong \in {0, NumFrames}
                         /\ (~trouble => w(k).right = NumFrames)
          /\ k > v => w(k).right + w(k).wrong = 0
      BY <1>1, <3>1 DEF TallyOK
    <3> HIDE DEF w
    <3>3. CASE v' = v
      BY <1>3, <1>6, <2>1, <2>3, <3>2, <3>3
    <3>4. CASE v' = v + 1 /\ at' = "load"
      <4>1. (k < v' => k < v) /\ (k = v' => k > v) /\ (k > v' => k > v)
        BY <1>3, <2>1, <2>3, <3>4
      <4> QED  BY <1>6, <3>2, <3>4, <4>1 DEF Testing
    <3> QED  BY <1>6, <3>3, <3>4
  <2> QED  BY <2>2, <2>3
<1>12. \A b \in Variants : tally'[b].right + tally'[b].wrong <= NumFrames
  <2> SUFFICES ASSUME NEW b \in Variants PROVE tally'[b].right + tally'[b].wrong <= NumFrames
    OBVIOUS
  <2>1. CASE b = Label
    BY <1>3, <1>7, <1>8, <2>1
  <2>2. CASE b # Label
    BY <1>1, <1>8, <2>2 DEF TallyOK
  <2> QED  BY <2>1, <2>2
<1>13. ASSUME ~trouble', NEW b \in Variants
       PROVE  /\ tally'[b].wrong = 0
              /\ IsFiniteSet(tally'[b].seen) /\ Cardinality(tally'[b].seen) = tally'[b].right
              /\ tally'[b].seen \subseteq Seen'
  <2>1. CASE b = Label
    BY <1>8, <1>10, <1>13, <2>1
  <2>2. CASE b # Label
    <3>1. tally'[b] = tally[b] /\ ~trouble
      BY <1>6, <1>8, <1>13, <2>2
    <3> QED  BY <1>1, <1>9, <3>1 DEF TallyOK
  <2> QED  BY <2>1, <2>2
<1>14. tally' \in [Variants -> Tallies]
  BY <1>8
<1> QED  BY <1>11, <1>12, <1>13, <1>14 DEF TallyOK, Tallies, Digits

LEMMA MainKeepsTally ==
  ASSUME IInv, BenchMain
  PROVE  TallyOK'
<1>1. /\ TypeOK /\ CallOK /\ MainOK /\ TallyOK /\ program = "bench"
      /\ {trouble, trouble'} \subseteq BOOLEAN
  BY MainKeepsMain DEF IInv, DriverInv, BenchMain, MainOK
<1>2. TypeOK'
  BY MainKeepsDriver DEF IInv, DriverInv
<1>3. Ended \in Int /\ Ended' \in Int
  BY <1>1, <1>2 DEF Ended, TypeOK, Calls
<1>4. at \notin {"loading", "infer"} => pc = "idle"
  BY <1>1, AtRest
<1>5. CASE Run_TestSuite /\ pc' = "idle"
  BY <1>1, <1>5, FrameIsCounted
<1>6. CASE Run_TestSuite /\ pc' # "idle"
  <2>1. /\ at = "infer" /\ at' = at /\ v' = v /\ i' = i /\ tally' = tally /\ trouble' = trouble
        /\ pc' \in Detects
        /\ \/ pc = "idle" /\ call'.id = call.id + 1
           \/ pc \in Detects /\ call' = call
    BY <1>1, <1>6, InferenceResult DEF Run_TestSuite
  <2>2. Ended <= Ended'
    BY <1>1, <1>3, <2>1 DEF Ended, Detects, TypeOK, Calls
  <2> QED  BY <1>1, <1>3, <2>1, <2>2, SeenGrows, TallyKept DEF Testing
<1>7. CASE Start \/ End
  <2>1. /\ at \in {"main", "load"} /\ at' \in {"load", "returned", "done"} /\ UNCHANGED vars
        /\ UNCHANGED <<v, i, tally, trouble>>
    BY <1>7 DEF Start, End, Mount, Dcfg_Init, Dma_Init
  <2>2. Ended' = Ended
    BY <2>1 DEF Ended, vars
  <2> QED  BY <1>1, <1>3, <2>1, <2>2, SeenGrows, TallyKept DEF Testing
<1>8. CASE ReadFile
  <2>1. /\ at = "load" /\ at' = "loading" /\ UNCHANGED <<v, i, tally, trouble>>
        /\ pc' = "cleared" /\ call'.id = call.id + 1
    BY <1>8 DEF ReadFile
  <2>2. Ended <= Ended'
    BY <1>1, <1>4, <2>1 DEF Ended, Detects, TypeOK, Calls
  <2> QED  BY <1>1, <1>3, <2>1, <2>2, SeenGrows, TallyKept DEF Testing
<1>9. CASE ReadFileFails
  <2>1. /\ at = "load" /\ at' = "load" /\ v' = v + 1 /\ tally' = tally /\ trouble' = TRUE
        /\ pc' = pc /\ call' = call
    BY <1>9 DEF ReadFileFails, NextVariant
  <2>2. Ended' = Ended
    BY <2>1 DEF Ended
  <2> QED  BY <1>1, <1>3, <2>1, <2>2, SeenGrows, TallyKept DEF Testing
<1>10. CASE Dfx_LoadVariant
  <2>1. at = "loading" /\ pc \in Loads /\ i = 1
    BY <1>1, <1>10 DEF Dfx_LoadVariant, MainOK, Testing
  <2>2. call' = call /\ pc' \in Loads \cup {"idle"}
    BY <1>1, <1>10, <2>1, LoadResult DEF Dfx_LoadVariant, Pcap_LoadBitstream
  <2>3. Ended' = Ended
    BY <2>1, <2>2 DEF Ended, Loads, Detects
  <2>4. tally' = tally /\ Seen \subseteq Seen'
    BY <1>3, <1>10, <2>3, SeenGrows DEF Dfx_LoadVariant
  <2>5. CASE pc' # "idle"
    BY <1>1, <1>10, <2>4, <2>5, TallyKept DEF Dfx_LoadVariant, Testing
  <2>6. CASE pc' = "idle" /\ last'.ok
    BY <1>1, <1>10, <2>1, <2>4, <2>6, TallyKept DEF Dfx_LoadVariant, Testing
  <2>7. CASE pc' = "idle" /\ ~last'.ok
    <3>1. at' = "load" /\ v' = v + 1 /\ trouble' = TRUE
      BY <1>10, <2>7 DEF Dfx_LoadVariant, NextVariant
    <3> QED  BY <1>1, <2>1, <2>4, <3>1, TallyKept DEF Testing
  <2> QED  BY <2>5, <2>6, <2>7
<1>11. CASE FrameReset \/ FrameRelease
  <2>1. /\ Testing /\ Testing' /\ UNCHANGED <<v, i, tally, trouble, pc, call>>
    BY <1>11 DEF FrameReset, FrameRelease, Testing
  <2>2. Ended' = Ended
    BY <2>1 DEF Ended
  <2> QED  BY <1>1, <1>3, <2>1, <2>2, SeenGrows, TallyKept
<1> QED
  BY <1>5, <1>6, <1>7, <1>8, <1>9, <1>10, <1>11 DEF BenchMain, Main

\* The engines do not touch what main keeps track of, and neither program touches
\* what the other one does.
LEMMA OthersKeepMain ==
  ASSUME IInv, UNCHANGED bench,
         BenchEngines \/ ServerStep \/ UNCHANGED vars
  PROVE  MainOK' /\ FineOK' /\ TallyOK'
<1>1. /\ DriverInv /\ TypeOK /\ ReadyOK /\ MainOK /\ FineOK /\ TallyOK
      /\ program \in {"server", "bench"} /\ {trouble, trouble'} \subseteq BOOLEAN
      /\ UNCHANGED <<program, at, v, i, tally, late, trouble>>
  BY BenchAssumption DEF IInv, DriverInv, MainOK, bench
<1>2. DriverInv'
  BY DriverInvInvariant DEF IInv, BenchNext, allVars
<1>3. Label' = Label /\ Before' = Before /\ (Testing' <=> Testing)
  BY <1>1 DEF Label, Before, Testing
<1>4. CASE program = "bench"
  <2>1. /\ UNCHANGED <<pc, call, ready>> /\ (pcap = <<>> => pcap' = <<>>)
    BY <1>4 DEF BenchEngines, ServerStep, Engines, PcapFinish, DmaSends, Infer, firmware, vars
  <2>2. MainOK'
    <3>1. Used' = Used
      BY <1>1, <2>1 DEF Used
    <3> QED  BY <1>1, <1>3, <2>1, <3>1 DEF MainOK
  <2>3. FineOK'
    BY <1>1, <1>3, <2>1 DEF FineOK
  <2>4. Seen' = Seen
    BY <2>1 DEF Seen, Ended
  <2> QED  BY <1>1, <1>3, <2>2, <2>3, <2>4, TallyKept
<1>5. CASE program = "server"
  <2>1. MainOK' /\ FineOK'
    BY <1>1, <1>3, <1>5 DEF MainOK, FineOK
  <2>2. Seen \subseteq Seen'
    <3>1. Ended \in Int /\ Ended' \in Int
      BY <1>1, <1>2 DEF DriverInv, Ended, TypeOK, Calls
    <3>2. Ended <= Ended'
      <4>1. CASE UNCHANGED <<pc, call>>
        BY <3>1, <4>1 DEF Ended
      <4>2. CASE \E w \in Variants : Load(w)
        BY <1>1, <4>2 DEF Load, Ended, Detects, TypeOK, Calls
      <4>3. CASE Copy
        BY <1>1, <4>3 DEF Copy, Ended, Detects, TypeOK, Calls
      <4>4. CASE Submit \/ SeeDone \/ HoldReset
        BY <3>1, <4>4 DEF Submit, SeeDone, HoldReset, Ended, Detects
      <4>5. CASE SubmitFails \/ PcapTimeout \/ ReleaseReset
        BY <1>1, <4>5 DEF SubmitFails, PcapTimeout, ReleaseReset, Return, Ended, Detects, TypeOK, Calls
      <4>6. CASE StartDma \/ DmaIdle
        BY <3>1, <4>6 DEF StartDma, DmaIdle, Ended, Detects
      <4>7. CASE StartFails \/ DmaTimeout \/ ReadDigit
        BY <1>1, <4>7 DEF StartFails, DmaTimeout, ReadDigit, Return, Ended, Detects, TypeOK, Calls
      <4>8. CASE Engines
        BY <4>1, <4>8 DEF Engines, PcapFinish, DmaSends, Infer, firmware
      <4> QED
        BY <1>5, <4>1, <4>2, <4>3, <4>4, <4>5, <4>6, <4>7, <4>8
           DEF BenchEngines, ServerStep, Next, Firmware, Engines, vars
    <3> QED  BY <3>1, <3>2, SeenGrows
  <2> QED  BY <1>1, <1>3, <2>1, <2>2, TallyKept
<1> QED  BY <1>1, <1>4, <1>5

-----------------------------------------------------------------------------
LEMMA InitIInv == BenchInit => IInv
<1> SUFFICES ASSUME BenchInit PROVE IInv
  OBVIOUS
<1> USE DEF BenchInit, Init
<1>1. /\ pc = "idle" /\ call = [id |-> 0, op |-> "none", idle |-> TRUE] /\ pcap = <<>> /\ fed = <<>>
      /\ ready = "none" /\ at = "main" /\ v = 1 /\ i = 1 /\ dma = 0 /\ ~late /\ ~trouble
      /\ Len(bitstreams) \in Nat /\ NumFrames \in Nat \ {0}
  BY BenchAssumption
<1>2. TypeOK
  <2>1. pcap \in Seq(Contents) /\ Len(pcap) <= Depth
    BY <1>1, DriverAssumption
  <2>2. fed \in Seq(Halves) /\ Len(fed) <= 2
    <3> QED  BY ONLY <1>1
  <2>3. call \in [id: Calls, op: Variants \cup {"none", "detect"}, idle: BOOLEAN]
    BY <1>1, DriverAssumption DEF Calls
  <2>4. tx \in [{1, 2} -> Halves]
    BY DEF Halves
  <2>5. digit \in Digits /\ last \in [ok: BOOLEAN, digit: Digits]
    BY NoDigitTyped
  <2>6. pass = 1 /\ done = FALSE /\ running = FALSE /\ fabric = "boot"
    OBVIOUS
  <2>7. /\ pc \in {"idle", "cleared", "pcapWait", "settle", "held", "copied", "dmaWait", "drain"}
        /\ fabric \in Contents \cup {"boot"} /\ ready \in Variants \cup {"none"}
    BY <1>1, <2>6
  <2>8. done \in BOOLEAN /\ running \in BOOLEAN
    BY ONLY <2>6
  <2>9. pass \in {1, 2} /\ dma \in 0 .. 2
    BY ONLY <1>1, <2>6
  <2> HIDE DEF BenchInit, Init
  <2> QED  BY <2>1, <2>2, <2>3, <2>4, <2>5, <2>7, <2>8, <2>9 DEF TypeOK, Digits
<1>3. DriverInv
  BY <1>1, <1>2
     DEF DriverInv, CallOK, LoadOK, ReadyOK, FrameOK, OwnDigit, DigitIsOwn, Usable, Loads, Detects
<1>4. MainOK
  <2>1. Before = 0
    <3>1. v - 1 = 0 /\ 1 + NumFrames \in Nat
      BY <1>1
    <3>2. \A n \in Nat : 0 * n = 0
      OBVIOUS
    <3> QED  BY <3>1, <3>2 DEF Before
  <2>2. Used = 0 /\ ~Testing /\ call.id <= Before + Used
    BY <1>1, <2>1 DEF Used, Testing
  <2>3. program \in Programs /\ {late, trouble} \subseteq BOOLEAN
    OBVIOUS
  <2>5. v \in 1 .. Len(bitstreams) + 1 /\ i \in 1 .. NumFrames
    BY ONLY <1>1
  <2>4. pc \notin Loads /\ pc \notin Detects /\ at # "loading"
    BY <1>1 DEF Loads, Detects
  <2> HIDE DEF BenchInit, Init
  <2> QED  BY <1>1, <2>2, <2>3, <2>4, <2>5 DEF MainOK
<1>5. FineOK
  BY <1>1 DEF FineOK, Testing, Loads
<1>6. TallyOK
  <2>1. \A b \in Variants : tally[b] = Empty
    OBVIOUS
  <2>2. Empty \in Tallies /\ Empty.right = 0 /\ Empty.wrong = 0 /\ Empty.seen = {}
    BY DEF Empty, Tallies
  <2>3. \A k \in 1 .. Len(bitstreams) : bitstreams[k] \in Variants
    BY BenchAssumption, ElementOfSeq
  <2>4. tally \in [Variants -> Tallies]
    BY <2>2
  <2>5. \A b \in Variants :
          /\ tally[b].right = 0 /\ tally[b].wrong = 0 /\ tally[b].right + tally[b].wrong = 0
          /\ IsFiniteSet(tally[b].seen) /\ Cardinality(tally[b].seen) = tally[b].right
          /\ tally[b].seen \subseteq Seen
    <3>1. IsFiniteSet({}) /\ Cardinality({}) = 0
      BY FS_EmptySet
    <3> SUFFICES ASSUME NEW b \in Variants
                 PROVE  /\ tally[b].right = 0 /\ tally[b].wrong = 0 /\ tally[b].right + tally[b].wrong = 0
                        /\ IsFiniteSet(tally[b].seen) /\ Cardinality(tally[b].seen) = tally[b].right
                        /\ tally[b].seen \subseteq Seen
      OBVIOUS
    <3> HIDE DEF BenchInit, Init
    <3>2. tally[b] = Empty
      BY <2>1
    <3>3. tally[b].right = 0 /\ tally[b].wrong = 0 /\ tally[b].seen = {}
      BY <2>2, <3>2
    <3> QED  BY <3>1, <3>3
  <2>6. \A k \in 1 .. Len(bitstreams) :
          /\ ~(k < v) /\ tally[bitstreams[k]].right + tally[bitstreams[k]].wrong = 0
    BY <1>1, <2>3, <2>5
  <2>7. ~Testing
    BY <1>1 DEF Testing
  <2> HIDE DEF BenchInit, Init
  <2> QED  BY <1>1, <2>4, <2>5, <2>6, <2>7 DEF TallyOK, Tallies, Digits
<1> QED  BY <1>3, <1>4, <1>5, <1>6 DEF IInv

LEMMA NextIInv == IInv /\ [BenchNext]_allVars => IInv'
<1> SUFFICES ASSUME IInv, [BenchNext]_allVars PROVE IInv'
  OBVIOUS
<1>1. DriverInv'
  BY DriverInvInvariant DEF IInv
<1>2. CASE BenchMain
  BY <1>1, <1>2, MainKeepsMain, MainKeepsFine, MainKeepsTally DEF IInv, DriverInv
<1>3. CASE BenchEngines \/ ServerStep \/ UNCHANGED allVars
  <2>1. UNCHANGED bench /\ (BenchEngines \/ ServerStep \/ UNCHANGED vars)
    BY <1>3 DEF BenchEngines, ServerStep, allVars
  <2> QED  BY <1>1, <2>1, OthersKeepMain DEF IInv
<1> QED  BY <1>2, <1>3 DEF BenchNext

LEMMA BenchInvariant == BenchSpec => []IInv
BY InitIInv, NextIInv, PTL DEF BenchSpec

\* Every variable keeps to its type, and no variant is scored on more frames than
\* the suite has.
THEOREM BenchTypeCorrect == BenchSpec => []BenchTypeOK
<1>1. IInv => BenchTypeOK
  <2> SUFFICES ASSUME IInv PROVE BenchTypeOK
    OBVIOUS
  <2>1. TypeOK /\ MainOK /\ TallyOK
    BY DEF IInv, DriverInv
  <2>2. \A b \in Variants : tally[b].right + tally[b].wrong \in 0 .. NumFrames
    <3> SUFFICES ASSUME NEW b \in Variants
                 PROVE  tally[b].right + tally[b].wrong \in 0 .. NumFrames
      OBVIOUS
    <3>1. tally[b].right \in Nat /\ tally[b].wrong \in Nat
      BY <2>1 DEF TallyOK, Tallies
    <3> QED  BY <2>1, <3>1, BenchAssumption DEF TallyOK
  <2> QED  BY <2>1, <2>2 DEF BenchTypeOK, MainOK
<1> QED  BY <1>1, BenchInvariant, PTL

\* A digit that DNN_Infer reports, in either program, was computed from the whole
\* frame of that call by the variant loaded last; in the test program as long as no
\* DMA transfer was given up since then.
THEOREM DigitsAreOwn == BenchSpec => []OwnDigit
<1>1. IInv => OwnDigit
  BY DEF IInv, DriverInv
<1> QED  BY <1>1, BenchInvariant, PTL

\* The suite counts every frame of a variant or none, and finds fault with the
\* hardware only if a failure was reported.
THEOREM SuiteIsFair == BenchSpec => []SuiteScoresAll
<1>1. IInv => SuiteScoresAll
  <2> SUFFICES ASSUME IInv PROVE SuiteScoresAll
    OBVIOUS
  <2>1. MainOK /\ TallyOK
    BY DEF IInv
  <2>2. ASSUME NEW k \in 1 .. v - 1
        PROVE  LET t == tally[bitstreams[k]] IN
                 /\ t.right + t.wrong \in {0, NumFrames}
                 /\ ~trouble => t.right = NumFrames /\ Cardinality(t.seen) = NumFrames
    <3>1. k \in 1 .. Len(bitstreams) /\ k < v
      BY <2>1, BenchAssumption DEF MainOK
    <3>2. bitstreams[k] \in Variants
      BY <3>1, BenchAssumption, ElementOfSeq
    <3> QED  BY <2>1, <3>1, <3>2 DEF TallyOK
  <2>3. ~trouble => \A b \in Variants : tally[b].wrong = 0
    BY <2>1 DEF TallyOK
  <2> QED  BY <2>2, <2>3 DEF SuiteScoresAll
<1> QED  BY <1>1, BenchInvariant, PTL

\* A load that reports success and found the device idle leaves the variant in the
\* partition, the device at rest, and the network running at the start of a frame.
THEOREM LoadIsReady == BenchSpec => LoadedMeansReady
<1>1. IInv /\ [BenchNext]_allVars =>
        [pc = "held" /\ pc' = "idle" /\ call.idle =>
           pcap' = <<>> /\ fabric' = call.op /\ running' /\ fed' = <<>>]_vars
  <2> SUFFICES ASSUME IInv, [BenchNext]_allVars, pc = "held", pc' = "idle", call.idle
               PROVE  pcap' = <<>> /\ fabric' = call.op /\ running' /\ fed' = <<>>
    OBVIOUS
  <2>1. pcap = <<>> /\ fabric = call.op /\ fed = <<>> /\ at \notin {"reset", "infer"}
        /\ (program = "bench" => at = "loading")
    <3>1. LoadOK /\ MainOK /\ pc \in Loads /\ program \in {"server", "bench"}
      BY BenchAssumption DEF IInv, DriverInv, MainOK, Loads
    <3>2. pcap = <<>> /\ fabric = call.op /\ fed = <<>>
      BY <3>1 DEF LoadOK
    <3>3. at \notin {"reset", "infer"} /\ (program = "bench" => at = "loading")
      BY <3>1 DEF MainOK
    <3> QED  BY <3>2, <3>3
  <2>2. ReleaseReset
    <3>1. ~UNCHANGED pc
      OBVIOUS
    <3>2. CASE ServerStep
      BY <3>1, <3>2 DEF ServerStep, Next, Firmware, Load, Submit, SubmitFails, SeeDone, PcapTimeout,
         HoldReset, Copy, StartDma, StartFails, DmaTimeout, DmaIdle, ReadDigit, PcapFinish, DmaSends,
         Infer, firmware
    <3>3. CASE BenchMain
      BY <2>1, <3>1, <3>3 DEF BenchMain, Main, Start, ReadFile, ReadFileFails, Dfx_LoadVariant,
         FrameReset, FrameRelease, Run_TestSuite, End, Pcap_LoadBitstream, Submit, SubmitFails,
         SeeDone, PcapTimeout, HoldReset
    <3>4. ~BenchEngines /\ ~UNCHANGED allVars
      BY <3>1 DEF BenchEngines, Engines, PcapFinish, DmaSends, Infer, firmware, allVars, vars
    <3> QED  BY <3>2, <3>3, <3>4 DEF BenchNext
  <2> QED  BY <2>1, <2>2 DEF ReleaseReset
<1> QED  BY <1>1, BenchInvariant, PTL DEF BenchSpec, LoadedMeansReady

=============================================================================
