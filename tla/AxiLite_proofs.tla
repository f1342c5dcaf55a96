--------------------------- MODULE AxiLite_proofs ---------------------------
(***************************************************************************)
(* The register slave for every set of registers and words, under a master *)
(* that never offers data before its address.  The two channels share only *)
(* the register file, so each has an invariant of its own.                 *)
(***************************************************************************)
EXTENDS AxiLite, SequenceTheorems, TLAPS

WriteTypeOK ==
  /\ slave \in Slave /\ slv_reg \in [Registers -> Data] /\ shadow \in [Registers -> Data]
  /\ write \in [addr: Registers, data: Data] /\ offer \in Offers /\ owed \in 0 .. 2

\* What the state of the write channel says of its outputs and of the offers: an
\* address is awaited together with its data, or its data alone.
Phase ==
  \/ /\ slave.state_write = "Idle" /\ ~slave.axi_awready /\ ~slave.axi_wready
     /\ ~slave.axi_bvalid /\ (offer.addr <=> offer.data)
  \/ /\ slave.state_write = "Waddr" /\ slave.axi_awready /\ slave.axi_wready
     /\ offer.addr <=> offer.data
  \/ /\ slave.state_write = "Wdata" /\ ~slave.axi_awready /\ slave.axi_wready
     /\ ~offer.addr /\ offer.data /\ slave.axi_awaddr = write.addr

\* A response is owed for the write being made and for the one being answered.
Owed == owed = (IF Sending THEN 1 ELSE 0) + (IF slave.axi_bvalid THEN 1 ELSE 0)

\* Only the register being written may still differ from what it must hold.
File ==
  /\ Sending => shadow[write.addr] = write.data
  /\ \A r \in Registers : slv_reg[r] = shadow[r] \/ (Sending /\ r = write.addr)

WriteInv == WriteTypeOK /\ Phase /\ Owed /\ File

ReadTypeOK ==
  /\ reader \in Reader /\ ask \in [addr: BOOLEAN, held: BOOLEAN] /\ asked \in Seq(Registers)

\* A read is in asked because its address or its data has still to be taken.
Asked ==
  /\ Len(asked) = (IF ask.addr THEN 1 ELSE 0) + (IF reader.axi_rvalid THEN 1 ELSE 0)
  /\ reader.axi_rvalid => reader.axi_araddr = asked[1]
  /\ \/ reader.state_read = "Idle" /\ ~reader.axi_arready /\ ~reader.axi_rvalid
     \/ reader.state_read = "Raddr" /\ reader.axi_arready /\ ~reader.axi_rvalid
     \/ reader.state_read = "Rdata" /\ ~reader.axi_arready /\ reader.axi_rvalid

ReadInv == ReadTypeOK /\ Asked

IInv == WriteInv /\ ReadInv

-----------------------------------------------------------------------------
\* The state after reset satisfies the invariant.
LEMMA InitInv == Init => IInv
<1> SUFFICES ASSUME Init PROVE IInv
  OBVIOUS
<1> USE AxiAssumption DEF Init
<1>1. WriteTypeOK
  BY DEF WriteTypeOK, Slave, Offers
<1>2. Phase /\ Owed /\ File
  BY DEF Phase, Owed, File, Sending
<1>3. ReadInv
  BY DEF ReadInv, ReadTypeOK, Asked, Reader
<1> QED
  BY <1>1, <1>2, <1>3 DEF IInv, WriteInv

\* The master starts a write.
LEMMA BeginInv ==
  ASSUME WriteInv, NEW r \in Registers, NEW d \in Data, Begin(r, d)
  PROVE  WriteInv'
<1> USE DEF Begin, WriteInv
<1>1. WriteTypeOK'
  <2>1. owed' \in 0 .. 2 /\ write' \in [addr: Registers, data: Data]
    BY DEF WriteTypeOK
  <2>2. offer' \in Offers
    BY DEF WriteTypeOK, Offers
  <2>3. shadow' \in [Registers -> Data]
    BY DEF WriteTypeOK
  <2> QED
    BY <2>1, <2>2, <2>3 DEF WriteTypeOK
<1>2. offer'.addr /\ offer'.data /\ ~offer.addr /\ ~offer.data
  BY DEF WriteTypeOK, Offers, Sending
<1>3. Phase'
  BY <1>2 DEF Phase
<1>4. Owed'
  BY <1>2 DEF Owed, Sending, WriteTypeOK
<1>5. File'
  BY <1>2 DEF File, Sending, WriteTypeOK
<1> QED
  BY <1>1, <1>3, <1>4, <1>5

-----------------------------------------------------------------------------
\* An edge of the write channel.
LEMMA WriteEdgeInv ==
  ASSUME WriteInv, ~DataFirst,
         NEW awvalid \in BOOLEAN, NEW wvalid \in BOOLEAN, NEW bready \in BOOLEAN,
         MayOffer(awvalid, wvalid, bready), WriteEdge(awvalid, wvalid, bready)
  PROVE  WriteInv'
<1> USE DEF WriteInv
<1>1. slave' = SlaveEdge(awvalid, wvalid, bready) /\ write' = write /\ shadow' = shadow
  BY DEF WriteEdge
<1>2. /\ offer'.addr <=> (offer.addr /\ ~(awvalid /\ slave.axi_awready))
      /\ offer'.data <=> (offer.data /\ ~(wvalid /\ slave.axi_wready))
      /\ offer' \in Offers
  BY DEF WriteEdge, Offers, WriteTypeOK, Slave
<1>3. wvalid => Written(awvalid) = write.addr
  BY DEF Written, Phase, MayOffer
<1>4. slv_reg' = IF wvalid THEN [slv_reg EXCEPT ![write.addr] = write.data] ELSE slv_reg
  BY <1>3 DEF WriteEdge
<1>5. owed' = IF slave.axi_bvalid /\ bready THEN owed - 1 ELSE owed
  BY DEF WriteEdge
<1>6. slave' \in Slave
  BY <1>1 DEF SlaveEdge, TakeAddress, TakeData, Response, WriteTypeOK, Slave, Phase
<1>7. Phase' /\ Owed'
  <2>1. CASE slave.state_write = "Idle"
    <3>1. /\ slave'.state_write = "Waddr" /\ slave'.axi_awready /\ slave'.axi_wready
          /\ ~slave'.axi_bvalid
      BY <2>1, <1>1 DEF SlaveEdge, WriteTypeOK, Slave, Phase
    <3>2. offer'.addr = offer.addr /\ offer'.data = offer.data /\ (offer.addr <=> offer.data)
      BY <2>1, <1>2 DEF Phase, WriteTypeOK, Offers
    <3>3. owed' = owed
      BY <2>1, <1>5 DEF Phase
    <3> QED
      BY <2>1, <3>1, <3>2, <3>3 DEF Phase, Owed, Sending
  <2>2. CASE slave.state_write = "Waddr" /\ awvalid
    <3>1. slave' = TakeAddress(wvalid, bready)
      BY <2>2, <1>1 DEF SlaveEdge, Phase
    <3>2. /\ slave'.state_write = (IF wvalid THEN "Waddr" ELSE "Wdata")
          /\ (slave'.axi_awready <=> wvalid) /\ slave'.axi_wready
          /\ slave'.axi_awaddr = write.addr
          /\ slave'.axi_bvalid <=> (wvalid \/ (slave.axi_bvalid /\ ~bready))
      BY <2>2, <3>1 DEF TakeAddress, Response, WriteTypeOK, Slave, Phase
    <3>3. offer.addr /\ offer.data
      BY <2>2 DEF Phase, MayOffer
    <3>4. ~offer'.addr /\ (offer'.data <=> ~wvalid)
      BY <2>2, <3>3, <1>2 DEF Phase
    <3>5. Phase'
      BY <3>2, <3>4, <1>1 DEF Phase
    <3>6. Owed'
      BY <3>2, <3>3, <3>4, <1>5 DEF Owed, Sending, MayOffer
    <3> QED
      BY <3>5, <3>6
  <2>3. CASE slave.state_write = "Waddr" /\ ~awvalid
    <3>1. slave' = [slave EXCEPT !.axi_bvalid = Response(bready)]
      BY <2>3, <1>1 DEF SlaveEdge
    <3>2. /\ slave'.state_write = "Waddr" /\ slave'.axi_awready /\ slave'.axi_wready
          /\ slave'.axi_bvalid <=> (slave.axi_bvalid /\ ~bready)
      BY <2>3, <3>1 DEF Response, WriteTypeOK, Slave, Phase
    <3>3. ~wvalid
      BY <2>3 DEF Phase, MayOffer
    <3>4. offer'.addr = offer.addr /\ offer'.data = offer.data /\ (offer.addr <=> offer.data)
      BY <2>3, <3>3, <1>2 DEF Phase, WriteTypeOK, Offers
    <3>5. Phase'
      BY <3>2, <3>4 DEF Phase
    <3>6. Owed'
      BY <3>2, <3>4, <1>5 DEF Owed, Sending, MayOffer
    <3> QED
      BY <3>5, <3>6
  <2>4. CASE slave.state_write = "Wdata"
    <3>1. slave' = TakeData(wvalid, bready)
      BY <2>4, <1>1 DEF SlaveEdge
    <3>2. /\ slave'.state_write = (IF wvalid THEN "Waddr" ELSE "Wdata")
          /\ (slave'.axi_awready <=> wvalid) /\ slave'.axi_wready
          /\ slave'.axi_awaddr = write.addr
          /\ slave'.axi_bvalid <=> (wvalid \/ (slave.axi_bvalid /\ ~bready))
      BY <2>4, <3>1 DEF TakeData, Response, WriteTypeOK, Slave, Phase
    <3>3. ~offer.addr /\ offer.data
      BY <2>4 DEF Phase
    <3>4. ~offer'.addr /\ (offer'.data <=> ~wvalid)
      BY <2>4, <3>3, <1>2 DEF Phase
    <3>5. Phase'
      BY <3>2, <3>4, <1>1 DEF Phase
    <3>6. Owed'
      BY <3>2, <3>3, <3>4, <1>5 DEF Owed, Sending, MayOffer
    <3> QED
      BY <3>5, <3>6
  <2> QED
    BY <2>1, <2>2, <2>3, <2>4 DEF WriteTypeOK, Slave
<1>8. WriteTypeOK'
  <2>1. slv_reg' \in [Registers -> Data]
    BY <1>4 DEF WriteTypeOK
  <2>2. owed' \in 0 .. 2
    BY <1>7, <1>5 DEF Owed, WriteTypeOK
  <2> QED
    BY <2>1, <2>2, <1>1, <1>2, <1>6 DEF WriteTypeOK
<1>9. File'
  <2>1. Sending' => Sending
    BY <1>2 DEF Sending
  <2>2. wvalid => Sending
    BY DEF MayOffer, Sending
  <2>3. Sending /\ ~Sending' => wvalid
    BY <1>2 DEF Sending, Phase
  <2>4. \A r \in Registers : slv_reg'[r] = shadow'[r] \/ (Sending' /\ r = write'.addr)
    <3> SUFFICES ASSUME NEW r \in Registers
                 PROVE  slv_reg'[r] = shadow'[r] \/ (Sending' /\ r = write'.addr)
      OBVIOUS
    <3>1. CASE wvalid
      BY <3>1, <2>2, <1>1, <1>4 DEF File, WriteTypeOK
    <3>2. CASE ~wvalid
      BY <3>2, <2>3, <1>1, <1>4 DEF File
    <3> QED
      BY <3>1, <3>2
  <2> QED
    BY <2>1, <2>4, <1>1 DEF File
<1> QED
  BY <1>7, <1>8, <1>9

-----------------------------------------------------------------------------
\* The master starts a read.
LEMMA AskInv ==
  ASSUME ReadInv, NEW r \in Registers, Ask(r)
  PROVE  ReadInv'
<1>1. ReadTypeOK'
  BY DEF Ask, ReadInv, ReadTypeOK
<1>2. asked' = Append(asked, r) /\ Len(asked') = Len(asked) + 1
  BY DEF Ask, ReadInv, ReadTypeOK
<1>3. Len(asked) >= 1 => asked'[1] = asked[1]
  BY <1>2 DEF ReadInv, ReadTypeOK
<1>4. Asked'
  BY <1>2, <1>3 DEF Ask, Asked, ReadInv, ReadTypeOK
<1> QED
  BY <1>1, <1>4 DEF ReadInv

\* An edge of the read channel.
LEMMA ReadEdgeInv ==
  ASSUME ReadInv, NEW arvalid \in BOOLEAN, NEW rready \in BOOLEAN,
         MayAsk(arvalid), ReadEdge(arvalid, rready)
  PROVE  ReadInv'
<1> USE DEF ReadInv, ReadEdge
<1>1. CASE Takes(arvalid)
  <2>1. /\ reader.state_read = "Raddr" /\ ask.addr /\ Len(asked) = 1
        /\ ~reader.axi_rvalid
    BY <1>1 DEF Takes, MayAsk, Asked, ReadTypeOK
  <2>2. asked' = asked /\ ask'.addr = FALSE /\ ask' \in [addr: BOOLEAN, held: BOOLEAN]
    BY <1>1, <2>1 DEF Gives, ReadTypeOK, Reader
  <2>3. reader' = [reader EXCEPT !.axi_araddr = asked[1], !.axi_rvalid = TRUE,
                                 !.axi_arready = FALSE, !.state_read = "Rdata"]
    BY <1>1, <2>1 DEF ReaderEdge
  <2>4. asked[1] \in Registers
    <3>1. asked \in Seq(Registers) /\ 1 \in 1 .. Len(asked)
      BY <2>1 DEF ReadTypeOK
    <3> QED
      BY <3>1, ElementOfSeq
  <2>5. ReadTypeOK'
    BY <2>2, <2>3, <2>4 DEF ReadTypeOK, Reader
  <2>6. /\ reader'.state_read = "Rdata" /\ ~reader'.axi_arready /\ reader'.axi_rvalid
        /\ reader'.axi_araddr = asked[1]
    BY <2>3 DEF ReadTypeOK, Reader
  <2>7. Len(asked') = (IF ask'.addr THEN 1 ELSE 0) + (IF reader'.axi_rvalid THEN 1 ELSE 0)
    <3>1. Len(asked') = 1 /\ ~ask'.addr /\ reader'.axi_rvalid
      BY <2>1, <2>2, <2>6
    <3> QED
      BY ONLY <3>1, SMT
  <2>8. Asked'
    BY <2>2, <2>6, <2>7 DEF Asked
  <2> QED
    BY <2>5, <2>8
<1>2. CASE ~Takes(arvalid) /\ Gives(rready)
  <2>1. reader.state_read = "Rdata" /\ reader.axi_rvalid /\ Len(asked) >= 1
    BY <1>2 DEF Gives, Asked, ReadTypeOK
  <2>2. ask'.addr = ask.addr /\ ask' \in [addr: BOOLEAN, held: BOOLEAN]
    BY <1>2 DEF ReadTypeOK, Reader
  <2>3. asked' \in Seq(Registers) /\ Len(asked') = Len(asked) - 1
    BY <1>2, <2>1 DEF ReadTypeOK
  <2>4. reader' = [reader EXCEPT !.axi_rvalid = FALSE, !.axi_arready = TRUE,
                                 !.state_read = "Raddr"]
    BY <1>2, <2>1 DEF ReaderEdge
  <2>5. ReadTypeOK'
    BY <2>2, <2>3, <2>4 DEF ReadTypeOK, Reader
  <2>6. Asked'
    BY <2>1, <2>2, <2>3, <2>4 DEF Asked, ReadTypeOK, Reader
  <2> QED
    BY <2>5, <2>6
<1>3. CASE ~Takes(arvalid) /\ ~Gives(rready)
  <2>1. asked' = asked /\ ask'.addr = ask.addr /\ ask' \in [addr: BOOLEAN, held: BOOLEAN]
    BY <1>3 DEF ReadTypeOK, Reader
  <2>2. CASE reader.state_read = "Idle"
    <3>1. reader' = [reader EXCEPT !.axi_arready = TRUE, !.state_read = "Raddr"]
      BY <2>2 DEF ReaderEdge
    <3> QED
      BY <3>1, <2>1, <2>2 DEF ReadTypeOK, Asked, Reader
  <2>3. CASE reader.state_read # "Idle"
    <3>1. reader' = reader
      BY <1>3, <2>3 DEF ReaderEdge
    <3> QED
      BY <3>1, <2>1 DEF ReadTypeOK, Asked
  <2> QED
    BY <2>2, <2>3
<1> QED
  BY <1>1, <1>2, <1>3

-----------------------------------------------------------------------------
\* The invariants do not mention the other channel.
LEMMA Untouched ==
  /\ WriteInv /\ UNCHANGED writeChannel => WriteInv'
  /\ ReadInv /\ UNCHANGED readChannel => ReadInv'
<1>1. WriteInv /\ UNCHANGED writeChannel => WriteInv'
  BY DEF WriteInv, writeChannel, WriteTypeOK, Phase, Owed, File, Sending
<1>2. ReadInv /\ UNCHANGED readChannel => ReadInv'
  BY DEF ReadInv, readChannel, ReadTypeOK, Asked
<1> QED
  BY <1>1, <1>2

\* Every step keeps the invariant.
LEMMA StepInv == ~DataFirst /\ IInv /\ [Next]_vars => IInv'
<1> SUFFICES ASSUME ~DataFirst, IInv, [Next]_vars PROVE IInv'
  OBVIOUS
<1> USE DEF IInv
<1>1. CASE Clock
  BY <1>1, WriteEdgeInv, ReadEdgeInv DEF Clock
<1>2. ASSUME NEW r \in Registers, Ask(r) PROVE IInv'
  BY <1>2, AskInv, Untouched DEF Ask
<1>3. ASSUME NEW r \in Registers, NEW d \in Data, Begin(r, d) PROVE IInv'
  BY <1>3, BeginInv, Untouched DEF Begin
<1>4. CASE UNCHANGED vars
  BY <1>4, Untouched DEF vars
<1> QED
  BY <1>1, <1>2, <1>3, <1>4 DEF Next

\* What the invariant says of the properties.
LEMMA Implied == IInv => TypeOK /\ RegistersAsWritten /\ ResponsePaired /\ ReadBack
<1> SUFFICES ASSUME IInv PROVE TypeOK /\ RegistersAsWritten /\ ResponsePaired /\ ReadBack
  OBVIOUS
<1> USE DEF IInv, WriteInv, ReadInv
<1>1. TypeOK
  BY DEF TypeOK, WriteTypeOK, ReadTypeOK, Asked
<1>2. RegistersAsWritten
  BY DEF RegistersAsWritten, File, WriteTypeOK
<1>3. ResponsePaired
  BY DEF ResponsePaired, Owed, WriteTypeOK, Slave
<1>4. ReadBack
  <2> SUFFICES ASSUME reader.axi_rvalid
               PROVE  /\ asked # <<>>
                      /\ \A digit, done \in Data :
                           CASE Head(asked) = 1 -> RData(digit, done) = digit
                             [] Head(asked) = 2 -> RData(digit, done) = done
                             [] Head(asked) \notin {1, 2} ->
                                  ~Sending => RData(digit, done) = shadow[Head(asked)]
    BY DEF ReadBack
  <2>1. Len(asked) >= 1 /\ asked \in Seq(Registers) /\ reader.axi_araddr = asked[1]
    BY DEF Asked, ReadTypeOK
  <2>2. asked # <<>> /\ reader.axi_araddr = Head(asked) /\ Head(asked) \in Registers
    <3>1. asked # <<>>
      BY <2>1
    <3> QED
      BY <2>1, <3>1, HeadTailProperties
  <2>3. ~Sending => slv_reg[Head(asked)] = shadow[Head(asked)]
    BY <2>2 DEF File
  <2> SUFFICES ASSUME NEW digit \in Data, NEW done \in Data
               PROVE  CASE Head(asked) = 1 -> RData(digit, done) = digit
                        [] Head(asked) = 2 -> RData(digit, done) = done
                        [] Head(asked) \notin {1, 2} ->
                             ~Sending => RData(digit, done) = shadow[Head(asked)]
    BY <2>2
  <2>4. CASE Head(asked) = 1
    <3>1. RData(digit, done) = digit /\ Head(asked) \in {1, 2} /\ Head(asked) # 2
      BY <2>2, <2>4 DEF RData
    <3> QED
      BY <2>4, <3>1
  <2>5. CASE Head(asked) = 2
    <3>1. RData(digit, done) = done /\ Head(asked) \in {1, 2} /\ Head(asked) # 1
      BY <2>2, <2>5 DEF RData
    <3> QED
      BY <2>5, <3>1
  <2>6. CASE Head(asked) \notin {1, 2}
    <3>1. RData(digit, done) = slv_reg[Head(asked)]
      BY <2>2, <2>6 DEF RData
    <3> QED
      BY <2>3, <2>6, <3>1
  <2> QED
    BY <2>4, <2>5, <2>6
<1> QED
  BY <1>1, <1>2, <1>3, <1>4

-----------------------------------------------------------------------------
\* The invariant holds throughout.
LEMMA Invariance == ASSUME ~DataFirst PROVE Spec => []IInv
  BY InitInv, StepInv, PTL DEF Spec

\* The slave's registers keep their ranges.
THEOREM TypeCorrect == ASSUME ~DataFirst PROVE Spec => []TypeOK
  BY Invariance, Implied, PTL

\* For every register set a write reaches the register it names and no other.
THEOREM WritesCorrect == ASSUME ~DataFirst PROVE Spec => []RegistersAsWritten
  BY Invariance, Implied, PTL

\* Every write is answered once.
THEOREM ResponsesCorrect == ASSUME ~DataFirst PROVE Spec => []ResponsePaired
  BY Invariance, Implied, PTL

\* Read data is that of the oldest read.
THEOREM ReadsCorrect == ASSUME ~DataFirst PROVE Spec => []ReadBack
  BY Invariance, Implied, PTL

=============================================================================
