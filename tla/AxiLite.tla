------------------------------ MODULE AxiLite ------------------------------
(***************************************************************************)
(* The network's AXI4-Lite slave, RTL_src/IP_src/MY_DNN_AXILITE.v, against *)
(* a bus master that obeys the protocol: a valid signal, once raised, is   *)
(* held until its handshake; address and data of a write are offered in    *)
(* either order unless DataFirst is FALSE.  A next write may begin while   *)
(* the response to the last is outstanding, which the master takes in that *)
(* case at once, as the source asks of it; a next read likewise, but at    *)
(* leisure.  Writes and reads overlap freely.                              *)
(***************************************************************************)
EXTENDS Integers, Sequences

CONSTANTS
  Registers,  \* register numbers; 0 is the reset value of axi_awaddr
  Data,       \* words; 0 is the registers' reset value
  DataFirst   \* the master may offer the data before the address

ASSUME AxiAssumption ==
  /\ Registers \subseteq 0 .. 3 /\ 0 \in Registers
  /\ 0 \in Data /\ DataFirst \in BOOLEAN

VARIABLES
  slave,    \* the write channel's state register and handshake outputs
  reader,   \* the read channel's
  slv_reg,  \* the memory mapped registers
  write,    \* the write the master is making, or made last
  offer,    \* the channels of it still to be taken, and those already offered
  owed,     \* responses the master is waiting for
  asked,    \* the registers of the reads not yet answered
  ask,      \* the last of them has still to be taken, and is held
  shadow    \* history: what the registers must hold
readChannel  == <<reader, asked, ask>>
writeChannel == <<slave, slv_reg, write, offer, owed, shadow>>
vars == <<writeChannel, readChannel>>

Slave == [state_write: {"Idle", "Waddr", "Wdata"}, axi_awready: BOOLEAN,
          axi_wready: BOOLEAN, axi_bvalid: BOOLEAN, axi_awaddr: Registers]
Reader == [state_read: {"Idle", "Raddr", "Rdata"}, axi_arready: BOOLEAN,
           axi_rvalid: BOOLEAN, axi_araddr: Registers]
Offers == [addr: BOOLEAN, data: BOOLEAN, addrHeld: BOOLEAN, dataHeld: BOOLEAN]

TypeOK ==
  /\ slave \in Slave /\ slv_reg \in [Registers -> Data] /\ shadow \in [Registers -> Data]
  /\ write \in [addr: Registers, data: Data] /\ offer \in Offers /\ owed \in 0 .. 2
  /\ reader \in Reader /\ ask \in [addr: BOOLEAN, held: BOOLEAN]
  /\ asked \in Seq(Registers) /\ Len(asked) <= 2

\* After S_AXI_ARESETN, which does not clear axi_araddr.
Init ==
  /\ slave = [state_write |-> "Idle", axi_awready |-> FALSE, axi_wready |-> FALSE,
              axi_bvalid |-> FALSE, axi_awaddr |-> 0]
  /\ slv_reg = [r \in Registers |-> 0] /\ shadow = slv_reg
  /\ write = [addr |-> 0, data |-> 0]
  /\ offer = [addr |-> FALSE, data |-> FALSE, addrHeld |-> FALSE, dataHeld |-> FALSE]
  /\ owed = 0
  /\ \E r \in Registers :
       reader = [state_read |-> "Idle", axi_arready |-> FALSE, axi_rvalid |-> FALSE, axi_araddr |-> r]
  /\ asked = <<>> /\ ask = [addr |-> FALSE, held |-> FALSE]

Sending == offer.addr \/ offer.data

\* The master starts a write.
Begin(r, d) ==
  /\ ~Sending /\ owed <= 1
  /\ write' = [addr |-> r, data |-> d]
  /\ offer' = [offer EXCEPT !.addr = TRUE, !.data = TRUE]
  /\ owed' = owed + 1 /\ shadow' = [shadow EXCEPT ![r] = d]
  /\ UNCHANGED <<slave, slv_reg>> /\ UNCHANGED readChannel

\* The master starts a read, at most one ahead of the one being answered.
Ask(r) ==
  /\ ~ask.addr /\ Len(asked) < 2
  /\ asked' = Append(asked, r) /\ ask' = [addr |-> TRUE, held |-> FALSE]
  /\ UNCHANGED reader /\ UNCHANGED writeChannel

-----------------------------------------------------------------------------

\* Mutated: the response is not held until it is taken; it is never taken back.
ResponsePulse(bready) == FALSE
ResponseForever(bready) == slave.axi_bvalid

\* One clock edge of the slave, with the master's signals on it.
Response(bready) == slave.axi_bvalid /\ ~bready

\* Waddr: an address is taken, with or without its data.
TakeAddress(wvalid, bready) ==
  [slave EXCEPT !.axi_awaddr  = write.addr,
                !.axi_awready = wvalid,
                !.state_write = IF wvalid THEN "Waddr" ELSE "Wdata",
                !.axi_bvalid  = wvalid \/ Response(bready)]

\* Mutated: the next address is not admitted.
TakeDataDeaf(wvalid, bready) ==
  [slave EXCEPT !.state_write = IF wvalid THEN "Waddr" ELSE @,
                !.axi_bvalid  = wvalid \/ Response(bready)]

\* Wdata: the data that the address was taken without.
TakeData(wvalid, bready) ==
  [slave EXCEPT !.state_write = IF wvalid THEN "Waddr" ELSE @,
                !.axi_awready = wvalid \/ @,
                !.axi_bvalid  = wvalid \/ Response(bready)]

SlaveEdge(awvalid, wvalid, bready) ==
  CASE slave.state_write = "Idle" ->
         [slave EXCEPT !.axi_awready = TRUE, !.axi_wready = TRUE, !.state_write = "Waddr"]
    [] slave.state_write = "Waddr" /\ awvalid /\ slave.axi_awready ->
         TakeAddress(wvalid, bready)
    [] slave.state_write = "Waddr" /\ ~(awvalid /\ slave.axi_awready) ->
         [slave EXCEPT !.axi_bvalid = Response(bready)]
    [] slave.state_write = "Wdata" -> TakeData(wvalid, bready)

\* Mutated: the address on the bus is not looked at.
WrittenLatched(awvalid) == slave.axi_awaddr

\* The register file looks at WVALID alone, and at whatever address there is.
Written(awvalid) == IF awvalid THEN write.addr ELSE slave.axi_awaddr

WriteEdge(awvalid, wvalid, bready) ==
  /\ slave' = SlaveEdge(awvalid, wvalid, bready)
  /\ slv_reg' = IF wvalid THEN [slv_reg EXCEPT ![Written(awvalid)] = write.data] ELSE slv_reg
  /\ offer' = [addr     |-> offer.addr /\ ~(awvalid /\ slave.axi_awready),
               data     |-> offer.data /\ ~(wvalid /\ slave.axi_wready),
               addrHeld |-> awvalid /\ ~slave.axi_awready,
               dataHeld |-> wvalid /\ ~slave.axi_wready]
  /\ owed' = IF slave.axi_bvalid /\ bready THEN owed - 1 ELSE owed
  /\ UNCHANGED <<write, shadow>>

Takes(arvalid) == arvalid /\ reader.axi_arready
Gives(rready)  == reader.axi_rvalid /\ rready

\* Mutated: addresses are admitted while data is waiting to be taken.
ReaderEdgeEager(arvalid, rready) ==
  CASE Takes(arvalid) -> [reader EXCEPT !.axi_araddr = asked[Len(asked)],
                                        !.axi_rvalid = TRUE, !.state_read = "Rdata"]
    [] ~Takes(arvalid) /\ Gives(rready) -> [reader EXCEPT !.axi_rvalid = FALSE, !.state_read = "Raddr"]
    [] OTHER -> [reader EXCEPT !.axi_arready = TRUE,
                               !.state_read = IF @ = "Idle" THEN "Raddr" ELSE @]

\* The read state machine: one address, then its data, then the next address.
ReaderEdge(arvalid, rready) ==
  CASE reader.state_read = "Idle" ->
         [reader EXCEPT !.axi_arready = TRUE, !.state_read = "Raddr"]
    [] reader.state_read = "Raddr" /\ Takes(arvalid) ->
         [reader EXCEPT !.axi_araddr = asked[Len(asked)], !.axi_rvalid = TRUE,
                        !.axi_arready = FALSE, !.state_read = "Rdata"]
    [] reader.state_read = "Rdata" /\ Gives(rready) ->
         [reader EXCEPT !.axi_rvalid = FALSE, !.axi_arready = TRUE, !.state_read = "Raddr"]
    [] OTHER -> reader

ReadEdge(arvalid, rready) ==
  /\ reader' = ReaderEdge(arvalid, rready)
  /\ asked' = IF Gives(rready) THEN Tail(asked) ELSE asked
  /\ ask' = [addr |-> ask.addr /\ ~Takes(arvalid), held |-> arvalid /\ ~reader.axi_arready]

\* S_AXI_RDATA: two registers are read, the other two are the network's outputs
\* of this moment.
RData(digit, done) ==
  CASE reader.axi_araddr = 1         -> digit
    [] reader.axi_araddr = 2         -> done
    [] reader.axi_araddr \notin {1, 2} -> slv_reg[reader.axi_araddr]

\* What the protocol lets the master do on an edge.
MayOffer(awvalid, wvalid, bready) ==
  /\ awvalid => offer.addr
  /\ wvalid => offer.data
  /\ offer.addrHeld => awvalid
  /\ offer.dataHeld => wvalid
  /\ wvalid /\ ~DataFirst => awvalid \/ ~offer.addr
  /\ owed = 2 => bready
MayAsk(arvalid) == (arvalid => ask.addr) /\ (ask.held => arvalid)

\* One edge of the clock of both channels.
Clock ==
  /\ \E awvalid, wvalid, bready \in BOOLEAN :
       MayOffer(awvalid, wvalid, bready) /\ WriteEdge(awvalid, wvalid, bready)
  /\ \E arvalid, rready \in BOOLEAN : MayAsk(arvalid) /\ ReadEdge(arvalid, rready)

Next == Clock \/ \E r \in Registers : Ask(r) \/ \E d \in Data : Begin(r, d)

\* The clock runs, and the master does not withhold its signals for ever.
Willing == WriteEdge(offer.addr, offer.data, TRUE) /\ ReadEdge(ask.addr, TRUE)
Spec == Init /\ [][Next]_vars /\ WF_vars(Willing)

-----------------------------------------------------------------------------
\* A write reaches the register it names and no other, whichever channel is taken
\* first: between writes the registers hold what was written last.
RegistersAsWritten == ~Sending => slv_reg = shadow

\* Every write is answered once, and the answer to one write is not merged with or
\* lost under that to the next.
ResponsePaired ==
  slave.axi_bvalid <=> owed = (IF Sending THEN 2 ELSE 1)

\* While read data is offered it is that of the oldest read, whatever the master
\* asked for next and whatever it writes: the network's outputs of this moment, or
\* between writes the word written last to the register that was asked for.
ReadBack ==
  reader.axi_rvalid =>
    /\ asked # <<>>
    /\ \A digit, done \in Data :
         CASE Head(asked) = 1 -> RData(digit, done) = digit
           [] Head(asked) = 2 -> RData(digit, done) = done
           [] Head(asked) \notin {1, 2} ->
                ~Sending => RData(digit, done) = shadow[Head(asked)]

\* No write and no read is left waiting: the master's signals are taken.
Served == (Sending ~> ~Sending) /\ (ask.addr ~> ~ask.addr)

=============================================================================
