----------------------------- MODULE EchoServer -----------------------------
(***************************************************************************)
(* The firmware's TCP server, Vitis/echo.c: one receive buffer for all     *)
(* connections, filled by lwIP's receive callback with whatever piece of   *)
(* a request has arrived, and the two commands it recognises.  Boot is its *)
(* start-up and its LEDs.                                                  *)
(*                                                                         *)
(* A client opens a connection for one request, as the GUI does: a variant *)
(* command of three bytes or a detect frame of RxBufSize bytes.  A byte is *)
(* the pair of the connection it came from and its position in the         *)
(* request.  No pixel byte is a command byte: the GUI sends 128 times a    *)
(* brightness of at most 255, so a byte is 0, 128 or less than 128.  The   *)
(* driver is abstracted to its outcomes; module Driver has its steps.      *)
(***************************************************************************)
EXTENDS Boot, Integers, Sequences, FiniteSets, Functions

CONSTANTS
  Conns,      \* bound: the connections clients will ever open
  Variants,   \* the three sigmoid variants
  RxBufSize,  \* RX_BUF_SIZE, the length of a detect frame (1569)
  SndBuf,     \* TCP_SND_BUF, no byte of which is acknowledged in a request
  MaxSegment  \* bytes of one received segment at most

\* What may happen around the server: a client may connect while another is
\* connected; a client may close or die before its request is complete; lwIP may
\* pass several segments as one chain of pbufs; start-up and driver calls may fail;
\* lwIP may be out of memory when something is written.
\* The clients are the connections that will be opened.
Environment == [overlap: BOOLEAN, vanish: BOOLEAN, chained: BOOLEAN, faults: BOOLEAN,
                starved: BOOLEAN, clients: SUBSET Conns]

ASSUME EchoAssumption ==
  /\ RxBufSize \in Nat /\ RxBufSize > 3 /\ SndBuf \in Nat /\ MaxSegment \in Nat \ {0}
  /\ Environments \subseteq Environment
  /\ Variants \cap {"unassigned", "detect", "none", "broken", "failed"} = {}

\* "In this case, we assume that the payload is < TCP_SND_BUF" (echo.c): what one
\* connection is sent for one request fits, the result packet included.
ResultLen == 4
ASSUME RoomAssumption == SndBuf >= RxBufSize + ResultLen

VARIABLES
  rx,       \* rx_buf[0 .. rx_len - 1]
  conn,     \* each connection: new, open or closed
  request,  \* what its client asks for
  sent,     \* how many bytes of the request lwIP has handed over
  echoed,   \* the positions echoed back, in order
  results,  \* the result packets sent, each with where its digit came from
  fabric,   \* what the reconfigurable partition holds
  late,     \* variants of failed loads whose transfer may still go on and end
  stale     \* history: the buffer as the request's first byte found it
server == <<rx, conn, request, sent, echoed, results, fabric, late, stale>>
vars == <<server, boot>>

Codes    == Variants \cup {"unassigned"}  \* third byte of a variant command
Requests == Codes \cup {"detect"}
Bytes    == Conns \X (1 .. RxBufSize)

RequestLen(c) == IF request[c] = "detect" THEN RxBufSize ELSE 3
Value(b) ==
  CASE request[b[1]] = "detect" -> IF b[2] = 1 THEN "DA" ELSE "pixel"
    [] request[b[1]] # "detect" /\ b[2] = 1 -> "FA"
    [] request[b[1]] # "detect" /\ b[2] = 2 -> "CE"
    [] request[b[1]] # "detect" /\ b[2] = 3 -> request[b[1]]
Piece(c, first, last) == [k \in 1 .. last - first + 1 |-> <<c, first + k - 1>>]

\* A digit's source: the bytes the inference ran on and the logic that ran it.
Digit(frame, by) == [frame |-> frame, by |-> by]
NoDigit == Digit(<<>>, "failed")   \* the initial 0 of the variable digit, or what
                                   \* the register of a broken partition reads as

TypeOK ==
  /\ rx \in Seq(Bytes) /\ Len(rx) <= RxBufSize
  /\ conn \in [Conns -> {"new", "open", "closed"}]
  /\ request \in [Conns -> Requests]
  /\ sent \in [Conns -> 0 .. RxBufSize]
  /\ echoed \in [Conns -> Seq(1 .. RxBufSize)]
  /\ results \in [Conns -> Seq([frame: Seq(Bytes), by: Variants \cup {"none", "broken", "failed"}])]
  /\ fabric \in Variants \cup {"none", "broken"} /\ late \subseteq Variants
  /\ stale \in [Conns -> Seq(Bytes)]
  /\ BootTypeOK

Init ==
  /\ BootInit /\ rx = <<>>
  /\ conn = [c \in Conns |-> "new"] /\ request \in [Conns -> Requests]
  /\ \A c \in Conns \ env.clients : request[c] = "unassigned"
  /\ sent = [c \in Conns |-> 0]
  /\ echoed = [c \in Conns |-> <<>>] /\ results = [c \in Conns |-> <<>>]
  /\ fabric = "none" /\ late = {}
  /\ stale = [c \in Conns |-> <<>>]

-----------------------------------------------------------------------------
\* The parts of recv_callback.

\* Mutated: the code before its overflow fix, which left rx_len where it was.
CollectStuck(piece) == IF Len(rx) + Len(piece) <= RxBufSize THEN rx \o piece ELSE rx

\* Copy the payload behind what is buffered; what would overrun clears the buffer
\* and is itself dropped.
Collect(piece) == IF Len(rx) + Len(piece) <= RxBufSize THEN rx \o piece ELSE <<>>

\* rx_len = 0 after a command; mutated: one byte too few is dropped.
LeavesOne(b) == SubSeq(b, 1, 1)
Consumed(b) == <<>>

IsVariant(b) == Len(b) >= 2 /\ Value(b[1]) = "FA" /\ Value(b[2]) = "CE"
IsDetect(b)  == Len(b) >= 1 /\ Value(b[1]) = "DA"
VariantComplete(b) == IsVariant(b) /\ Len(b) >= 3

\* Mutated: the command byte is not counted.
DetectCompleteEarly(b) == IsDetect(b) /\ Len(b) >= RxBufSize - 1

DetectComplete(b)  == IsDetect(b) /\ Len(b) >= RxBufSize

\* The server's LEDs, on the copy that echo.c has of what is lit.
RGB1_Blue == RGB_Write("echo.c", Show(RGB_State["echo.c"], "LD4", "Blue"))
RGB2_GreenThenBlue ==
  RGB_Write("echo.c", Show(Show(RGB_State["echo.c"], "LD5", "Green"), "LD5", "Blue"))

\* Mutated: the code is not looked up; a loaded partition is kept.
LoadVariantUnchecked(v) == fabric' = v /\ RGB1_Blue /\ UNCHANGED late
LoadVariantOnce(v) ==
  IF v \in Variants /\ fabric = "none"
  THEN fabric' = v /\ RGB1_Blue /\ UNCHANGED late
  ELSE UNCHANGED <<fabric, late, lights>>

\* LoadDNN.  A failure may come before anything was written to the partition or
\* after part of it was, and its transfer may go on (module Driver); while one does,
\* a later load may take its end for its own.  An engine that was not initialised
\* does nothing.
LoadVariant(v) ==
  \/ /\ v \in Variants /\ "pcap" \in usable
     /\ IF late = {}
        THEN fabric' = v /\ UNCHANGED late
        ELSE fabric' \in late \cup {v, "broken"} /\ late' \in SUBSET (late \cup {v})
     /\ RGB1_Blue
  \/ /\ v \in Variants /\ env.faults
     /\ fabric' \in {fabric} \cup (IF "pcap" \in usable THEN {"broken"} ELSE {})
     /\ late' \in {late} \cup (IF "pcap" \in usable THEN {late \cup {v}} ELSE {})
     /\ UNCHANGED lights
  \/ v \notin Variants /\ UNCHANGED <<fabric, late, lights>>

\* The PCAP ends a transfer that was given up on.  Nobody looks.
LateLoad ==
  /\ \E v \in late : fabric' = v /\ late' = late \ {v}
  /\ UNCHANGED <<rx, conn, request, sent, echoed, results, stale, boot>>

\* Use_DigitRecognitionDNN on the collected frame.  Its failure is only printed.
Detect(b, digit) ==
  \/ digit = Digit(b, fabric) /\ "dma" \in usable
  \/ digit = NoDigit /\ env.faults

\* tcp_write of the payload and of the result packet, when there is room.
Room(echo, res) == SndBuf - Len(echo) - ResultLen * Len(res)

\* Mutated: only the first segment is echoed.
EchoFirst(c, n) ==
  IF Room(echoed[c], results[c]) > n /\ echoed[c] = <<>>
  THEN [k \in 1 .. n |-> sent[c] + k]
  ELSE echoed[c]

Echo(c, n) ==
  IF Room(echoed[c], results[c]) > n
  THEN echoed[c] \o [k \in 1 .. n |-> sent[c] + k]
  ELSE echoed[c]

Answer(c, echo, digit) ==
  IF Room(echo, results[c]) >= ResultLen
  THEN Append(results[c], digit)
  ELSE results[c]

\* It may still fail for want of memory.  Nobody looks at its error.
Written(old, new) == IF env.starved THEN {old, new} ELSE {new}

-----------------------------------------------------------------------------
\* One segment, or a chain of two, has arrived on c.  The callback reads the
\* first pbuf only; the other is freed with it unread.
Recv(c, n, unread) ==
  LET b == Collect(Piece(c, sent[c] + 1, sent[c] + n))
  IN /\ Dispatching /\ conn[c] = "open" /\ sent[c] + n + unread <= RequestLen(c)
     /\ sent' = [sent EXCEPT ![c] = @ + n + unread]
     /\ \E echo \in Written(echoed[c], Echo(c, n)) : echoed' = [echoed EXCEPT ![c] = echo]
     /\ \/ /\ VariantComplete(b)
           /\ LoadVariant(Value(b[3]))
           /\ rx' = Consumed(b) /\ UNCHANGED results
        \/ /\ DetectComplete(b)
           /\ \E digit \in {Digit(b, fabric), NoDigit} :
                /\ Detect(b, digit)
                /\ \E answer \in Written(results[c], Answer(c, echoed'[c], digit)) :
                     results' = [results EXCEPT ![c] = answer]
           /\ RGB2_GreenThenBlue
           /\ rx' = Consumed(b) /\ UNCHANGED <<fabric, late>>
        \/ /\ ~VariantComplete(b) /\ ~DetectComplete(b)
           /\ rx' = b /\ UNCHANGED <<results, fabric, late, lights>>
     /\ stale' = [stale EXCEPT ![c] = IF sent[c] = 0 THEN rx ELSE @]
     /\ UNCHANGED <<conn, request, env, phase, usable, listening>>

Receive == \E c \in Conns, n \in 1 .. MaxSegment :
             \E unread \in (IF env.chained THEN 0 .. MaxSegment ELSE {0}) : Recv(c, n, unread)

\* accept_callback.
Accept(c) ==
  /\ Dispatching /\ listening
  /\ c \in env.clients /\ conn[c] = "new" /\ (env.overlap \/ \A d \in Conns : conn[d] # "open")
  /\ conn' = [conn EXCEPT ![c] = "open"]
  /\ UNCHANGED <<rx, request, sent, echoed, results, fabric, late, stale, boot>>

\* The client's FIN: recv_callback with no pbuf.  The buffer is left as it is.
Close(c) ==
  /\ Dispatching /\ conn[c] = "open" /\ (env.vanish \/ sent[c] = RequestLen(c))
  /\ conn' = [conn EXCEPT ![c] = "closed"]
  /\ UNCHANGED <<rx, request, sent, echoed, results, fabric, late, stale, boot>>

Next ==
  \/ Start /\ UNCHANGED server
  \/ Receive \/ LateLoad
  \/ \E c \in Conns : Accept(c) \/ Close(c)

Spec == Init /\ [][Next]_vars

-----------------------------------------------------------------------------
Whole(c) == Piece(c, 1, RequestLen(c))
Complete(c) == sent[c] = RequestLen(c)

OneByOne == ~env.overlap /\ ~env.chained       \* no two clients at a time
Polite   == OneByOne /\ ~env.vanish            \* and every request is completed

\* Clients that wait their turn and send whole requests get one answer each, and
\* that to their own frame or to none, unless it could not be written; nobody else is
\* sent a result.
OwnAnswer ==
  Polite => \A c \in Conns :
    IF request[c] = "detect" /\ Complete(c)
    THEN \/ Len(results[c]) = 1 /\ results[c][1].frame \in {Whole(c), NoDigit.frame}
         \/ env.starved /\ results[c] = <<>>
    ELSE results[c] = <<>>

\* Whatever the clients and the network do, no byte received goes into two
\* inferences: a frame is consumed before the next one is collected.
NoByteTwice ==
  \A c, d \in Conns : \A i \in DOMAIN results[c], j \in DOMAIN results[d] :
    <<c, i>> # <<d, j>> => Range(results[c][i].frame) \cap Range(results[d][j].frame) = {}

\* The colours an LED shows.
Lit(led) == {colour \in Colours : <<led, colour>> \in gpio}

\* What the LEDs of a running board still tell, whichever of driver and start-up
\* failed, and although the helpers do not leave the other LED alone (README.md,
\* RGB_driver.h): echo.c's first write puts out what main.c had lit on it.  LED 2 is
\* blue from the first inference on, whose answer is sent unless lwIP is out of memory;
\* before, it is red only while LED 1 is still green.  LED 1 is never blue before a
\* variant was written; with a driver that works it is blue if the board holds one, and if
\* it holds none, green until the first inference and dark from then on.
LedsTell ==
  phase = "loop" =>
    LET answered == \E c \in Conns : results[c] # <<>>
    IN /\ <<Lit("LD4"), Lit("LD5")>> \in {<<{"Green"}, {"Red"}>>, <<{"Blue"}, {}>>,
                                          <<{}, {"Blue"}>>, <<{"Blue"}, {"Blue"}>>}
       /\ answered => Lit("LD5") = {"Blue"}
       /\ Lit("LD5") = {"Blue"} /\ ~env.starved => answered
       /\ Lit("LD4") = {"Blue"} => fabric # "none" /\ listening /\ "pcap" \in usable
       /\ fabric \in Variants /\ ~env.faults => Lit("LD4") = {"Blue"}

\* The echo of a whole variant command means that the variant is loaded (what the
\* GUI takes it for) at the moment it is written.
EchoedLoaded(c) ==
  request[c] \in Variants /\ echoed'[c] = <<1, 2, 3>> /\ echoed[c] # echoed'[c]
    => fabric' = request[c]
EchoMeansLoaded == [][\A c \in Conns : EchoedLoaded(c)]_vars

\* The same where the driver does not fail and clients are polite.
SoundEchoMeansLoaded == [][Polite /\ ~env.faults => \A c \in Conns : EchoedLoaded(c)]_vars

\* A complete detect frame that finds bytes of a dead request in front of it may
\* be lost, or be answered with pixels that are not its own, but it leaves fewer
\* of them behind than it found (no more, when it was answered, or the answer could
\* not be written): the buffer works itself free and no such prefix can wedge the
\* server.  The exception is a dead variant command, which takes the frame's first
\* byte for its code and leaves a longer rest of the frame behind; the frames after
\* that one shrink it.
StaleShrinks ==
  [][OneByOne => \A c \in Conns :
       request[c] = "detect" /\ sent[c] < RxBufSize /\ sent'[c] = RxBufSize
         => \/ Len(rx') < Len(stale'[c])
            \/ Len(rx') <= Len(stale'[c]) /\ (Len(results'[c]) = 1 \/ env.starved)
            \/ IsVariant(stale'[c])]_vars

\* An overrun of the receive buffer costs one detect: when the clients only send
\* frames, no more complete ones go unanswered than were abandoned.
BadFrameCostsOne ==
  (\A c \in env.clients : request[c] = "detect")
    => Cardinality({c \in Conns : Complete(c) /\ results[c] = <<>>})
         <= Cardinality({c \in Conns : conn[c] = "closed" /\ ~Complete(c)})

-----------------------------------------------------------------------------
\* With whole requests one after the other, a driver that works and memory to write in,
\* the server is the abstract one.
Comparable == Polite /\ ~env.faults /\ ~env.starved
Abstract == INSTANCE RequestServer WITH
  fabric <- IF Comparable THEN fabric ELSE "none",
  answer <- [c \in Conns |->
               CASE ~Comparable -> "none"
                 [] Comparable /\ request[c] = "detect"
                      -> IF results[c] = <<>> THEN "none" ELSE results[c][1].by
                 [] Comparable /\ request[c] # "detect"
                      -> IF echoed[c] = <<1, 2, 3>> THEN "echoed" ELSE "none"]
ImplementsRequestServer == Abstract!Spec

=============================================================================
