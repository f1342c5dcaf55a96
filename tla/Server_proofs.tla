---------------------------- MODULE Server_proofs ----------------------------
(***************************************************************************)
(* The TCP server and the desktop program, for any number of connections,  *)
(* any length of a frame and any way of cutting requests into segments.    *)
(***************************************************************************)
EXTENDS Gui, SequenceTheorems, TLAPS

\* What has arrived of a request, and what has been echoed of it.
Delivered == {b \in Bytes : b[2] <= sent[b[1]]}
SentOK == \A c \in Conns :
  /\ sent[c] <= RequestLen(c) /\ Len(echoed[c]) <= sent[c]
  /\ conn[c] = "new" => sent[c] = 0
  /\ sent[c] = 0 => results[c] = <<>>

\* Bytes of a frame that was answered have left the buffer.
FramesOK ==
  /\ Range(rx) \subseteq Delivered
  /\ \A c \in Conns : \A k \in DOMAIN results[c] :
       Range(results[c][k].frame) \subseteq Delivered \ Range(rx)

\* What start-up has done so far.  No connection is accepted before its end.
BootOK ==
  /\ (\E c \in Conns : conn[c] # "new") => phase = "loop" /\ listening
  /\ late # {} \/ fabric # "none" => "pcap" \in usable /\ phase = "loop"
  /\ phase \in {"xemac_add", "start_application"} => RGB_State["main.c"] = {<<"LD5", "Red">>}
  /\ ~env.faults => /\ late = {} /\ fabric # "broken"
                    /\ phase # "DNN_init" => usable = Engines

\* What main.c had lit stays until echo.c first writes its own copy, which from then
\* on is what the LEDs show.
LedsOK ==
  LET own == RGB_State["echo.c"]
  IN /\ own \subseteq {<<"LD4", "Blue">>, <<"LD5", "Blue">>}
     /\ phase # "loop" => own = {}
     /\ phase = "loop" =>
          gpio = IF own = {} THEN {<<"LD4", "Green">>, <<"LD5", "Red">>} ELSE own
     /\ (\E c \in Conns : results[c] # <<>>) => <<"LD5", "Blue">> \in own
     /\ <<"LD5", "Blue">> \in own /\ ~env.starved => \E c \in Conns : results[c] # <<>>
     /\ <<"LD4", "Blue">> \in own => fabric # "none" /\ listening /\ "pcap" \in usable
     /\ fabric \in Variants /\ ~env.faults => <<"LD4", "Blue">> \in own

SafeInv == TypeOK /\ SentOK /\ FramesOK /\ NoByteTwice /\ BootOK /\ LedsOK

\* Between polite clients the buffer is empty; during a request it holds what has
\* arrived of it.
Asking(c) == conn[c] = "open" /\ ~Complete(c)
TurnOK ==
  Polite =>
    /\ \A c, d \in Conns : conn[c] = "open" /\ conn[d] = "open" => c = d
    /\ \A c \in Conns : conn[c] = "closed" => Complete(c)
    /\ \A c \in Conns : Asking(c) => rx = Piece(c, 1, sent[c])
    /\ (\A c \in Conns : ~Asking(c)) => rx = <<>>
    /\ \A c \in Conns :
         request[c] # "detect" /\ ~env.starved => echoed[c] = [k \in 1 .. sent[c] |-> k]

\* A frame that began behind the bytes of a dead request: either they are still in
\* front of it, or its first p bytes have left the buffer with them, as a frame
\* that was answered (if that could be written) or because the next segment did not fit.
Behind(c) == rx = stale[c] \o Piece(c, 1, sent[c]) /\ results[c] = <<>>
Freed(c)  == \E p \in 1 .. sent[c] :
               /\ rx = Piece(c, p + 1, sent[c])
               /\ \/ Len(stale[c]) + p = RxBufSize /\ (Len(results[c]) = 1 \/ env.starved)
                  \/ Len(stale[c]) + p > RxBufSize
StaleOK ==
  /\ ~VariantComplete(rx) /\ ~DetectComplete(rx)
  /\ OneByOne =>
    /\ \A c, d \in Conns : conn[c] = "open" /\ conn[d] = "open" => c = d
    /\ \A c \in Conns :
       conn[c] = "open" /\ request[c] = "detect" /\ sent[c] # 0 /\ ~IsVariant(stale[c])
         => Behind(c) \/ Freed(c)

-----------------------------------------------------------------------------
\* Pieces of a request, and what collecting one makes of the buffer.
LEMMA FunctionIsSeq ==
  ASSUME NEW S, NEW m \in Nat, NEW f \in [1 .. m -> S]
  PROVE  f \in Seq(S) /\ Len(f) = m
OBVIOUS

LEMMA PieceProperties ==
  ASSUME NEW c \in Conns, NEW a \in Nat \ {0}, NEW z \in Nat, a - 1 <= z, z <= RxBufSize
  PROVE  /\ Piece(c, a, z) \in Seq(Bytes) /\ Len(Piece(c, a, z)) = z - a + 1
         /\ \A k \in 1 .. z - a + 1 : Piece(c, a, z)[k] = <<c, a + k - 1>>
<1>1. z - a + 1 \in Nat /\ RxBufSize \in Nat
  BY EchoAssumption
<1>2. \A k \in 1 .. z - a + 1 : a + k - 1 \in 1 .. RxBufSize
  BY <1>1
<1>3. \A k \in 1 .. z - a + 1 : <<c, a + k - 1>> \in Bytes
  BY <1>2 DEF Bytes
<1>4. Piece(c, a, z) = [k \in 1 .. z - a + 1 |-> <<c, a + k - 1>>]
  BY DEF Piece
<1>5. Piece(c, a, z) \in [1 .. z - a + 1 -> Bytes]
  BY <1>3, <1>4
<1>6. Piece(c, a, z) \in Seq(Bytes) /\ Len(Piece(c, a, z)) = z - a + 1
  BY <1>1, <1>5
<1> QED  BY <1>4, <1>6

LEMMA PieceJoin ==
  ASSUME NEW c \in Conns, NEW a \in Nat \ {0}, NEW y \in Nat, NEW z \in Nat,
         a - 1 <= y, y <= z, z <= RxBufSize
  PROVE  Piece(c, a, y) \o Piece(c, y + 1, z) = Piece(c, a, z)
<1> DEFINE l == Piece(c, a, y)
           r == Piece(c, y + 1, z)
           w == Piece(c, a, z)
<1>1. /\ l \in Seq(Bytes) /\ Len(l) = y - a + 1
      /\ \A k \in 1 .. y - a + 1 : l[k] = <<c, a + k - 1>>
  <2>1. y <= RxBufSize
    BY EchoAssumption
  <2> QED  BY <2>1, PieceProperties
<1>2. /\ r \in Seq(Bytes) /\ Len(r) = z - y
      /\ \A k \in 1 .. z - y : r[k] = <<c, y + 1 + k - 1>>
  <2>1. y + 1 \in Nat \ {0} /\ (y + 1) - 1 <= z /\ z - (y + 1) + 1 = z - y
    OBVIOUS
  <2> QED  BY <2>1, PieceProperties
<1>3. /\ w \in Seq(Bytes) /\ Len(w) = z - a + 1
      /\ \A k \in 1 .. z - a + 1 : w[k] = <<c, a + k - 1>>
  <2>1. a - 1 <= z
    OBVIOUS
  <2> QED  BY <2>1, PieceProperties
<1> HIDE DEF l, r, w
<1>4. /\ l \o r \in Seq(Bytes) /\ Len(l \o r) = z - a + 1
      /\ \A k \in 1 .. Len(l) + Len(r) :
           (l \o r)[k] = IF k <= Len(l) THEN l[k] ELSE r[k - Len(l)]
  <2>1. l \in Seq(Bytes) /\ r \in Seq(Bytes)
    BY <1>1, <1>2
  <2>2. Len(l) + Len(r) = z - a + 1
    BY <1>1, <1>2
  <2> QED  BY ONLY <2>1, <2>2, ConcatProperties
<1>5. \A k \in 1 .. z - a + 1 : (l \o r)[k] = w[k]
  <2> SUFFICES ASSUME NEW k \in 1 .. z - a + 1 PROVE (l \o r)[k] = w[k]
    OBVIOUS
  <2>1. k \in 1 .. Len(l) + Len(r)
    BY <1>1, <1>2
  <2>2. (l \o r)[k] = IF k <= Len(l) THEN l[k] ELSE r[k - Len(l)]
    BY <1>4, <2>1
  <2>3. CASE k <= Len(l)
    <3>1. k \in 1 .. y - a + 1
      BY <1>1, <2>3
    <3>2. l[k] = <<c, a + k - 1>> /\ w[k] = <<c, a + k - 1>>
      BY <1>1, <1>3, <3>1
    <3> QED  BY <2>2, <2>3, <3>2
  <2>4. CASE ~(k <= Len(l))
    <3>1. k - Len(l) \in 1 .. z - y
      BY <1>1, <2>4
    <3>2. y + 1 + (k - Len(l)) - 1 = a + k - 1
      BY <1>1
    <3> QED  BY <1>2, <1>3, <2>2, <2>4, <3>1, <3>2
  <2> QED  BY <2>3, <2>4
<1>6. l \o r = w
  BY <1>3, <1>4, <1>5, SeqEqual
<1> QED  BY <1>6 DEF l, r, w

LEMMA RangeOfConcat ==
  ASSUME NEW S, NEW p \in Seq(S), NEW q \in Seq(S)
  PROVE  Range(p \o q) \subseteq Range(p) \cup Range(q)
<1> SUFFICES ASSUME NEW x \in Range(p \o q) PROVE x \in Range(p) \cup Range(q)
  OBVIOUS
<1>1. p \o q \in Seq(S) /\ Len(p \o q) = Len(p) + Len(q) /\ Len(p) \in Nat /\ Len(q) \in Nat
      /\ DOMAIN p = 1 .. Len(p) /\ DOMAIN q = 1 .. Len(q)
  BY ConcatProperties, LenProperties
<1>2. DOMAIN (p \o q) = 1 .. Len(p) + Len(q)
  BY <1>1, LenProperties
<1>3. PICK k \in 1 .. Len(p) + Len(q) : x = (p \o q)[k]
  BY <1>2 DEF Range
<1>4. x = IF k <= Len(p) THEN p[k] ELSE q[k - Len(p)]
  BY <1>3, ConcatProperties
<1>5. CASE k <= Len(p)
  BY <1>1, <1>4, <1>5 DEF Range
<1>6. CASE ~(k <= Len(p))
  <2>1. k - Len(p) \in 1 .. Len(q)
    BY <1>1, <1>6
  <2> QED  BY <1>1, <1>4, <1>6, <2>1 DEF Range
<1> QED  BY <1>5, <1>6

-----------------------------------------------------------------------------
\* What the callback has to do with.
Arrived(c, n, unread) ==
  /\ c \in Conns /\ n \in 1 .. MaxSegment /\ unread \in 0 .. MaxSegment
  /\ ~env.chained => unread = 0
  /\ Recv(c, n, unread)

\* The part of the request that one callback reads, and the buffer it makes of it.
Segment(c, n) == Piece(c, sent[c] + 1, sent[c] + n)
Buffer(c, n)  == Collect(Segment(c, n))

LEMMA RequestLenTyped ==
  ASSUME TypeOK, NEW c \in Conns
  PROVE  /\ RequestLen(c) \in Nat /\ RequestLen(c) <= RxBufSize /\ RequestLen(c) >= 3
         /\ request[c] = "detect" => RequestLen(c) = RxBufSize
         /\ request[c] # "detect" => RequestLen(c) = 3
BY EchoAssumption DEF RequestLen

LEMMA BufferProperties ==
  ASSUME TypeOK, NEW c, NEW n, NEW unread, Arrived(c, n, unread)
  PROVE  /\ c \in Conns /\ n \in Nat \ {0} /\ unread \in Nat /\ sent[c] \in Nat
         /\ sent[c] + n + unread <= RequestLen(c) /\ sent[c] + n <= RxBufSize
         /\ Segment(c, n) \in Seq(Bytes) /\ Len(Segment(c, n)) = n
         /\ \A k \in 1 .. n : Segment(c, n)[k] = <<c, sent[c] + k>>
         /\ Buffer(c, n) \in Seq(Bytes) /\ Len(Buffer(c, n)) <= RxBufSize
         /\ Range(Buffer(c, n)) \subseteq Range(rx) \cup Range(Segment(c, n))
<1>1. /\ c \in Conns /\ n \in Nat \ {0} /\ unread \in Nat /\ sent[c] \in Nat
      /\ sent[c] + n + unread <= RequestLen(c) /\ rx \in Seq(Bytes)
  BY EchoAssumption DEF Arrived, Recv, TypeOK
<1>2. RequestLen(c) \in Nat /\ RequestLen(c) <= RxBufSize /\ RxBufSize \in Nat
  BY <1>1, RequestLenTyped, EchoAssumption
<1>3. sent[c] + n <= RxBufSize
  BY <1>1, <1>2
<1>4. /\ Segment(c, n) \in Seq(Bytes) /\ Len(Segment(c, n)) = n
      /\ \A k \in 1 .. n : Segment(c, n)[k] = <<c, sent[c] + k>>
  <2> DEFINE a == sent[c] + 1
             z == sent[c] + n
  <2>1. a \in Nat \ {0} /\ z \in Nat /\ a - 1 <= z /\ z <= RxBufSize /\ z - a + 1 = n
    BY <1>1, <1>3
  <2>4. \A k \in 1 .. n : a + k - 1 = sent[c] + k
    BY <1>1
  <2>2. Segment(c, n) = Piece(c, a, z)
    BY DEF Segment
  <2> HIDE DEF a, z
  <2>3. /\ Piece(c, a, z) \in Seq(Bytes) /\ Len(Piece(c, a, z)) = z - a + 1
        /\ \A k \in 1 .. z - a + 1 : Piece(c, a, z)[k] = <<c, a + k - 1>>
    BY <1>1, <2>1, PieceProperties
  <2> QED  BY <2>1, <2>2, <2>3, <2>4
<1>5. CASE Len(rx) + Len(Segment(c, n)) <= RxBufSize
  <2>1. Buffer(c, n) = rx \o Segment(c, n)
    BY <1>5 DEF Buffer, Collect
  <2>2. rx \o Segment(c, n) \in Seq(Bytes)
        /\ Len(rx \o Segment(c, n)) = Len(rx) + Len(Segment(c, n))
        /\ Range(rx \o Segment(c, n)) \subseteq Range(rx) \cup Range(Segment(c, n))
    BY <1>1, <1>4, ConcatProperties, RangeOfConcat
  <2> QED  BY <1>1, <1>3, <1>4, <1>5, <2>1, <2>2
<1>6. CASE ~(Len(rx) + Len(Segment(c, n)) <= RxBufSize)
  <2>1. Buffer(c, n) = <<>>
    BY <1>6 DEF Buffer, Collect
  <2>2. <<>> \in Seq(Bytes) /\ Len(<<>>) = 0 /\ Range(<<>>) = {}
    BY EmptySeq DEF Range
  <2> QED  BY <1>1, <1>2, <1>3, <1>4, <2>1, <2>2
<1> QED  BY <1>5, <1>6

\* A connection that was sent no result yet has room for its echo and for one.
Numbers(c, n) == [k \in 1 .. n |-> sent[c] + k]

LEMMA EchoProperties ==
  ASSUME TypeOK, SentOK, NEW c, NEW n, NEW unread, Arrived(c, n, unread)
  PROVE  /\ echoed' \in [Conns -> Seq(1 .. RxBufSize)] /\ Len(echoed'[c]) <= sent[c] + n
         /\ \A d \in Conns \ {c} : echoed'[d] = echoed[d]
         /\ echoed'[c] # echoed[c] => echoed'[c] = echoed[c] \o Numbers(c, n)
         /\ results[c] = <<>> /\ ~env.starved => echoed'[c] = echoed[c] \o Numbers(c, n)
<1>1. /\ c \in Conns /\ n \in Nat \ {0} /\ sent[c] \in Nat /\ sent[c] + n <= RxBufSize
      /\ echoed[c] \in Seq(1 .. RxBufSize) /\ Len(echoed[c]) \in Nat /\ Len(echoed[c]) <= sent[c]
      /\ echoed \in [Conns -> Seq(1 .. RxBufSize)]
  <2>1. /\ c \in Conns /\ n \in Nat \ {0} /\ sent[c] \in Nat /\ sent[c] + n <= RxBufSize
    BY BufferProperties
  <2>2. echoed[c] \in Seq(1 .. RxBufSize) /\ echoed \in [Conns -> Seq(1 .. RxBufSize)]
    BY <2>1 DEF TypeOK
  <2>3. Len(echoed[c]) \in Nat
    BY <2>2, LenProperties
  <2> QED  BY <2>1, <2>2, <2>3 DEF SentOK
<1>2. Numbers(c, n) \in Seq(1 .. RxBufSize) /\ Len(Numbers(c, n)) = n
  <2>1. \A k \in 1 .. n : sent[c] + k \in 1 .. RxBufSize
    BY <1>1, EchoAssumption
  <2>2. Numbers(c, n) \in [1 .. n -> 1 .. RxBufSize]
    BY <2>1 DEF Numbers
  <2>3. n \in Nat
    BY <1>1
  <2> QED  BY <2>2, <2>3, FunctionIsSeq
<1>3. /\ echoed[c] \o Numbers(c, n) \in Seq(1 .. RxBufSize)
      /\ Len(echoed[c] \o Numbers(c, n)) = Len(echoed[c]) + n
  BY <1>1, <1>2, ConcatProperties
<1>4. ASSUME results[c] = <<>> PROVE Echo(c, n) = echoed[c] \o Numbers(c, n)
  <2>1. SndBuf \in Nat /\ RxBufSize \in Nat /\ SndBuf >= RxBufSize + 4
    BY EchoAssumption, RoomAssumption DEF ResultLen
  <2>2. Len(results[c]) = 0
    BY <1>4
  <2>3. Room(echoed[c], results[c]) = SndBuf - Len(echoed[c])
    BY <1>1, <2>1, <2>2 DEF Room, ResultLen
  <2>4. Room(echoed[c], results[c]) > n
    BY <1>1, <2>1, <2>3
  <2> QED  BY <2>4 DEF Echo, Numbers
<1>5. Echo(c, n) \in {echoed[c], echoed[c] \o Numbers(c, n)}
  BY DEF Echo, Numbers
<1>6. PICK e \in {echoed[c], echoed[c] \o Numbers(c, n)} :
        /\ echoed' = [echoed EXCEPT ![c] = e]
        /\ results[c] = <<>> /\ ~env.starved => e = echoed[c] \o Numbers(c, n)
  <2>1. PICK e \in Written(echoed[c], Echo(c, n)) : echoed' = [echoed EXCEPT ![c] = e]
    BY DEF Arrived, Recv
  <2>2. e \in {echoed[c], Echo(c, n)} /\ (~env.starved => e = Echo(c, n))
    BY <2>1 DEF Written
  <2> QED  BY <1>4, <1>5, <2>1, <2>2
<1>7. e \in Seq(1 .. RxBufSize) /\ Len(e) <= sent[c] + n
  <2>1. CASE e = echoed[c]
    BY <1>1, <2>1
  <2>2. CASE e = echoed[c] \o Numbers(c, n)
    BY <1>1, <1>3, <2>2
  <2> QED  BY <1>6, <2>1, <2>2
<1>8. /\ echoed' \in [Conns -> Seq(1 .. RxBufSize)] /\ echoed'[c] = e
      /\ \A d \in Conns \ {c} : echoed'[d] = echoed[d]
  BY <1>1, <1>6, <1>7
<1> QED  BY <1>6, <1>7, <1>8

-----------------------------------------------------------------------------
\* A colour helper changes the caller's copy and the register.
LEMMA WriteProperties ==
  ASSUME BootTypeOK, NEW file \in Files, NEW lit \in SUBSET (LEDs \X Colours),
         RGB_Write(file, lit)
  PROVE  /\ RGB_State' \in [Files -> SUBSET (LEDs \X Colours)] /\ gpio' \subseteq LEDs \X Colours
         /\ RGB_State'[file] = lit /\ gpio' = lit
         /\ \A other \in Files \ {file} : RGB_State'[other] = RGB_State[other]
BY DEF BootTypeOK, RGB_Write

\* What the server's two uses of them light.
LEMMA ServerLights ==
  ASSUME BootTypeOK, RGB1_Blue \/ RGB2_GreenThenBlue
  PROVE  /\ RGB_State' \in [Files -> SUBSET (LEDs \X Colours)] /\ gpio' \subseteq LEDs \X Colours
         /\ RGB_State'["echo.c"] = gpio' /\ RGB_State'["main.c"] = RGB_State["main.c"]
         /\ RGB1_Blue =>
              gpio' = (RGB_State["echo.c"] \ ({"LD4"} \X Colours)) \cup {<<"LD4", "Blue">>}
         /\ RGB2_GreenThenBlue =>
              gpio' = (RGB_State["echo.c"] \ ({"LD5"} \X Colours)) \cup {<<"LD5", "Blue">>}
<1>1. PICK own \in SUBSET (LEDs \X Colours) : own = RGB_State["echo.c"]
  BY DEF BootTypeOK, Files
<1>2. /\ Show(own, "LD4", "Blue") = (own \ ({"LD4"} \X Colours)) \cup {<<"LD4", "Blue">>}
      /\ Show(Show(own, "LD5", "Green"), "LD5", "Blue")
           = (own \ ({"LD5"} \X Colours)) \cup {<<"LD5", "Blue">>}
  BY DEF Show, Off, LEDs, Colours
<1>3. /\ Show(own, "LD4", "Blue") \in SUBSET (LEDs \X Colours)
      /\ Show(Show(own, "LD5", "Green"), "LD5", "Blue") \in SUBSET (LEDs \X Colours)
  BY <1>2 DEF LEDs, Colours
<1>4. "echo.c" \in Files /\ "main.c" \in Files \ {"echo.c"}
  BY DEF Files
<1>5. PICK lit \in SUBSET (LEDs \X Colours) : RGB_Write("echo.c", lit)
  BY <1>1, <1>3 DEF RGB1_Blue, RGB2_GreenThenBlue
<1>6. /\ RGB1_Blue => gpio' = Show(own, "LD4", "Blue")
      /\ RGB2_GreenThenBlue => gpio' = Show(Show(own, "LD5", "Green"), "LD5", "Blue")
  BY <1>1 DEF RGB1_Blue, RGB2_GreenThenBlue, RGB_Write
<1>7. /\ RGB_State' \in [Files -> SUBSET (LEDs \X Colours)] /\ gpio' \subseteq LEDs \X Colours
      /\ RGB_State'["echo.c"] = gpio' /\ RGB_State'["main.c"] = RGB_State["main.c"]
  BY <1>4, <1>5, WriteProperties
<1> QED  BY <1>1, <1>2, <1>6, <1>7

Answers == [frame: Seq(Bytes), by: Variants \cup {"none", "broken", "failed"}]

\* The three ways the callback may go.
Loaded(c, n) ==
  /\ VariantComplete(Buffer(c, n)) /\ LoadVariant(Value(Buffer(c, n)[3]))
  /\ rx' = <<>> /\ results' = results
Inferred(c, n) ==
  /\ DetectComplete(Buffer(c, n)) /\ rx' = <<>> /\ fabric' = fabric /\ late' = late
  /\ RGB2_GreenThenBlue
  /\ \E digit \in {Digit(Buffer(c, n), fabric), NoDigit} :
       /\ Detect(Buffer(c, n), digit)
       /\ \E answer \in Written(results[c], Answer(c, echoed'[c], digit)) :
            results' = [results EXCEPT ![c] = answer]
Waited(c, n) ==
  /\ ~VariantComplete(Buffer(c, n)) /\ ~DetectComplete(Buffer(c, n)) /\ rx' = Buffer(c, n)
  /\ results' = results /\ fabric' = fabric /\ late' = late /\ UNCHANGED lights

LEMMA RecvCases ==
  ASSUME NEW c, NEW n, NEW unread, Arrived(c, n, unread)
  PROVE  /\ Dispatching /\ conn[c] = "open"
         /\ sent' = [sent EXCEPT ![c] = @ + n + unread]
         /\ stale' = [stale EXCEPT ![c] = IF sent[c] = 0 THEN rx ELSE @]
         /\ UNCHANGED <<conn, request, env, phase, usable, listening>>
         /\ Loaded(c, n) \/ Inferred(c, n) \/ Waited(c, n)
BY DEF Arrived, Recv, Segment, Buffer, Consumed, Loaded, Inferred, Waited

\* What the client is sent of the digit: nothing, if there is neither room nor memory.
LEMMA InferredAnswers ==
  ASSUME TypeOK, SentOK, NEW c, NEW n, NEW unread, Arrived(c, n, unread), Inferred(c, n)
  PROVE  /\ c \in Conns /\ \A d \in Conns \ {c} : results'[d] = results[d]
         /\ results[c] # <<>> \/ ~env.starved => results'[c] # <<>>
         /\ \E digit \in {Digit(Buffer(c, n), fabric), NoDigit} :
              /\ Detect(Buffer(c, n), digit)
              /\ results' # results => results' = [results EXCEPT ![c] = Append(results[c], digit)]
              /\ results[c] = <<>> /\ ~env.starved => results'[c] = <<digit>>
              /\ results[c] = <<>> => results'[c] \in {<<>>, <<digit>>}
<1>1. /\ c \in Conns /\ n \in Nat \ {0} /\ sent[c] \in Nat /\ sent[c] + n <= RxBufSize
      /\ results \in [Conns -> Seq(Answers)]
  BY BufferProperties DEF TypeOK, Answers
<1>2. PICK digit \in {Digit(Buffer(c, n), fabric), NoDigit} :
        /\ Detect(Buffer(c, n), digit)
        /\ \E answer \in Written(results[c], Answer(c, echoed'[c], digit)) :
             results' = [results EXCEPT ![c] = answer]
  BY DEF Inferred
<1>3. PICK answer \in Written(results[c], Answer(c, echoed'[c], digit)) :
        results' = [results EXCEPT ![c] = answer]
  BY <1>2
<1>4. answer \in {results[c], Append(results[c], digit)}
  BY <1>3 DEF Written, Answer
<1>5. ASSUME results[c] = <<>>, ~env.starved PROVE answer = Append(results[c], digit)
  <2>1. SndBuf \in Nat /\ RxBufSize \in Nat /\ SndBuf >= RxBufSize + 4
    BY EchoAssumption, RoomAssumption DEF ResultLen
  <2>2. Len(results[c]) = 0
    BY <1>5
  <2>3. Len(echoed'[c]) \in Nat /\ Len(echoed'[c]) <= sent[c] + n
    BY <1>1, EchoProperties, LenProperties
  <2>4. Room(echoed'[c], results[c]) >= ResultLen
    BY <1>1, <2>1, <2>2, <2>3 DEF Room, ResultLen
  <2> QED  BY <1>3, <1>5, <2>4 DEF Written, Answer
<1>6. results'[c] = answer /\ \A d \in Conns \ {c} : results'[d] = results[d]
  BY <1>1, <1>3
<1>7. results[c] = <<>> => Append(results[c], digit) = <<digit>>
  OBVIOUS
<1>8. Append(results[c], digit) # <<>> /\ <<digit>> # <<>>
  BY <1>1
<1>9. results' # results => results' = [results EXCEPT ![c] = Append(results[c], digit)]
  BY <1>1, <1>3, <1>4
<1> QED  BY <1>1, <1>2, <1>4, <1>5, <1>6, <1>7, <1>8, <1>9

LEMMA ReceiveArrives ==
  ASSUME Receive PROVE \E c, n, unread : Arrived(c, n, unread)
<1>1. PICK c \in Conns, n \in 1 .. MaxSegment :
        \E unread \in (IF env.chained THEN 0 .. MaxSegment ELSE {0}) : Recv(c, n, unread)
  BY DEF Receive
<1>2. PICK unread \in (IF env.chained THEN 0 .. MaxSegment ELSE {0}) : Recv(c, n, unread)
  BY <1>1
<1>3. unread \in 0 .. MaxSegment /\ (~env.chained => unread = 0)
  BY <1>2, EchoAssumption
<1> QED  BY <1>1, <1>2, <1>3 DEF Arrived

\* LoadDNN keeps to the variants it is given.
LEMMA LoadVariantProperties ==
  ASSUME TypeOK, NEW w, LoadVariant(w)
  PROVE  /\ fabric' \in Variants \cup {"none", "broken"} /\ late' \in SUBSET Variants
         /\ \/ UNCHANGED lights
            \/ RGB1_Blue /\ "pcap" \in usable /\ fabric' \in Variants \cup {"broken"}
         /\ (fabric' = fabric /\ late' = late) \/ "pcap" \in usable
         /\ fabric' = fabric \/ fabric' \in Variants \cup {"broken"}
         /\ ~env.faults /\ late = {} /\ usable = Engines =>
              /\ late' = {}
              /\ w \in Variants => fabric' = w /\ RGB1_Blue
              /\ w \notin Variants => fabric' = fabric
<1>1. /\ fabric \in Variants \cup {"none", "broken"} /\ late \subseteq Variants
  BY DEF TypeOK
<1>2. CASE /\ w \in Variants /\ "pcap" \in usable /\ RGB1_Blue
           /\ IF late = {}
              THEN fabric' = w /\ UNCHANGED late
              ELSE fabric' \in late \cup {w, "broken"} /\ late' \in SUBSET (late \cup {w})
  BY <1>1, <1>2
<1>3. CASE /\ w \in Variants /\ env.faults
           /\ fabric' \in {fabric} \cup (IF "pcap" \in usable THEN {"broken"} ELSE {})
           /\ late' \in {late} \cup (IF "pcap" \in usable THEN {late \cup {w}} ELSE {})
           /\ UNCHANGED lights
  BY <1>1, <1>3
<1>4. CASE w \notin Variants /\ UNCHANGED <<fabric, late, lights>>
  BY <1>1, <1>4
<1> QED  BY <1>2, <1>3, <1>4 DEF LoadVariant

LEMMA ArrivedTypes ==
  ASSUME TypeOK, SentOK, NEW c, NEW n, NEW unread, Arrived(c, n, unread)
  PROVE  TypeOK'
<1>1. /\ c \in Conns /\ n \in Nat \ {0} /\ unread \in Nat /\ sent[c] \in Nat
      /\ sent[c] + n + unread <= RequestLen(c) /\ RequestLen(c) <= RxBufSize
      /\ RequestLen(c) \in Nat /\ RxBufSize \in Nat
      /\ Buffer(c, n) \in Seq(Bytes) /\ Len(Buffer(c, n)) <= RxBufSize
  BY BufferProperties, RequestLenTyped, EchoAssumption
<1>2. sent' \in [Conns -> 0 .. RxBufSize]
  <2>1. sent[c] + n + unread \in 0 .. RxBufSize
    BY <1>1
  <2>2. sent \in [Conns -> 0 .. RxBufSize]
    BY DEF TypeOK
  <2>3. sent' = [sent EXCEPT ![c] = sent[c] + n + unread]
    BY RecvCases
  <2> QED  BY ONLY <2>1, <2>2, <2>3
<1>3. echoed' \in [Conns -> Seq(1 .. RxBufSize)]
  BY EchoProperties
<1>4. stale' \in [Conns -> Seq(Bytes)]
  BY <1>1, RecvCases DEF TypeOK
<1>5. <<>> \in Seq(Bytes) /\ Len(<<>>) <= RxBufSize
  BY <1>1
<1>6. rx' \in Seq(Bytes) /\ Len(rx') <= RxBufSize
  BY <1>1, <1>5, RecvCases DEF Loaded, Inferred, Waited
<1>7. results' \in [Conns -> Seq(Answers)]
  <2>1. results \in [Conns -> Seq(Answers)]
    BY DEF TypeOK, Answers
  <2>2. CASE results' = results
    BY <2>1, <2>2
  <2>3. CASE Inferred(c, n)
    <3>1. PICK digit \in {Digit(Buffer(c, n), fabric), NoDigit} :
            results' # results => results' = [results EXCEPT ![c] = Append(results[c], digit)]
      BY <2>3, InferredAnswers
    <3>2. digit \in Answers
      <4>1. fabric \in Variants \cup {"none", "broken"}
        BY DEF TypeOK
      <4>2. Digit(Buffer(c, n), fabric) \in Answers
        BY <1>1, <4>1 DEF Digit, Answers
      <4>3. NoDigit \in Answers
        BY <1>5 DEF NoDigit, Digit, Answers
      <4> QED  BY <3>1, <4>2, <4>3
    <3>3. Append(results[c], digit) \in Seq(Answers)
      BY <1>1, <2>1, <3>2
    <3> QED  BY <2>1, <3>1, <3>3
  <2> QED  BY <2>2, <2>3, RecvCases DEF Loaded, Waited
<1>8. fabric' \in Variants \cup {"none", "broken"} /\ late' \subseteq Variants
  <2>1. CASE Loaded(c, n)
    BY <2>1, LoadVariantProperties DEF Loaded
  <2>2. CASE fabric' = fabric /\ late' = late
    BY <2>2 DEF TypeOK
  <2> QED  BY <2>1, <2>2, RecvCases DEF Inferred, Waited
<1>9. BootTypeOK'
  <2>1. CASE UNCHANGED lights
    BY <2>1, RecvCases DEF TypeOK, BootTypeOK, lights
  <2>2. CASE RGB1_Blue \/ RGB2_GreenThenBlue
    BY <2>2, ServerLights, RecvCases DEF TypeOK, BootTypeOK
  <2> QED  BY <2>1, <2>2, LoadVariantProperties, RecvCases DEF Loaded, Inferred, Waited
<1> QED
  BY <1>2, <1>3, <1>4, <1>6, <1>7, <1>8, <1>9, RecvCases DEF TypeOK, Answers

LEMMA OtherTypes ==
  ASSUME TypeOK, (Start /\ UNCHANGED server) \/ LateLoad \/ (\E c \in Conns : Accept(c) \/ Close(c))
  PROVE  TypeOK'
<1>1. CASE Start /\ UNCHANGED server
  <2> USE DEF TypeOK, BootTypeOK, LEDs, Colours
  <2>1. CASE Initialise
    <3>1. usable' \subseteq Engines
      BY <2>1 DEF Initialise, DNN_init, Dcfg_Init, Dma_Init, Engines
    <3>2. {<<"LD5", "Red">>} \in SUBSET (LEDs \X Colours)
      OBVIOUS
    <3>3. RGB_Write("main.c", {<<"LD5", "Red">>})
      BY <2>1 DEF Initialise, Show, Off
    <3>4. RGB_State' \in [Files -> SUBSET (LEDs \X Colours)] /\ gpio' \subseteq LEDs \X Colours
      BY <3>2, <3>3, WriteProperties DEF Files
    <3> QED  BY <1>1, <2>1, <3>1, <3>4 DEF Initialise, server
  <2>2. CASE AddInterface
    BY <1>1, <2>2 DEF AddInterface, server, lights
  <2>3. CASE StartApplication
    <3>1. listening' \in BOOLEAN
      BY <2>3 DEF StartApplication, start_application
    <3>2. Show(RGB_State["main.c"], "LD4", "Green") \in SUBSET (LEDs \X Colours)
      BY DEF Show, Off, Files
    <3>3. RGB_State' \in [Files -> SUBSET (LEDs \X Colours)] /\ gpio' \subseteq LEDs \X Colours
      BY <2>3, <3>2, WriteProperties DEF Files, StartApplication
    <3> QED  BY <1>1, <2>3, <3>1, <3>3 DEF StartApplication, server
  <2> HIDE DEF TypeOK, BootTypeOK, LEDs, Colours
  <2> QED  BY <1>1, <2>1, <2>2, <2>3 DEF Start
<1>2. CASE LateLoad
  BY <1>2 DEF LateLoad, TypeOK, BootTypeOK, boot, lights
<1>3. ASSUME NEW c \in Conns, Accept(c) \/ Close(c) PROVE TypeOK'
  BY <1>3 DEF Accept, Close, TypeOK, BootTypeOK, boot, lights
<1> QED  BY <1>1, <1>2, <1>3

LEMMA ArrivedSent ==
  ASSUME TypeOK, SentOK, NEW c, NEW n, NEW unread, Arrived(c, n, unread)
  PROVE  SentOK'
<1>1. /\ c \in Conns /\ n \in Nat \ {0} /\ unread \in Nat /\ sent[c] \in Nat
      /\ sent[c] + n + unread <= RequestLen(c) /\ Len(echoed'[c]) <= sent[c] + n
      /\ echoed'[c] \in Seq(1 .. RxBufSize)
  BY BufferProperties, EchoProperties
<1>2. Len(echoed'[c]) \in Nat
  BY <1>1, LenProperties
<1> SUFFICES ASSUME NEW d \in Conns
             PROVE  /\ sent'[d] <= RequestLen(d) /\ Len(echoed'[d]) <= sent'[d]
                    /\ conn'[d] = "new" => sent'[d] = 0
                    /\ sent'[d] = 0 => results'[d] = <<>>
  BY RecvCases DEF SentOK, RequestLen
<1>3. d # c => sent'[d] = sent[d] /\ echoed'[d] = echoed[d] /\ results'[d] = results[d]
  <2> SUFFICES ASSUME d # c
               PROVE  sent'[d] = sent[d] /\ echoed'[d] = echoed[d] /\ results'[d] = results[d]
    OBVIOUS
  <2>1. sent \in [Conns -> 0 .. RxBufSize]
    BY DEF TypeOK
  <2>2. sent'[d] = sent[d] /\ echoed'[d] = echoed[d]
    BY <2>1, RecvCases, EchoProperties
  <2>3. results'[d] = results[d]
    BY RecvCases, InferredAnswers DEF Loaded, Waited
  <2> QED  BY <2>2, <2>3
<1>4. sent'[c] = sent[c] + n + unread
  BY <1>1, RecvCases DEF TypeOK
<1>5. conn' = conn /\ conn[c] = "open"
  BY RecvCases
<1>6. CASE d = c
  <2>1. sent'[c] # 0 /\ Len(echoed'[c]) <= sent[c] + n + unread
    BY <1>1, <1>2, <1>4
  <2> QED  BY <1>1, <1>4, <1>5, <1>6, <2>1
<1>7. CASE d # c
  BY <1>3, <1>5, <1>7 DEF SentOK
<1> QED  BY <1>6, <1>7

\* What a step does to the frames that were answered.
LEMMA ArrivedFrames ==
  ASSUME TypeOK, SentOK, FramesOK, NoByteTwice, NEW c, NEW n, NEW unread, Arrived(c, n, unread)
  PROVE  FramesOK' /\ NoByteTwice'
<1> DEFINE b == Buffer(c, n)
<1>1. /\ c \in Conns /\ n \in Nat \ {0} /\ unread \in Nat /\ sent[c] \in Nat
      /\ sent[c] + n <= RxBufSize /\ RxBufSize \in Nat
      /\ Segment(c, n) \in Seq(Bytes) /\ Len(Segment(c, n)) = n
      /\ \A k \in 1 .. n : Segment(c, n)[k] = <<c, sent[c] + k>>
      /\ Range(b) \subseteq Range(rx) \cup Range(Segment(c, n))
  BY BufferProperties, EchoAssumption
<1> HIDE DEF b
<1>2. sent' = [sent EXCEPT ![c] = sent[c] + n + unread] /\ sent \in [Conns -> 0 .. RxBufSize]
  BY RecvCases DEF TypeOK
<1>3. Delivered \subseteq Delivered'
  <2> SUFFICES ASSUME NEW x \in Bytes, x[2] <= sent[x[1]] PROVE x[2] <= sent'[x[1]]
    BY DEF Delivered
  <2>1. x[1] \in Conns /\ x[2] \in Nat
    BY <1>1 DEF Bytes
  <2> QED  BY <1>1, <1>2, <2>1
<1>4. Range(Segment(c, n)) \subseteq Delivered' \ Delivered
  <2> SUFFICES ASSUME NEW x \in Range(Segment(c, n)) PROVE x \in Delivered' /\ x \notin Delivered
    OBVIOUS
  <2>1. PICK k \in 1 .. n : x = <<c, sent[c] + k>>
    <3>1. DOMAIN Segment(c, n) = 1 .. n
      BY <1>1, LenProperties
    <3> QED  BY <1>1, <3>1 DEF Range
  <2>2. x[1] = c /\ x[2] = sent[c] + k
    BY <2>1
  <2>3. sent[c] + k \in 1 .. RxBufSize /\ ~(sent[c] + k <= sent[c]) /\ sent[c] + k <= sent[c] + n + unread
    BY <1>1
  <2>4. x \in Bytes
    BY <1>1, <2>1, <2>3 DEF Bytes
  <2>5. sent'[c] = sent[c] + n + unread
    BY <1>1, <1>2
  <2> QED  BY <2>2, <2>3, <2>4, <2>5 DEF Delivered
<1>5. Range(b) \subseteq Delivered' /\ Range(<<>>) = {}
  <2>1. Range(b) \subseteq Delivered'
    BY <1>1, <1>3, <1>4 DEF FramesOK
  <2>2. Range(<<>>) = {}
    BY DEF Range
  <2> QED  BY <2>1, <2>2
\* Frames of old answers have nothing in common with what is in the buffer now.
<1>6. ASSUME NEW d \in Conns, NEW k \in DOMAIN results[d]
      PROVE  /\ Range(results[d][k].frame) \subseteq Delivered'
             /\ Range(results[d][k].frame) \cap Range(b) = {}
  BY <1>1, <1>3, <1>4, <1>6 DEF FramesOK
<1>7. CASE results' = results
  <2>1. rx' = <<>> \/ rx' = b
    BY RecvCases DEF Loaded, Inferred, Waited, b
  <2>2. FramesOK'
    BY <1>5, <1>6, <1>7, <2>1 DEF FramesOK
  <2> QED  BY <1>7, <2>2 DEF NoByteTwice
<1>8. CASE Inferred(c, n) /\ results' # results
  <2>1. PICK digit \in {Digit(b, fabric), NoDigit} :
          results' # results => results' = [results EXCEPT ![c] = Append(results[c], digit)]
    BY <1>8, InferredAnswers DEF b
  <2>2. results \in [Conns -> Seq(Answers)]
    BY DEF TypeOK, Answers
  <2>3. results' = [results EXCEPT ![c] = Append(results[c], digit)]
    BY <1>8, <2>1
  <2>4. Range(digit.frame) \subseteq Range(b) /\ digit \in Answers
    <3>1. CASE digit = NoDigit
      <4>1. digit.frame = <<>>
        BY <3>1 DEF NoDigit, Digit
      <4>2. digit \in Answers
        BY <3>1, EmptySeq DEF NoDigit, Digit, Answers
      <4> QED  BY <1>5, <4>1, <4>2
    <3>2. CASE digit = Digit(b, fabric)
      <4>1. b \in Seq(Bytes) /\ fabric \in Variants \cup {"none", "broken"}
        BY BufferProperties DEF b, TypeOK
      <4> QED  BY <3>2, <4>1 DEF Digit, Answers
    <3> QED  BY <2>1, <3>1, <3>2
  <2>5. /\ results[c] \in Seq(Answers) /\ Len(results[c]) \in Nat
        /\ DOMAIN results[c] = 1 .. Len(results[c])
    BY <1>1, <2>2, LenProperties
  <2>6. /\ DOMAIN Append(results[c], digit) = 1 .. Len(results[c]) + 1
        /\ Append(results[c], digit)[Len(results[c]) + 1] = digit
        /\ \A k \in 1 .. Len(results[c]) : Append(results[c], digit)[k] = results[c][k]
    BY <2>4, <2>5
  <2>7. ASSUME NEW d \in Conns, NEW k \in DOMAIN results'[d]
        PROVE  \/ k \in DOMAIN results[d] /\ results'[d][k] = results[d][k]
               \/ d = c /\ k = Len(results[c]) + 1 /\ results'[d][k] = digit
    <3>1. CASE d = c
      <4>1. results'[d] = Append(results[c], digit)
        BY <1>1, <2>2, <2>3, <3>1
      <4>2. k \in 1 .. Len(results[c]) + 1
        BY <2>6, <4>1
      <4>3. k \in 1 .. Len(results[c]) \/ k = Len(results[c]) + 1
        BY <2>5, <4>2
      <4> QED  BY <2>5, <2>6, <3>1, <4>1, <4>3
    <3>2. CASE d # c
      BY <2>2, <2>3, <3>2
    <3> QED  BY <3>1, <3>2
  <2>8. rx' = <<>>
    BY <1>8 DEF Inferred
  <2>9. FramesOK'
    BY <1>5, <1>6, <2>4, <2>7, <2>8 DEF FramesOK
  <2>10. NoByteTwice'
    <3> SUFFICES ASSUME NEW d \in Conns, NEW e \in Conns, NEW k \in DOMAIN results'[d],
                        NEW j \in DOMAIN results'[e], <<d, k>> # <<e, j>>
                 PROVE  Range(results'[d][k].frame) \cap Range(results'[e][j].frame) = {}
      BY DEF NoByteTwice
    <3>1. CASE /\ k \in DOMAIN results[d] /\ results'[d][k] = results[d][k]
               /\ j \in DOMAIN results[e] /\ results'[e][j] = results[e][j]
      BY <3>1 DEF NoByteTwice
    <3>2. CASE k \in DOMAIN results[d] /\ results'[d][k] = results[d][k] /\ results'[e][j] = digit
      BY <1>6, <2>4, <3>2
    <3>3. CASE j \in DOMAIN results[e] /\ results'[e][j] = results[e][j] /\ results'[d][k] = digit
      BY <1>6, <2>4, <3>3
    <3> QED  BY <2>7, <3>1, <3>2, <3>3
  <2> QED  BY <2>9, <2>10
<1> QED  BY <1>7, <1>8, RecvCases DEF Loaded, Waited

LEMMA ArrivedLeds ==
  ASSUME TypeOK, SentOK, BootOK, LedsOK, NEW c, NEW n, NEW unread, Arrived(c, n, unread)
  PROVE  BootOK' /\ LedsOK'
<1>1. /\ c \in Conns /\ conn[c] = "open" /\ phase = "loop" /\ listening
      /\ UNCHANGED <<conn, request, env, phase, usable, listening>>
      /\ ~env.faults => late = {} /\ usable = Engines
  BY BufferProperties, RecvCases DEF BootOK, Dispatching
<1>2. PICK own \in SUBSET {<<"LD4", "Blue">>, <<"LD5", "Blue">>} :
        /\ own = RGB_State["echo.c"]
        /\ gpio = IF own = {} THEN {<<"LD4", "Green">>, <<"LD5", "Red">>} ELSE own
        /\ (\E d \in Conns : results[d] # <<>>) => <<"LD5", "Blue">> \in own
        /\ <<"LD5", "Blue">> \in own /\ ~env.starved => \E d \in Conns : results[d] # <<>>
        /\ <<"LD4", "Blue">> \in own => fabric # "none" /\ listening /\ "pcap" \in usable
        /\ fabric \in Variants /\ ~env.faults => <<"LD4", "Blue">> \in own
  BY <1>1 DEF LedsOK
<1>3. Variants \cap {"none", "broken"} = {}
  BY EchoAssumption
<1>4. /\ (own \ ({"LD4"} \X Colours)) \cup {<<"LD4", "Blue">>} = own \cup {<<"LD4", "Blue">>}
      /\ (own \ ({"LD5"} \X Colours)) \cup {<<"LD5", "Blue">>} = own \cup {<<"LD5", "Blue">>}
  BY DEF Colours
<1>5. BootTypeOK
  BY DEF TypeOK
<1>6. CASE Loaded(c, n)
  <2> DEFINE w == Value(Buffer(c, n)[3])
  <2>1. LoadVariant(w) /\ results' = results
    BY <1>6 DEF Loaded
  <2> HIDE DEF w
  <2>2. /\ \/ UNCHANGED lights
           \/ RGB1_Blue /\ "pcap" \in usable /\ fabric' \in Variants \cup {"broken"}
        /\ (fabric' = fabric /\ late' = late) \/ "pcap" \in usable
        /\ fabric' = fabric \/ fabric' \in Variants \cup {"broken"}
        /\ ~env.faults /\ late = {} /\ usable = Engines =>
             /\ late' = {}
             /\ w \in Variants => fabric' = w /\ RGB1_Blue
             /\ w \notin Variants => fabric' = fabric
    BY <2>1, LoadVariantProperties
  <2>3. ~env.faults => late' = {} /\ fabric' # "broken"
    BY <1>1, <1>3, <2>2 DEF BootOK
  <2>4. late' # {} \/ fabric' # "none" => "pcap" \in usable
    BY <2>2 DEF BootOK
  <2>5. BootOK'
    BY <1>1, <2>3, <2>4 DEF BootOK
  <2>6. CASE RGB1_Blue /\ "pcap" \in usable /\ fabric' \in Variants \cup {"broken"}
    <3>1. RGB_State'["echo.c"] = gpio' /\ gpio' = own \cup {<<"LD4", "Blue">>}
      BY <1>2, <1>4, <1>5, <2>6, ServerLights
    <3>2. gpio' \subseteq {<<"LD4", "Blue">>, <<"LD5", "Blue">>} /\ <<"LD4", "Blue">> \in gpio'
          /\ (<<"LD5", "Blue">> \in gpio' <=> <<"LD5", "Blue">> \in own)
      BY <3>1
    <3>3. fabric' # "none"
      BY <1>3, <2>6
    <3> QED  BY <1>1, <1>2, <2>1, <2>5, <2>6, <3>1, <3>2, <3>3 DEF LedsOK
  <2>7. CASE ~RGB1_Blue /\ UNCHANGED lights
    <3>1. RGB_State' = RGB_State /\ gpio' = gpio
      BY <2>7 DEF lights
    <3>2. ~env.faults => fabric' = fabric
      BY <1>1, <2>2, <2>7
    <3>3. fabric # "none" => fabric' # "none"
      BY <1>3, <2>2
    <3> QED  BY <1>1, <1>2, <2>1, <2>5, <3>1, <3>2, <3>3 DEF LedsOK
  <2>8. CASE RGB1_Blue /\ UNCHANGED lights
    <3>1. RGB_State'["echo.c"] = own /\ RGB_State'["echo.c"] = gpio' /\ gpio' = gpio
      BY <1>2, <1>5, <2>8, ServerLights DEF lights
    <3>2. gpio' = own \cup {<<"LD4", "Blue">>}
      BY <1>2, <1>4, <1>5, <2>8, ServerLights
    <3>3. <<"LD4", "Blue">> \in own
      BY <3>1, <3>2
    <3>4. fabric # "none" => fabric' # "none"
      BY <1>3, <2>2
    <3> QED  BY <1>1, <1>2, <2>1, <2>5, <3>1, <3>3, <3>4 DEF LedsOK
  <2> QED  BY <2>2, <2>6, <2>7, <2>8
<1>7. CASE Inferred(c, n)
  <2>1. fabric' = fabric /\ late' = late /\ RGB2_GreenThenBlue
    BY <1>7 DEF Inferred
  <2>2. RGB_State'["echo.c"] = gpio' /\ gpio' = own \cup {<<"LD5", "Blue">>}
    BY <1>2, <1>4, <1>5, <2>1, ServerLights
  <2>3. gpio' \subseteq {<<"LD4", "Blue">>, <<"LD5", "Blue">>} /\ <<"LD5", "Blue">> \in gpio'
        /\ (<<"LD4", "Blue">> \in gpio' <=> <<"LD4", "Blue">> \in own)
    BY <2>2
  <2>4. ~env.starved => \E d \in Conns : results'[d] # <<>>
    BY <1>7, InferredAnswers
  <2>5. BootOK'
    BY <1>1, <2>1 DEF BootOK
  <2>6. LedsOK'
    BY <1>1, <1>2, <2>1, <2>2, <2>3, <2>4 DEF LedsOK
  <2> QED  BY <2>5, <2>6
<1>8. CASE Waited(c, n)
  <2>1. fabric' = fabric /\ late' = late /\ RGB_State' = RGB_State /\ gpio' = gpio /\ results' = results
    BY <1>8 DEF Waited, lights
  <2>2. BootOK'
    BY <1>1, <2>1 DEF BootOK
  <2>3. LedsOK'
    BY <1>1, <1>2, <2>1 DEF LedsOK
  <2> QED  BY <2>2, <2>3
<1> QED  BY <1>6, <1>7, <1>8, RecvCases

LEMMA OtherSafe ==
  ASSUME SafeInv,
         (Start /\ UNCHANGED server) \/ LateLoad \/ (\E c \in Conns : Accept(c) \/ Close(c))
  PROVE  SafeInv'
<1>1. TypeOK /\ TypeOK' /\ SentOK /\ FramesOK /\ NoByteTwice /\ BootOK /\ LedsOK
  BY OtherTypes DEF SafeInv
<1>2. UNCHANGED <<rx, request, sent, echoed, results, env>>
  BY DEF Start, Initialise, AddInterface, StartApplication, server, LateLoad, Accept, Close, boot
<1>3. FramesOK' /\ NoByteTwice'
  BY <1>1, <1>2 DEF FramesOK, NoByteTwice, Delivered
<1>4. CASE Start /\ UNCHANGED server
  <2>1. UNCHANGED <<conn, fabric, late>>
    BY <1>4 DEF server
  <2>2. SentOK'
    BY <1>1, <1>2, <2>1 DEF SentOK, RequestLen
  <2>3. /\ phase # "loop" => fabric = "none" /\ late = {} /\ \A c \in Conns : results[c] = <<>>
    BY <1>1 DEF BootOK, SentOK, TypeOK
  <2>7. /\ BootTypeOK /\ "none" \notin Variants
        /\ "main.c" \in Files /\ "echo.c" \in Files \ {"main.c"}
    BY <1>1, EchoAssumption DEF TypeOK, Files
  <2>4. CASE Initialise
    <3>1. phase' = "xemac_add" /\ phase = "DNN_init" /\ (~env.faults => usable' = Engines)
      BY <2>4 DEF Initialise, DNN_init, Dcfg_Init, Dma_Init
    <3>4. RGB_Write("main.c", {<<"LD5", "Red">>}) /\ {<<"LD5", "Red">>} \in SUBSET (LEDs \X Colours)
      BY <2>4 DEF Initialise, Show, Off, LEDs, Colours
    <3>5. RGB_State'["main.c"] = {<<"LD5", "Red">>} /\ RGB_State'["echo.c"] = RGB_State["echo.c"]
      BY <2>7, <3>4, WriteProperties
    <3>2. BootOK'
      BY <1>1, <1>2, <2>1, <2>3, <3>1, <3>5 DEF BootOK
    <3>3. LedsOK'
      BY <1>1, <1>2, <2>1, <2>3, <2>7, <3>1, <3>5 DEF LedsOK
    <3> QED  BY <1>1, <1>3, <2>2, <3>2, <3>3 DEF SafeInv
  <2>5. CASE AddInterface
    <3>1. phase = "xemac_add" /\ phase' \in {"returned", "start_application"}
          /\ UNCHANGED <<usable, listening, RGB_State, gpio>>
      BY <2>5 DEF AddInterface, lights
    <3>2. BootOK'
      BY <1>1, <1>2, <2>1, <2>3, <3>1 DEF BootOK
    <3>3. LedsOK'
      BY <1>1, <1>2, <2>1, <2>3, <2>7, <3>1 DEF LedsOK
    <3> QED  BY <1>1, <1>3, <2>2, <3>2, <3>3 DEF SafeInv
  <2>6. CASE StartApplication
    <3>1. phase = "start_application" /\ phase' = "loop" /\ usable' = usable
          /\ RGB_Write("main.c", Show(RGB_State["main.c"], "LD4", "Green"))
          /\ RGB_State["main.c"] = {<<"LD5", "Red">>}
      BY <1>1, <2>6 DEF StartApplication, BootOK
    <3>2. /\ Show({<<"LD5", "Red">>}, "LD4", "Green") = {<<"LD4", "Green">>, <<"LD5", "Red">>}
          /\ {<<"LD4", "Green">>, <<"LD5", "Red">>} \in SUBSET (LEDs \X Colours)
      BY DEF Show, Off, LEDs, Colours
    <3>3. BootOK'
      BY <1>1, <1>2, <2>1, <2>3, <3>1 DEF BootOK
    <3>4. fabric' \notin Variants /\ \A c \in Conns : results'[c] = <<>>
      BY <1>2, <2>1, <2>3, <2>7, <3>1
    <3>5. RGB_State'["echo.c"] = {} /\ gpio' = {<<"LD4", "Green">>, <<"LD5", "Red">>}
      <4>1. RGB_Write("main.c", {<<"LD4", "Green">>, <<"LD5", "Red">>})
        BY <3>1, <3>2
      <4>2. RGB_State["echo.c"] = {}
        BY <1>1, <3>1 DEF LedsOK
      <4> QED  BY <2>7, <3>2, <4>1, <4>2, WriteProperties
    <3>6. LedsOK'
      BY <3>1, <3>4, <3>5 DEF LedsOK
    <3> QED  BY <1>1, <1>3, <2>2, <3>3, <3>6 DEF SafeInv
  <2> QED  BY <1>4, <2>4, <2>5, <2>6 DEF Start
<1>5. CASE LateLoad
  <2>1. /\ conn' = conn /\ late # {} /\ late' \subseteq late /\ fabric' \in late
        /\ UNCHANGED <<phase, usable, listening, RGB_State, gpio>>
    BY <1>5 DEF LateLoad, boot, lights
  <2>2. env.faults /\ "pcap" \in usable /\ phase = "loop" /\ fabric' # "none"
    BY <1>1, <2>1, EchoAssumption DEF BootOK, TypeOK
  <2>3. SentOK' /\ BootOK'
    BY <1>1, <1>2, <2>1, <2>2 DEF SentOK, RequestLen, BootOK
  <2>4. LedsOK'
    BY <1>1, <1>2, <2>1, <2>2 DEF LedsOK
  <2> QED  BY <1>1, <1>3, <2>3, <2>4 DEF SafeInv
<1>6. ASSUME NEW c \in Conns, Accept(c) \/ Close(c) PROVE SafeInv'
  <2>1. /\ phase = "loop" /\ UNCHANGED <<fabric, late, phase, usable, listening, RGB_State, gpio>>
        /\ \A d \in Conns : conn'[d] = "new" => conn[d] = "new"
        /\ listening
    BY <1>1, <1>6 DEF Accept, Close, boot, lights, Dispatching, TypeOK, BootOK
  <2>2. SentOK' /\ BootOK' /\ LedsOK'
    BY <1>1, <1>2, <2>1 DEF SentOK, RequestLen, BootOK, LedsOK
  <2> QED  BY <1>1, <1>3, <2>2 DEF SafeInv
<1> QED  BY <1>4, <1>5, <1>6

LEMMA SafeStep == SafeInv /\ [Next]_vars => SafeInv'
<1> SUFFICES ASSUME SafeInv, [Next]_vars PROVE SafeInv'
  OBVIOUS
<1>1. CASE Receive
  <2>1. PICK c, n, unread : Arrived(c, n, unread)
    BY <1>1, ReceiveArrives
  <2> QED
    BY <2>1, ArrivedTypes, ArrivedSent, ArrivedFrames, ArrivedLeds DEF SafeInv
<1>2. CASE (Start /\ UNCHANGED server) \/ LateLoad \/ (\E c \in Conns : Accept(c) \/ Close(c))
  BY <1>2, OtherSafe
<1>3. CASE UNCHANGED vars
  <2>1. TypeOK' /\ SentOK' /\ BootOK' /\ LedsOK'
    BY <1>3 DEF SafeInv, vars, server, boot, lights, TypeOK, BootTypeOK, SentOK, RequestLen, BootOK, LedsOK
  <2>2. FramesOK' /\ NoByteTwice'
    BY <1>3 DEF SafeInv, vars, server, FramesOK, NoByteTwice, Delivered
  <2> QED  BY <2>1, <2>2 DEF SafeInv
<1> QED  BY <1>1, <1>2, <1>3 DEF Next

LEMMA SafeInit == Init => SafeInv
<1> SUFFICES ASSUME Init PROVE SafeInv
  OBVIOUS
<1>1. /\ rx = <<>> /\ fabric = "none" /\ late = {} /\ phase = "DNN_init"
      /\ \A c \in Conns : conn[c] = "new" /\ sent[c] = 0 /\ echoed[c] = <<>> /\ results[c] = <<>>
  BY DEF Init, BootInit
<1>2. TypeOK
  <2>1. <<>> \in Seq(Bytes) /\ <<>> \in Seq(1 .. RxBufSize) /\ <<>> \in Seq(Answers) /\ Len(<<>>) = 0
    BY EmptySeq
  <2>2. 0 \in 0 .. RxBufSize /\ 0 <= RxBufSize
    BY EchoAssumption
  <2>3. sent \in [Conns -> 0 .. RxBufSize]
    BY <2>2 DEF Init
  <2>4. /\ conn \in [Conns -> {"new", "open", "closed"}] /\ echoed \in [Conns -> Seq(1 .. RxBufSize)]
        /\ results \in [Conns -> Seq(Answers)] /\ stale \in [Conns -> Seq(Bytes)]
    BY <2>1 DEF Init
  <2>5. BootTypeOK
    BY DEF Init, BootInit, BootTypeOK
  <2>6. request \in [Conns -> Requests]
    BY DEF Init
  <2> QED  BY <1>1, <2>1, <2>2, <2>3, <2>4, <2>5, <2>6 DEF TypeOK, Answers
<1>3. SentOK
  <2> SUFFICES ASSUME NEW c \in Conns PROVE 0 <= RequestLen(c) /\ Len(<<>>) <= 0
    BY <1>1 DEF SentOK
  <2>1. RequestLen(c) \in Nat
    BY <1>2, RequestLenTyped
  <2> QED  BY <2>1
<1>4. FramesOK /\ NoByteTwice
  <2>1. Range(rx) = {} /\ \A c \in Conns : DOMAIN results[c] = {}
    BY <1>1 DEF Range
  <2> QED  BY <2>1 DEF FramesOK, NoByteTwice
<1>5. BootOK /\ LedsOK
  <2>1. RGB_State["echo.c"] = {} /\ "none" \notin Variants
    BY EchoAssumption DEF Init, BootInit, Files
  <2> QED  BY <1>1, <2>1 DEF BootOK, LedsOK
<1> QED  BY <1>2, <1>3, <1>4, <1>5 DEF SafeInv

LEMMA SafeInvariant == Spec => []SafeInv
BY SafeInit, SafeStep, PTL DEF Spec

\* Every variable keeps to its type: the buffer never holds more than a frame,
\* however the segments are cut and whoever sends them.
THEOREM ServerTypeCorrect == Spec => []TypeOK
BY SafeInvariant, PTL DEF SafeInv

\* Whatever the clients and the network do, no byte goes into two inferences.
THEOREM BytesUsedOnce == Spec => []NoByteTwice
BY SafeInvariant, PTL DEF SafeInv

\* The two LEDs tell what LedsTell says of them, although the two files that light them
\* do not know of each other, and even if the driver or start-up fails.
THEOREM LedsCorrect == Spec => []LedsTell
<1>1. LedsOK => LedsTell
  <2> SUFFICES ASSUME LedsOK, phase = "loop" PROVE LedsTell
    BY DEF LedsTell
  <2>1. PICK own \in SUBSET {<<"LD4", "Blue">>, <<"LD5", "Blue">>} : own = RGB_State["echo.c"]
    BY DEF LedsOK
  <2>2. CASE own = {}
    <3>1. Lit("LD4") = {"Green"} /\ Lit("LD5") = {"Red"}
      BY <2>1, <2>2 DEF LedsOK, Lit, Colours
    <3> QED  BY <2>1, <2>2, <3>1 DEF LedsOK, LedsTell
  <2>3. CASE own # {}
    <3>1. /\ Lit("LD4") = IF <<"LD4", "Blue">> \in own THEN {"Blue"} ELSE {}
          /\ Lit("LD5") = IF <<"LD5", "Blue">> \in own THEN {"Blue"} ELSE {}
          /\ <<"LD4", "Blue">> \in own \/ <<"LD5", "Blue">> \in own
      BY <2>1, <2>3 DEF LedsOK, Lit, Colours
    <3> QED  BY <2>1, <3>1 DEF LedsOK, LedsTell
  <2> QED  BY <2>2, <2>3
<1> QED  BY <1>1, SafeInvariant, PTL DEF SafeInv

-----------------------------------------------------------------------------
\* What the callback takes a byte for depends on the request and the place in it.
LEMMA Values ==
  ASSUME NEW c, NEW k
  PROVE  /\ request[c] = "detect" => Value(<<c, k>>) = IF k = 1 THEN "DA" ELSE "pixel"
         /\ request[c] # "detect" =>
              /\ k = 1 => Value(<<c, k>>) = "FA"
              /\ k = 2 => Value(<<c, k>>) = "CE"
              /\ k = 3 => Value(<<c, k>>) = request[c]
BY DEF Value

LEMMA NumbersJoin ==
  ASSUME NEW s \in Nat, NEW m \in Nat
  PROVE  [k \in 1 .. s |-> k] \o [k \in 1 .. m |-> s + k] = [k \in 1 .. s + m |-> k]
<1> DEFINE p == [k \in 1 .. s |-> k]
           q == [k \in 1 .. m |-> s + k]
           w == [k \in 1 .. s + m |-> k]
<1>1. p \in [1 .. s -> Nat] /\ q \in [1 .. m -> Nat] /\ w \in [1 .. s + m -> Nat] /\ s + m \in Nat
  OBVIOUS
<1>2. /\ p \in Seq(Nat) /\ Len(p) = s /\ q \in Seq(Nat) /\ Len(q) = m
      /\ w \in Seq(Nat) /\ Len(w) = s + m
  BY <1>1, FunctionIsSeq
<1>3. /\ \A k \in 1 .. s : p[k] = k
      /\ \A k \in 1 .. m : q[k] = s + k
      /\ \A k \in 1 .. s + m : w[k] = k
  OBVIOUS
<1> HIDE DEF p, q, w
<1>4. /\ p \o q \in Seq(Nat) /\ Len(p \o q) = Len(p) + Len(q)
      /\ \A k \in 1 .. Len(p) + Len(q) : (p \o q)[k] = IF k <= Len(p) THEN p[k] ELSE q[k - Len(p)]
  BY <1>2, ConcatProperties
<1>5. ASSUME NEW k \in 1 .. s + m PROVE (p \o q)[k] = w[k]
  <2>1. (p \o q)[k] = IF k <= s THEN p[k] ELSE q[k - s]
    BY <1>2, <1>4
  <2>2. CASE k <= s
    <3>1. k \in 1 .. s
      BY <2>2
    <3> QED  BY <1>3, <2>1, <2>2, <3>1
  <2>3. CASE ~(k <= s)
    <3>1. k - s \in 1 .. m /\ s + (k - s) = k
      BY <2>3
    <3> QED  BY <1>3, <2>1, <2>3, <3>1
  <2> QED  BY <2>2, <2>3
<1>6. p \o q = w
  <2>1. Len(p \o q) = Len(w) /\ \A k \in 1 .. Len(p \o q) : (p \o q)[k] = w[k]
    BY <1>2, <1>4, <1>5
  <2> QED  BY <1>2, <1>4, <2>1, SeqEqual
<1> QED  BY <1>6 DEF p, q, w

\* A request that has the buffer to itself: nothing but its bytes is in there.
Clean(c) ==
  /\ rx = Piece(c, 1, sent[c]) /\ results[c] = <<>> /\ ~env.chained
  /\ request[c] # "detect" /\ ~env.starved => echoed[c] = [k \in 1 .. sent[c] |-> k]

\* A segment of such a request is taken for what it is.
LEMMA CleanBuffer ==
  ASSUME SafeInv, NEW c, NEW n, NEW unread, Arrived(c, n, unread), Clean(c)
  PROVE  LET b == Buffer(c, n)
             z == sent[c] + n
         IN /\ c \in Conns /\ n \in Nat \ {0} /\ sent[c] \in Nat /\ unread = 0 /\ z \in Nat
            /\ z <= RequestLen(c) /\ results[c] = <<>> /\ b = Piece(c, 1, z) /\ ~Complete(c)
            /\ request[c] = "detect" =>
                 /\ ~VariantComplete(b)
                 /\ DetectComplete(b) <=> z = RequestLen(c)
            /\ request[c] # "detect" =>
                 /\ ~DetectComplete(b)
                 /\ VariantComplete(b) <=> z = RequestLen(c)
                 /\ z = RequestLen(c) => Value(b[3]) = request[c]
<1> DEFINE b == Buffer(c, n)
           z == sent[c] + n
<1>1. TypeOK /\ SentOK
  BY DEF SafeInv
<1>2. /\ c \in Conns /\ n \in Nat \ {0} /\ sent[c] \in Nat /\ z \in Nat /\ n \in Nat /\ n >= 1
      /\ z <= RxBufSize /\ unread \in Nat /\ z + unread <= RequestLen(c)
      /\ RequestLen(c) \in Nat /\ RxBufSize \in Nat
      /\ Segment(c, n) = Piece(c, sent[c] + 1, z)
  BY <1>1, BufferProperties, RequestLenTyped, EchoAssumption DEF Segment
<1>3. unread = 0 /\ conn[c] = "open"
  BY RecvCases DEF Arrived, Clean
<1>4. sent[c] # RequestLen(c) /\ z <= RequestLen(c)
  BY <1>2, <1>3
<1>5. ~Complete(c) /\ results[c] = <<>>
  BY <1>4 DEF Complete, Clean
<1>6. rx = Piece(c, 1, sent[c])
  BY DEF Clean
<1>7. Len(rx) = sent[c] /\ Len(Segment(c, n)) = n
  <2>1. 1 \in Nat \ {0} /\ 1 - 1 <= sent[c] /\ sent[c] <= RxBufSize /\ sent[c] - 1 + 1 = sent[c]
    BY <1>2
  <2>2. Len(Piece(c, 1, sent[c])) = sent[c] - 1 + 1
    BY <1>2, <2>1, PieceProperties
  <2> QED  BY <1>1, <1>6, <2>1, <2>2, BufferProperties
<1>8. b = Piece(c, 1, z)
  <2>1. Len(rx) + Len(Segment(c, n)) <= RxBufSize
    BY <1>2, <1>7
  <2>2. b = Piece(c, 1, sent[c]) \o Piece(c, sent[c] + 1, z)
    BY <1>2, <1>6, <2>1 DEF Buffer, Collect
  <2>3. 1 \in Nat \ {0} /\ 1 - 1 <= sent[c] /\ sent[c] <= z
    BY <1>2
  <2> HIDE DEF z
  <2> QED  BY <1>2, <2>2, <2>3, PieceJoin
<1>9. Len(b) = z /\ \A k \in 1 .. z : b[k] = <<c, k>>
  <2>1. 1 \in Nat \ {0} /\ 1 - 1 <= z /\ z - 1 + 1 = z
    BY <1>2
  <2>2. Len(b) = z - 1 + 1 /\ \A k \in 1 .. z - 1 + 1 : b[k] = <<c, 1 + k - 1>>
    <3> HIDE DEF b, z
    <3> QED  BY <1>2, <1>8, <2>1, PieceProperties
  <2>3. \A k \in 1 .. z : 1 + k - 1 = k
    BY <1>2
  <2> HIDE DEF b, z
  <2> QED  BY <2>1, <2>2, <2>3
<1>10. /\ Len(b) \in Nat /\ Len(b) >= 1 /\ b[1] = <<c, 1>>
       /\ Len(b) >= 2 => b[2] = <<c, 2>>
       /\ Len(b) >= 3 => b[3] = <<c, 3>>
  <2>1. z >= 1
    BY <1>2
  <2> HIDE DEF b, z
  <2> QED  BY <1>2, <1>9, <2>1
<1> HIDE DEF b, z
<1>11. ASSUME request[c] = "detect"
       PROVE  ~VariantComplete(b) /\ (DetectComplete(b) <=> z = RequestLen(c))
  <2>1. Value(b[1]) = "DA" /\ RequestLen(c) = RxBufSize
    BY <1>10, <1>11, Values DEF RequestLen
  <2>2. ~VariantComplete(b)
    BY <2>1 DEF VariantComplete, IsVariant
  <2>3. DetectComplete(b) <=> Len(b) >= RxBufSize
    BY <1>2, <1>10, <2>1, EchoAssumption DEF DetectComplete, IsDetect
  <2> QED  BY <1>2, <1>4, <1>9, <2>1, <2>2, <2>3
<1>12. ASSUME request[c] # "detect"
       PROVE  /\ ~DetectComplete(b) /\ (VariantComplete(b) <=> z = RequestLen(c))
              /\ z = RequestLen(c) => Value(b[3]) = request[c]
  <2>1. Value(b[1]) = "FA" /\ (Len(b) >= 2 => Value(b[2]) = "CE") /\ RequestLen(c) = 3
        /\ (Len(b) >= 3 => Value(b[3]) = request[c])
    <3>1. /\ Value(<<c, 1>>) = "FA" /\ Value(<<c, 2>>) = "CE" /\ Value(<<c, 3>>) = request[c]
      <4>1. <<c, 1>>[1] = c /\ <<c, 2>>[1] = c /\ <<c, 3>>[1] = c
            /\ <<c, 1>>[2] = 1 /\ <<c, 2>>[2] = 2 /\ <<c, 3>>[2] = 3
        OBVIOUS
      <4>2. Value(<<c, 1>>) = "FA"
        BY <1>12, <4>1 DEF Value
      <4>3. Value(<<c, 2>>) = "CE"
        BY <1>12, <4>1 DEF Value
      <4>4. Value(<<c, 3>>) = request[c]
        BY <1>12, <4>1 DEF Value
      <4> QED  BY <4>2, <4>3, <4>4
    <3> QED  BY <1>10, <1>12, <3>1 DEF RequestLen
  <2>2. ~DetectComplete(b)
    BY <2>1 DEF DetectComplete, IsDetect
  <2>3. VariantComplete(b) <=> Len(b) >= 3
    <3>1. Len(b) >= 3 => Len(b) >= 2
      BY <1>10
    <3> QED  BY <2>1, <3>1 DEF VariantComplete, IsVariant
  <2>4. Len(b) >= 3 <=> z = RequestLen(c)
    BY <1>2, <1>4, <1>9, <2>1
  <2> QED  BY <2>1, <2>2, <2>3, <2>4
<1> QED  BY <1>2, <1>3, <1>4, <1>5, <1>8, <1>11, <1>12 DEF b, z

\* What one segment of such a request does to its own connection.
LEMMA CleanArrival ==
  ASSUME SafeInv, NEW c, NEW n, NEW unread, Arrived(c, n, unread), Clean(c)
  PROVE  /\ c \in Conns /\ UNCHANGED <<conn, request>> /\ SafeInv' /\ ~Complete(c)
         /\ conn[c] = "open" /\ sent[c] < sent'[c] /\ sent'[c] <= RequestLen(c)
         /\ \A d \in Conns \ {c} : UNCHANGED <<sent[d], echoed[d], results[d]>>
         /\ request[c] # "detect" /\ ~env.starved => echoed'[c] = [k \in 1 .. sent'[c] |-> k]
         /\ Buffer(c, n) = Piece(c, 1, sent'[c])
         /\ sent'[c] < RequestLen(c) => Waited(c, n) /\ rx' = Piece(c, 1, sent'[c])
         /\ sent'[c] = RequestLen(c) /\ request[c] = "detect" => Inferred(c, n)
         /\ sent'[c] = RequestLen(c) /\ request[c] # "detect" =>
              Loaded(c, n) /\ Value(Buffer(c, n)[3]) = request[c]
<1> DEFINE b == Buffer(c, n)
           z == sent[c] + n
<1>1. /\ c \in Conns /\ n \in Nat \ {0} /\ sent[c] \in Nat /\ unread = 0 /\ z \in Nat
      /\ z <= RequestLen(c) /\ results[c] = <<>> /\ b = Piece(c, 1, z) /\ ~Complete(c)
  BY CleanBuffer
<1>2. request[c] = "detect" => ~VariantComplete(b) /\ (DetectComplete(b) <=> z = RequestLen(c))
  BY CleanBuffer
<1>3. request[c] # "detect" =>
        /\ ~DetectComplete(b)
        /\ VariantComplete(b) <=> z = RequestLen(c)
        /\ z = RequestLen(c) => Value(b[3]) = request[c]
  BY CleanBuffer
<1>4. TypeOK /\ SentOK /\ RequestLen(c) \in Nat
  BY <1>1, RequestLenTyped DEF SafeInv
<1>5. /\ sent' = [sent EXCEPT ![c] = sent[c] + n + unread]
      /\ UNCHANGED <<conn, request, env>> /\ conn[c] = "open"
      /\ Loaded(c, n) \/ Inferred(c, n) \/ Waited(c, n)
  BY RecvCases
<1>6. /\ sent'[c] = z /\ sent[c] < z /\ \A d \in Conns \ {c} : sent'[d] = sent[d]
  BY <1>1, <1>4, <1>5 DEF TypeOK
<1>7. \A d \in Conns \ {c} : echoed'[d] = echoed[d]
  BY <1>4, EchoProperties
<1>8. \A d \in Conns \ {c} : results'[d] = results[d]
  <2>1. CASE Inferred(c, n)
    BY <1>4, <2>1, InferredAnswers
  <2>2. CASE results' = results
    BY <2>2
  <2> QED  BY <1>5, <2>1, <2>2 DEF Loaded, Waited
<1>9. request[c] # "detect" /\ ~env.starved => echoed'[c] = [k \in 1 .. z |-> k]
  <2> SUFFICES ASSUME request[c] # "detect", ~env.starved PROVE echoed'[c] = [k \in 1 .. z |-> k]
    OBVIOUS
  <2>1. echoed'[c] = echoed[c] \o Numbers(c, n)
    BY <1>1, <1>4, EchoProperties
  <2>2. echoed[c] = [k \in 1 .. sent[c] |-> k]
    BY DEF Clean
  <2>3. Numbers(c, n) = [k \in 1 .. n |-> sent[c] + k]
    BY DEF Numbers
  <2> QED  BY <1>1, <2>1, <2>2, <2>3, NumbersJoin
<1>10. SafeInv'
  BY ArrivedTypes, ArrivedSent, ArrivedFrames, ArrivedLeds DEF SafeInv
<1>11. /\ Loaded(c, n) => VariantComplete(b)
       /\ Inferred(c, n) => DetectComplete(b)
       /\ Waited(c, n) => ~VariantComplete(b) /\ ~DetectComplete(b) /\ rx' = b
  BY DEF Loaded, Inferred, Waited
<1> HIDE DEF b, z
<1>12. z < RequestLen(c) => Waited(c, n) /\ rx' = Piece(c, 1, z)
  <2> SUFFICES ASSUME z # RequestLen(c) PROVE Waited(c, n) /\ rx' = Piece(c, 1, z)
    BY <1>1, <1>4
  <2> QED  BY <1>1, <1>2, <1>3, <1>5, <1>11
<1>13. z = RequestLen(c) /\ request[c] = "detect" => Inferred(c, n)
  BY <1>2, <1>5, <1>11
<1>14. z = RequestLen(c) /\ request[c] # "detect" => Loaded(c, n) /\ Value(b[3]) = request[c]
  BY <1>3, <1>5, <1>11
<1>15. b = Buffer(c, n) /\ b = Piece(c, 1, z)
  BY <1>1 DEF b
<1> QED
  BY <1>1, <1>5, <1>6, <1>7, <1>8, <1>9, <1>10, <1>12, <1>13, <1>14, <1>15

\* A polite client has the buffer to itself.
LEMMA PoliteClean ==
  ASSUME SafeInv, TurnOK, OwnAnswer, Polite, NEW c, NEW n, NEW unread, Arrived(c, n, unread)
  PROVE  Clean(c) /\ Polite'
<1>1. /\ c \in Conns /\ n \in Nat \ {0} /\ unread \in Nat /\ sent[c] \in Nat
      /\ sent[c] + n + unread <= RequestLen(c) /\ RequestLen(c) \in Nat
  BY BufferProperties, RequestLenTyped DEF SafeInv
<1>2. ~Complete(c)
  <2>1. sent[c] # RequestLen(c)
    BY <1>1
  <2> QED  BY <2>1 DEF Complete
<1>3. conn[c] = "open" /\ env' = env
  BY RecvCases
<1> QED  BY <1>1, <1>2, <1>3 DEF Clean, Asking, TurnOK, OwnAnswer, Polite, OneByOne

LEMMA PoliteStep ==
  ASSUME SafeInv, TurnOK, OwnAnswer, Polite, NEW c, NEW n, NEW unread, Arrived(c, n, unread)
  PROVE  TurnOK' /\ OwnAnswer'
<1>1. /\ c \in Conns /\ Polite' /\ UNCHANGED <<conn, request, env>> /\ conn[c] = "open"
      /\ sent[c] < sent'[c] /\ sent'[c] <= RequestLen(c)
      /\ \A d \in Conns \ {c} : UNCHANGED <<sent[d], echoed[d], results[d]>>
  BY PoliteClean, CleanArrival, RecvCases
<1>2. request[c] # "detect" /\ ~env.starved => echoed'[c] = [k \in 1 .. sent'[c] |-> k]
  BY PoliteClean, CleanArrival
<1>3. sent'[c] < RequestLen(c) => Waited(c, n) /\ rx' = Piece(c, 1, sent'[c])
  BY PoliteClean, CleanArrival
<1>4. /\ sent'[c] = RequestLen(c) /\ request[c] = "detect" => Inferred(c, n)
      /\ sent'[c] = RequestLen(c) /\ request[c] # "detect" => Loaded(c, n)
  BY PoliteClean, CleanArrival
<1>5. \A d \in Conns : RequestLen(d)' = RequestLen(d)
  BY <1>1 DEF RequestLen
<1>6. RequestLen(c) \in Nat /\ sent[c] \in Nat /\ sent'[c] \in Nat /\ sent'[c] # 0
      /\ results \in [Conns -> Seq(Answers)]
  <2>1. TypeOK /\ TypeOK'
    BY PoliteClean, CleanArrival DEF SafeInv
  <2>2. sent[c] \in Nat /\ sent'[c] \in Nat /\ results \in [Conns -> Seq(Answers)]
    <3>1. /\ sent \in [Conns -> 0 .. RxBufSize] /\ sent' \in [Conns -> 0 .. RxBufSize]
          /\ results \in [Conns -> Seq(Answers)]
      BY <2>1 DEF TypeOK, Answers
    <3>2. 0 .. RxBufSize \subseteq Nat
      BY EchoAssumption
    <3> QED  BY <1>1, <3>1, <3>2
  <2> QED  BY <1>1, <2>1, <2>2, RequestLenTyped
<1>7. Complete(c)' <=> sent'[c] = RequestLen(c)
  BY <1>5, <1>1 DEF Complete
<1>8. \A d \in Conns \ {c} : conn[d] # "open" /\ (Complete(d)' <=> Complete(d))
  BY <1>1, <1>5 DEF TurnOK, Complete
<1>9. ~Complete(c)
  <2>1. sent[c] # RequestLen(c)
    BY <1>1, <1>6
  <2> QED  BY <2>1 DEF Complete
<1>10. Complete(c)' => rx' = <<>>
  BY <1>4, <1>7 DEF Inferred, Loaded
<1>11. ~Complete(c)' => Waited(c, n) /\ rx' = Piece(c, 1, sent'[c])
  <2> SUFFICES ASSUME sent'[c] # RequestLen(c) PROVE sent'[c] < RequestLen(c)
    BY <1>3, <1>7
  <2> QED  BY <1>1, <1>6
<1>12. TurnOK'
  <2>1. \A d \in Conns : Asking(d)' => d = c /\ ~Complete(c)'
    BY <1>1, <1>8 DEF Asking
  <2>2. ~Complete(c)' => Asking(c)'
    BY <1>1 DEF Asking
  <2>3. /\ \A d \in Conns : Asking(d)' => rx' = Piece(d, 1, sent'[d])
        /\ (\A d \in Conns : ~Asking(d)') => rx' = <<>>
    BY <1>1, <1>10, <1>11, <2>1, <2>2
  <2>4. \A d, e \in Conns : conn'[d] = "open" /\ conn'[e] = "open" => d = e
    BY <1>1 DEF TurnOK
  <2>5. \A d \in Conns : conn'[d] = "closed" => Complete(d)'
    BY <1>1, <1>8 DEF TurnOK
  <2>6. \A d \in Conns :
          request'[d] # "detect" /\ ~env'.starved => echoed'[d] = [k \in 1 .. sent'[d] |-> k]
    <3> SUFFICES ASSUME NEW d \in Conns, request[d] # "detect", ~env.starved
                 PROVE  echoed'[d] = [k \in 1 .. sent'[d] |-> k]
      BY <1>1
    <3>1. CASE d = c
      BY <1>2, <3>1
    <3>2. CASE d # c
      BY <1>1, <3>2 DEF TurnOK
    <3> QED  BY <3>1, <3>2
  <2> QED  BY <2>3, <2>4, <2>5, <2>6 DEF TurnOK
<1>13. ASSUME NEW d \in Conns
       PROVE  IF request'[d] = "detect" /\ Complete(d)'
              THEN \/ Len(results'[d]) = 1 /\ results'[d][1].frame \in {Whole(d)', NoDigit.frame}
                   \/ env'.starved /\ results'[d] = <<>>
              ELSE results'[d] = <<>>
  <2>1. CASE d # c
    <3>1. Whole(d)' = Whole(d) /\ results'[d] = results[d] /\ request'[d] = request[d]
          /\ (Complete(d)' <=> Complete(d))
      BY <1>1, <1>5, <1>8, <2>1 DEF Whole
    <3>2. IF request[d] = "detect" /\ Complete(d)
          THEN \/ Len(results[d]) = 1 /\ results[d][1].frame \in {Whole(d), NoDigit.frame}
               \/ env.starved /\ results[d] = <<>>
          ELSE results[d] = <<>>
      BY DEF OwnAnswer
    <3>3. env' = env
      BY <1>1
    <3> QED  BY <3>1, <3>2, <3>3
  <2>2. CASE d = c /\ request[c] = "detect" /\ Complete(c)'
    <3>1. Buffer(c, n) = Whole(c)' /\ Inferred(c, n)
      <4>1. Buffer(c, n) = Piece(c, 1, sent'[c])
        BY PoliteClean, CleanArrival
      <4> QED  BY <1>4, <1>5, <1>7, <1>1, <2>2, <4>1 DEF Whole
    <3>2. results[c] = <<>>
      BY PoliteClean DEF Clean
    <3>3. PICK digit \in {Digit(Buffer(c, n), fabric), NoDigit} :
            /\ results'[c] \in {<<>>, <<digit>>}
            /\ ~env.starved => results'[c] = <<digit>>
      BY <3>1, <3>2, InferredAnswers DEF SafeInv
    <3>4. digit.frame \in {Whole(c)', NoDigit.frame}
      BY <3>1, <3>3 DEF Digit
    <3>5. Len(<<digit>>) = 1 /\ <<digit>>[1] = digit
      OBVIOUS
    <3> QED  BY <1>1, <2>2, <3>3, <3>4, <3>5
  <2>3. CASE d = c /\ ~(request[c] = "detect" /\ Complete(c)')
    <3>1. results[c] = <<>>
      BY PoliteClean DEF Clean
    <3>2. results' = results
      BY <1>4, <1>7, <1>11, <2>3 DEF Loaded, Waited
    <3> QED  BY <1>1, <2>3, <3>1, <3>2
  <2> QED  BY <1>1, <2>1, <2>2, <2>3
<1>14. OwnAnswer'
  BY <1>13 DEF OwnAnswer
<1> QED  BY <1>12, <1>14

LEMMA EmptyPiece ==
  ASSUME NEW c \in Conns, NEW a \in Nat \ {0} PROVE Piece(c, a, a - 1) = <<>>
<1>1. (a - 1) - a + 1 = 0 /\ 1 .. 0 = {}
  OBVIOUS
<1>2. Piece(c, a, a - 1) = [k \in 1 .. 0 |-> <<c, a + k - 1>>]
  BY <1>1 DEF Piece
<1>3. [k \in 1 .. 0 |-> <<c, a + k - 1>>] = <<>>
  OBVIOUS
<1> QED  BY <1>2, <1>3

LEMMA OtherTurn ==
  ASSUME SafeInv, TurnOK, OwnAnswer, 
         \/ Start /\ UNCHANGED server
         \/ LateLoad
         \/ \E c \in Conns : Accept(c) \/ Close(c)
         \/ UNCHANGED vars
  PROVE  TurnOK' /\ OwnAnswer'
<1>1. /\ UNCHANGED <<rx, request, sent, echoed, results, env>>
      /\ SentOK /\ conn \in [Conns -> {"new", "open", "closed"}]
  BY DEF Start, Initialise, AddInterface, StartApplication, server, LateLoad, Accept, Close,
         boot, vars, SafeInv, TypeOK
<1>2. /\ \A d \in Conns : (Complete(d)' <=> Complete(d)) /\ Whole(d)' = Whole(d)
      /\ Polite' = Polite /\ OneByOne' = OneByOne
  BY <1>1 DEF Complete, Whole, RequestLen, Polite, OneByOne
<1>3. OwnAnswer'
  <2> SUFFICES ASSUME Polite, NEW d \in Conns
               PROVE IF request[d] = "detect" /\ Complete(d)
                     THEN \/ Len(results[d]) = 1
                             /\ results[d][1].frame \in {Whole(d), NoDigit.frame}
                          \/ env.starved /\ results[d] = <<>>
                     ELSE results[d] = <<>>
    BY <1>1, <1>2 DEF OwnAnswer
  <2> QED  BY DEF OwnAnswer
<1> SUFFICES ASSUME Polite PROVE TurnOK'
  BY <1>2, <1>3 DEF TurnOK
<1>4. CASE conn' = conn
  <2>1. \A d \in Conns : Asking(d)' <=> Asking(d)
    BY <1>2, <1>4 DEF Asking
  <2> QED  BY <1>1, <1>2, <1>4, <2>1 DEF TurnOK
<1>5. ASSUME NEW c \in Conns, Accept(c) PROVE TurnOK'
  <2>1. conn[c] = "new" /\ conn' = [conn EXCEPT ![c] = "open"] /\ \A d \in Conns : conn[d] # "open"
    BY <1>5 DEF Accept, Polite, OneByOne
  <2>2. conn'[c] = "open" /\ \A d \in Conns \ {c} : conn'[d] = conn[d]
    BY <1>1, <2>1
  <2>3. rx = <<>> /\ sent[c] = 0
    BY <1>1, <2>1 DEF TurnOK, Asking, SentOK
  <2>4. Piece(c, 1, 0) = <<>>
    BY EmptyPiece
  <2>5. \A d \in Conns : Asking(d)' => d = c
    BY <2>1, <2>2 DEF Asking
  <2>6. \A d \in Conns : Asking(d)' => rx' = Piece(d, 1, sent'[d])
    BY <1>1, <2>3, <2>4, <2>5
  <2>7. rx' = <<>>
    BY <1>1, <2>3
  <2>8. /\ \A d, e \in Conns : conn'[d] = "open" /\ conn'[e] = "open" => d = e
        /\ \A d \in Conns : conn'[d] = "closed" => Complete(d)'
    BY <1>2, <2>1, <2>2 DEF TurnOK
  <2>9. \A d \in Conns :
          request'[d] # "detect" /\ ~env'.starved => echoed'[d] = [k \in 1 .. sent'[d] |-> k]
    BY <1>1 DEF TurnOK
  <2> QED  BY <2>6, <2>7, <2>8, <2>9 DEF TurnOK
<1>6. ASSUME NEW c \in Conns, Close(c) PROVE TurnOK'
  <2>1. conn[c] = "open" /\ conn' = [conn EXCEPT ![c] = "closed"] /\ Complete(c)
    BY <1>6 DEF Close, Polite, Complete
  <2>2. conn'[c] = "closed" /\ \A d \in Conns \ {c} : conn'[d] = conn[d]
    BY <1>1, <2>1
  <2>3. \A d \in Conns : Asking(d)' <=> Asking(d)
    BY <1>2, <2>1, <2>2 DEF Asking
  <2>4. /\ \A d, e \in Conns : conn'[d] = "open" /\ conn'[e] = "open" => d = e
        /\ \A d \in Conns : conn'[d] = "closed" => Complete(d)'
    BY <1>2, <2>1, <2>2 DEF TurnOK
  <2> QED  BY <1>1, <2>3, <2>4 DEF TurnOK
<1>7. (Start /\ UNCHANGED server) \/ LateLoad \/ UNCHANGED vars => conn' = conn
  BY DEF server, LateLoad, vars
<1> QED  BY <1>4, <1>5, <1>6, <1>7

LEMMA TurnInit == Init => TurnOK /\ OwnAnswer
<1> SUFFICES ASSUME Init PROVE TurnOK /\ OwnAnswer
  OBVIOUS
<1>1. /\ rx = <<>>
      /\ \A c \in Conns : conn[c] = "new" /\ sent[c] = 0 /\ echoed[c] = <<>> /\ results[c] = <<>>
  BY DEF Init
<1>2. \A c \in Conns : ~Complete(c) /\ ~Asking(c)
  <2> SUFFICES ASSUME NEW c \in Conns PROVE RequestLen(c) # 0
    BY <1>1 DEF Complete, Asking
  <2>1. RequestLen(c) >= 3 /\ RequestLen(c) \in Nat
    BY SafeInit, RequestLenTyped DEF SafeInv
  <2> QED  BY <2>1
<1>3. [k \in 1 .. 0 |-> k] = <<>>
  OBVIOUS
<1> QED  BY <1>1, <1>2, <1>3 DEF TurnOK, OwnAnswer

TurnInv == SafeInv /\ TurnOK /\ OwnAnswer

LEMMA TurnStep == TurnInv /\ [Next]_vars => TurnInv'
<1> SUFFICES ASSUME TurnInv, [Next]_vars PROVE TurnInv'
  OBVIOUS
<1>1. SafeInv' /\ SafeInv /\ TurnOK /\ OwnAnswer
  BY SafeStep DEF TurnInv
<1>2. CASE Receive
  <2>1. PICK c, n, unread : Arrived(c, n, unread)
    BY <1>2, ReceiveArrives
  <2>2. CASE Polite
    BY <1>1, <2>1, <2>2, PoliteStep DEF TurnInv
  <2>3. CASE ~Polite
    <3>1. ~Polite'
      BY <2>1, <2>3, RecvCases DEF Polite, OneByOne
    <3> QED  BY <1>1, <3>1 DEF TurnInv, TurnOK, OwnAnswer
  <2> QED  BY <2>2, <2>3
<1>3. CASE \/ Start /\ UNCHANGED server
           \/ LateLoad
           \/ \E c \in Conns : Accept(c) \/ Close(c)
           \/ UNCHANGED vars
  BY <1>1, <1>3, OtherTurn DEF TurnInv
<1> QED  BY <1>2, <1>3 DEF Next

LEMMA TurnInvariant == Spec => []TurnInv
<1>1. Init => TurnInv
  BY SafeInit, TurnInit DEF TurnInv
<1> QED  BY <1>1, TurnStep, PTL DEF Spec

\* Clients that wait their turn get one answer each, to their own frame or to
\* none, however their requests are cut, unless lwIP has no memory for it; nobody else
\* is sent a result.
THEOREM AnswersAreOwn == Spec => []OwnAnswer
BY TurnInvariant, PTL DEF TurnInv

-----------------------------------------------------------------------------
\* What the last segment does where the driver works.
LEMMA WorkingDriver ==
  ASSUME SafeInv, ~env.faults, NEW c, NEW n, NEW unread, Arrived(c, n, unread), Clean(c),
         sent'[c] = RequestLen(c)
  PROVE  /\ request[c] = "detect" =>
              /\ fabric' = fabric /\ results[c] = <<>>
              /\ ~env.starved => /\ Len(results'[c]) = 1 /\ results'[c] # <<>>
                                 /\ results'[c][1] = Digit(Whole(c), fabric)
         /\ request[c] \in Variants => fabric' = request[c]
         /\ request[c] = "unassigned" => fabric' = fabric
<1>1. c \in Conns
  BY CleanArrival
<1>2. CASE request[c] = "detect"
  <2>1. Inferred(c, n) /\ results[c] = <<>> /\ request[c] \notin Variants
    BY <1>2, CleanArrival, EchoAssumption DEF Clean
  <2>2. PICK digit \in {Digit(Buffer(c, n), fabric), NoDigit} :
          Detect(Buffer(c, n), digit) /\ (~env.starved => results'[c] = <<digit>>)
    BY <2>1, InferredAnswers DEF SafeInv
  <2>3. digit = Digit(Whole(c), fabric)
    <3>1. Buffer(c, n) = Whole(c)
      <4>1. Buffer(c, n) = Piece(c, 1, sent'[c])
        BY CleanArrival
      <4> QED  BY <4>1 DEF Whole
    <3> QED  BY <2>2, <3>1 DEF Detect
  <2>4. Len(<<digit>>) = 1 /\ <<digit>> # <<>> /\ <<digit>>[1] = digit
    OBVIOUS
  <2>5. fabric' = fabric
    BY <2>1 DEF Inferred
  <2> QED  BY <1>2, <2>1, <2>2, <2>3, <2>4, <2>5
<1>3. CASE request[c] # "detect"
  <2>1. Loaded(c, n) /\ Value(Buffer(c, n)[3]) = request[c]
    BY <1>3, CleanArrival
  <2>2. LoadVariant(request[c])
    BY <2>1 DEF Loaded
  <2>3. late = {} /\ usable = Engines
    BY <1>1, RecvCases DEF SafeInv, BootOK, Dispatching
  <2>4. /\ request[c] \in Variants => fabric' = request[c]
        /\ request[c] \notin Variants => fabric' = fabric
    <3>1. ~env.faults /\ late = {} /\ usable = Engines =>
            /\ late' = {}
            /\ request[c] \in Variants =>
                 fabric' = request[c] /\ RGB1_Blue
            /\ request[c] \notin Variants => fabric' = fabric
      BY <1>1, <2>2, LoadVariantProperties DEF SafeInv
    <3> QED  BY <1>1, <2>3, <3>1
  <2>5. request[c] = "unassigned" => request[c] \notin Variants
    BY EchoAssumption
  <2> QED  BY <1>3, <2>4, <2>5
<1> QED  BY <1>2, <1>3

LEMMA ThreeEchoed ==
  ASSUME NEW s \in Nat
  PROVE  [k \in 1 .. s |-> k] = <<1, 2, 3>> <=> s = 3
<1>1. [k \in 1 .. s |-> k] \in [1 .. s -> Nat]
  OBVIOUS
<1>2. Len([k \in 1 .. s |-> k]) = s
  BY <1>1, FunctionIsSeq
<1>3. Len(<<1, 2, 3>>) = 3
  OBVIOUS
<1>4. [k \in 1 .. 3 |-> k] = <<1, 2, 3>>
  OBVIOUS
<1> QED  BY <1>2, <1>3, <1>4

\* When a polite client reads the echo of its whole command, the variant is loaded,
\* even if earlier pieces of other echoes were lost for want of memory.
THEOREM EchoTellsLoaded == Spec => SoundEchoMeansLoaded
<1>1. TurnInv /\ [Next]_vars => [Polite /\ ~env.faults => \A c \in Conns : EchoedLoaded(c)]_vars
  <2> SUFFICES ASSUME TurnInv, [Next]_vars, Polite, ~env.faults, NEW d \in Conns,
                      request[d] \in Variants, echoed'[d] = <<1, 2, 3>>, echoed[d] # echoed'[d]
               PROVE  fabric' = request[d]
    BY DEF EchoedLoaded
  <2>1. Receive
    BY DEF Next, server, LateLoad, Accept, Close, vars
  <2>2. PICK c, n, unread : Arrived(c, n, unread)
    BY <2>1, ReceiveArrives
  <2>3. SafeInv /\ TurnOK /\ OwnAnswer /\ SafeInv'
    BY SafeStep DEF TurnInv
  <2>4. c = d
    <3>1. \A e \in Conns \ {c} : UNCHANGED <<sent[e], echoed[e], results[e]>>
      BY <2>2, <2>3, PoliteClean, CleanArrival
    <3> QED  BY <3>1
  <2>5. request[d] # "detect" /\ RequestLen(d) = 3
    BY EchoAssumption DEF RequestLen
  <2>6. sent'[d] = 3
    <3>1. /\ echoed'[d] = echoed[d] \o Numbers(d, n) /\ Len(Numbers(d, n)) = n
          /\ n \in Nat \ {0} /\ sent[d] \in Nat /\ sent'[d] = sent[d] + n
          /\ Numbers(d, n)[n] = sent[d] + n
      <4>1. Clean(d) /\ n \in Nat \ {0} /\ sent[d] \in Nat /\ unread = 0
        BY <2>2, <2>3, <2>4, PoliteClean, CleanBuffer
      <4>2. sent'[d] = sent[d] + n
        BY <2>2, <2>3, <2>4, <4>1, RecvCases DEF SafeInv, TypeOK
      <4>3. Numbers(d, n) \in [1 .. n -> Nat]
        BY <4>1 DEF Numbers
      <4>4. Len(Numbers(d, n)) = n
        BY <4>1, <4>3, FunctionIsSeq
      <4>5. n \in 1 .. n
        BY <4>1
      <4>6. Numbers(d, n)[n] = sent[d] + n
        BY <4>5 DEF Numbers
      <4>7. echoed'[d] = echoed[d] \o Numbers(d, n)
        BY <2>2, <2>3, <2>4, EchoProperties DEF SafeInv
      <4> QED  BY <4>1, <4>2, <4>4, <4>6, <4>7
    <3>2. PICK p \in Seq(1 .. RxBufSize) : p = echoed[d]
      BY <2>3 DEF SafeInv, TypeOK
    <3>3. PICK q \in Seq(1 .. RxBufSize) : q = Numbers(d, n)
      <4>1. \A k \in 1 .. n : sent[d] + k \in 1 .. RxBufSize
        <5>1. sent[d] + n <= RxBufSize /\ RxBufSize \in Nat
          BY <2>2, <2>3, <2>4, BufferProperties, EchoAssumption DEF SafeInv
        <5> QED  BY <3>1, <5>1
      <4>2. Numbers(d, n) \in [1 .. n -> 1 .. RxBufSize]
        BY <4>1 DEF Numbers
      <4> QED  BY <3>1, <4>2, FunctionIsSeq
    <3>4. p \o q = <<1, 2, 3>> /\ Len(q) = n /\ q[n] = sent[d] + n
      BY <3>1, <3>2, <3>3
    <3>5. Len(p) \in Nat /\ Len(p \o q) = Len(p) + Len(q) /\ (p \o q)[Len(p) + n] = q[n]
      <4>1. Len(p) \in Nat /\ Len(p) + n \in 1 .. Len(p) + Len(q) /\ ~(Len(p) + n <= Len(p))
            /\ (Len(p) + n) - Len(p) = n
        BY <3>1, <3>2, <3>4, LenProperties
      <4>2. /\ Len(p \o q) = Len(p) + Len(q)
            /\ \A k \in 1 .. Len(p) + Len(q) :
                 (p \o q)[k] = IF k <= Len(p) THEN p[k] ELSE q[k - Len(p)]
        BY <3>2, <3>3, ConcatProperties
      <4> QED  BY <4>1, <4>2
    <3>6. Len(<<1, 2, 3>>) = 3 /\ <<1, 2, 3>>[3] = 3
      OBVIOUS
    <3>7. Len(p) + n = 3
      BY <3>4, <3>5, <3>6
    <3> QED  BY <3>1, <3>4, <3>5, <3>6, <3>7
  <2>7. sent'[d] = RequestLen(d)
    BY <2>5, <2>6
  <2>8. Arrived(d, n, unread) /\ Clean(d)
    BY <2>2, <2>3, <2>4, PoliteClean
  <2> QED  BY <2>3, <2>7, <2>8, WorkingDriver
<1> QED  BY <1>1, TurnInvariant, PTL DEF Spec, SoundEchoMeansLoaded

-----------------------------------------------------------------------------
\* What the server's state means to the abstract server.
FabricBar == IF Comparable THEN fabric ELSE "none"
AnswerOf(c) ==
  CASE ~Comparable -> "none"
    [] Comparable /\ request[c] = "detect"
         -> IF results[c] = <<>> THEN "none" ELSE results[c][1].by
    [] Comparable /\ request[c] # "detect"
         -> IF echoed[c] = <<1, 2, 3>> THEN "echoed" ELSE "none"
AnswerBar == [c \in Conns |-> AnswerOf(c)]

LEMMA InitRefines == Init => Abstract!Init
<1> SUFFICES ASSUME Init PROVE Abstract!Init
  OBVIOUS
<1>1. request \in [Conns -> Variants \cup {"unassigned", "detect"}]
  BY DEF Init, Requests, Codes
<1>2. FabricBar = "none"
  BY DEF Init, FabricBar
<1>3. AnswerBar = [c \in Conns |-> "none"]
  <2>1. <<>> # <<1, 2, 3>>
    OBVIOUS
  <2>2. ASSUME NEW c \in Conns PROVE AnswerOf(c) = "none"
    <3>1. results[c] = <<>> /\ echoed[c] = <<>>
      BY DEF Init
    <3> QED  BY <2>1, <3>1 DEF AnswerOf
  <2> QED  BY <2>2 DEF AnswerBar
<1> QED  BY <1>1, <1>2, <1>3 DEF Abstract!Init, FabricBar, AnswerBar, AnswerOf

LEMMA ServeRefines ==
  ASSUME NEW c \in Conns, AnswerOf(c) = "none",
         \A d \in Conns \ {c} : AnswerOf(d)' = AnswerOf(d)
  PROVE  AnswerBar[c] = "none" /\ AnswerBar' = [AnswerBar EXCEPT ![c] = AnswerOf(c)']
BY DEF AnswerBar

\* A step that answers nobody and leaves the partition alone is none of the abstract
\* server's.
LEMMA StutterRefines ==
  ASSUME UNCHANGED request, FabricBar' = FabricBar, \A d \in Conns : AnswerOf(d)' = AnswerOf(d)
  PROVE  UNCHANGED <<request, FabricBar, AnswerBar>>
BY DEF AnswerBar

LEMMA ArrivalRefines ==
  ASSUME TurnInv, Comparable, NEW c, NEW n, NEW unread, Arrived(c, n, unread)
  PROVE  Abstract!Next \/ UNCHANGED <<request, FabricBar, AnswerBar>>
<1>1. SafeInv /\ TurnOK /\ OwnAnswer /\ Polite /\ TypeOK /\ TypeOK'
  <2>1. SafeInv /\ TurnOK /\ OwnAnswer /\ Polite
    BY DEF TurnInv, Comparable
  <2>2. TypeOK'
    BY <2>1, ArrivedTypes DEF SafeInv
  <2> QED  BY <2>1, <2>2 DEF SafeInv
<1>2. /\ c \in Conns /\ UNCHANGED <<conn, request>> /\ sent[c] < sent'[c] /\ sent'[c] <= RequestLen(c)
      /\ \A d \in Conns \ {c} : UNCHANGED <<sent[d], echoed[d], results[d]>>
      /\ Buffer(c, n) = Piece(c, 1, sent'[c])
      /\ sent'[c] < RequestLen(c) => Waited(c, n)
  BY <1>1, PoliteClean, CleanArrival
<1>3. request[c] # "detect" =>
        /\ echoed'[c] = [k \in 1 .. sent'[c] |-> k]
        /\ echoed[c] = [k \in 1 .. sent[c] |-> k]
  <2>1. request[c] # "detect" => echoed'[c] = [k \in 1 .. sent'[c] |-> k]
    BY <1>1, PoliteClean, CleanArrival DEF Comparable
  <2>2. request[c] # "detect" => echoed[c] = [k \in 1 .. sent[c] |-> k]
    BY <1>1, <1>2 DEF TurnOK, Comparable
  <2> QED  BY <2>1, <2>2
<1>4. Comparable'
  BY RecvCases DEF Comparable, Polite, OneByOne
<1>5. /\ sent[c] \in Nat /\ sent'[c] \in Nat /\ RequestLen(c) \in Nat
      /\ request[c] # "detect" => RequestLen(c) = 3
  <2>1. sent[c] \in 0 .. RxBufSize /\ sent'[c] \in 0 .. RxBufSize
    BY <1>1, <1>2 DEF TypeOK
  <2>2. 0 .. RxBufSize \subseteq Nat
    BY EchoAssumption
  <2> QED  BY <1>1, <1>2, <2>1, <2>2, RequestLenTyped
<1>6. \A d \in Conns \ {c} : AnswerOf(d)' = AnswerOf(d)
  BY <1>2, <1>4 DEF AnswerOf
<1>7. request[c] # "detect" =>
        /\ AnswerOf(c)' = IF sent'[c] = 3 THEN "echoed" ELSE "none"
        /\ AnswerOf(c) = "none"
  <2> SUFFICES ASSUME request[c] # "detect"
               PROVE  /\ AnswerOf(c)' = IF sent'[c] = 3 THEN "echoed" ELSE "none"
                      /\ AnswerOf(c) = "none"
    OBVIOUS
  <2>1. sent[c] # 3
    BY <1>2, <1>5
  <2>2. [k \in 1 .. sent[c] |-> k] = <<1, 2, 3>> <=> sent[c] = 3
    BY <1>5, ThreeEchoed
  <2>3. [k \in 1 .. sent'[c] |-> k] = <<1, 2, 3>> <=> sent'[c] = 3
    BY <1>5, ThreeEchoed
  <2>4. (echoed[c] = <<1, 2, 3>>) = FALSE /\ (echoed'[c] = <<1, 2, 3>> <=> sent'[c] = 3)
    BY <1>3, <2>1, <2>2, <2>3, Zenon
  <2>5. request'[c] # "detect"
    BY <1>2
  <2> QED  BY <1>4, <2>4, <2>5 DEF AnswerOf
<1>8. CASE sent'[c] # RequestLen(c)
  <2>1. Waited(c, n)
    BY <1>2, <1>5, <1>8
  <2>2. fabric' = fabric /\ results' = results
    BY <2>1 DEF Waited
  <2>3. AnswerOf(c)' = AnswerOf(c)
    <3>1. CASE request[c] # "detect"
      BY <1>5, <1>7, <1>8, <3>1
    <3>2. CASE request[c] = "detect"
      BY <1>2, <1>4, <2>2, <3>2 DEF AnswerOf
    <3> QED  BY <3>1, <3>2
  <2>4. FabricBar' = FabricBar
    BY <1>4, <2>2 DEF FabricBar
  <2>5. \A d \in Conns : AnswerOf(d)' = AnswerOf(d)
    BY <1>6, <2>3
  <2> QED  BY <1>2, <2>4, <2>5, StutterRefines
<1>9. CASE sent'[c] = RequestLen(c)
  <2>1. /\ request[c] = "detect" =>
             fabric' = fabric /\ results[c] = <<>> /\ results'[c] # <<>> /\ results'[c][1].by = fabric
        /\ request[c] \in Variants => fabric' = request[c]
        /\ request[c] = "unassigned" => fabric' = fabric
    <3>1. Clean(c) /\ ~env.faults /\ ~env.starved
      BY <1>1, PoliteClean DEF Comparable
    <3>2. /\ request[c] = "detect" =>
               /\ fabric' = fabric /\ results[c] = <<>>
               /\ ~env.starved => /\ Len(results'[c]) = 1 /\ results'[c] # <<>>
                                  /\ results'[c][1] = Digit(Whole(c), fabric)
          /\ request[c] \in Variants => fabric' = request[c]
          /\ request[c] = "unassigned" => fabric' = fabric
      BY <1>1, <1>9, <3>1, WorkingDriver
    <3>3. Digit(Whole(c), fabric).by = fabric
      BY DEF Digit
    <3> QED  BY <3>1, <3>2, <3>3
  <2>2. request[c] \in Variants \cup {"unassigned", "detect"}
    BY <1>1, <1>2 DEF TypeOK, Requests, Codes
  <2>3. CASE request[c] = "detect"
    <3>1. AnswerOf(c) = "none" /\ AnswerOf(c)' = fabric
      BY <1>2, <1>4, <2>1, <2>3 DEF AnswerOf
    <3>2. AnswerBar[c] = "none" /\ AnswerBar' = [AnswerBar EXCEPT ![c] = FabricBar]
      <4>1. FabricBar = fabric
        BY DEF FabricBar
      <4>2. AnswerBar[c] = "none" /\ AnswerBar' = [AnswerBar EXCEPT ![c] = AnswerOf(c)']
        BY <1>2, <1>6, <3>1, ServeRefines
      <4> QED  BY <3>1, <4>1, <4>2
    <3>3. FabricBar' = FabricBar
      BY <1>4, <2>1, <2>3 DEF FabricBar
    <3>4. Abstract!Detect(c)
      BY <1>2, <2>3, <3>2, <3>3
         DEF Abstract!Detect, Abstract!Serve, FabricBar, AnswerBar, AnswerOf
    <3> QED  BY <1>2, <3>4 DEF Abstract!Next
  <2>4. CASE request[c] # "detect"
    <3>1. AnswerOf(c) = "none" /\ AnswerOf(c)' = "echoed"
      BY <1>5, <1>7, <1>9, <2>4
    <3>2. Abstract!Serve(c, "echoed")
      <4>1. AnswerBar[c] = "none" /\ AnswerBar' = [AnswerBar EXCEPT ![c] = AnswerOf(c)']
        BY <1>2, <1>6, <3>1, ServeRefines
      <4>2. AnswerBar' = [AnswerBar EXCEPT ![c] = "echoed"]
        BY <3>1, <4>1
      <4> QED  BY <1>2, <4>1, <4>2 DEF Abstract!Serve, AnswerBar, AnswerOf
    <3>3. CASE request[c] \in Variants
      <4>1. Abstract!LoadVariant(c)
        BY <1>4, <2>1, <3>2, <3>3 DEF Abstract!LoadVariant
      <4> QED  BY <1>2, <4>1 DEF Abstract!Next
    <3>4. CASE request[c] = "unassigned"
      <4>1. Abstract!Ignore(c)
        BY <1>4, <2>1, <3>2, <3>4 DEF Abstract!Ignore
      <4> QED  BY <1>2, <4>1 DEF Abstract!Next
    <3> QED  BY <2>2, <2>4, <3>3, <3>4
  <2> QED  BY <2>3, <2>4
<1> QED  BY <1>8, <1>9

LEMMA StepRefines ==
  TurnInv /\ [Next]_vars => Abstract!Next \/ UNCHANGED <<request, FabricBar, AnswerBar>>
<1> SUFFICES ASSUME TurnInv, [Next]_vars
             PROVE  Abstract!Next \/ UNCHANGED <<request, FabricBar, AnswerBar>>
  OBVIOUS
<1>1. CASE Receive
  <2>1. PICK c, n, unread : Arrived(c, n, unread)
    BY <1>1, ReceiveArrives
  <2>2. CASE Comparable
    BY <2>1, <2>2, ArrivalRefines
  <2>3. CASE ~Comparable
    <3>1. ~Comparable' /\ UNCHANGED request
      BY <2>1, <2>3, RecvCases DEF Comparable, Polite, OneByOne
    <3>2. FabricBar' = FabricBar /\ \A d \in Conns : AnswerOf(d)' = AnswerOf(d)
      BY <2>3, <3>1 DEF FabricBar, AnswerOf
    <3> QED  BY <3>1, <3>2, StutterRefines
  <2> QED  BY <2>2, <2>3
<1>2. CASE \/ Start /\ UNCHANGED server
           \/ LateLoad
           \/ \E c \in Conns : Accept(c) \/ Close(c)
           \/ UNCHANGED vars
  <2>1. UNCHANGED <<request, env, results, echoed>>
    BY <1>2 DEF Start, Initialise, AddInterface, StartApplication, server, LateLoad, Accept, Close,
                boot, vars
  <2>2. Comparable' = Comparable
    BY <2>1 DEF Comparable, Polite, OneByOne
  <2>3. Comparable => fabric' = fabric
    <3>1. ~env.faults => late = {}
      BY DEF TurnInv, SafeInv, BootOK
    <3>2. LateLoad => late # {}
      BY DEF LateLoad
    <3>3. LateLoad \/ fabric' = fabric
      BY <1>2 DEF server, Accept, Close, vars
    <3> QED  BY <3>1, <3>2, <3>3 DEF Comparable
  <2>4. FabricBar' = FabricBar /\ \A d \in Conns : AnswerOf(d)' = AnswerOf(d)
    BY <2>1, <2>2, <2>3 DEF FabricBar, AnswerOf
  <2> QED  BY <2>1, <2>4, StutterRefines
<1> QED  BY <1>1, <1>2 DEF Next

\* With whole requests one after the other, a driver that works and memory to write
\* in, the server implements the abstract one: each request is served in one step, and an answer
\* comes from the variant that is loaded at that moment.
THEOREM ServerImplements == Spec => ImplementsRequestServer
<1>1. TurnInv /\ [Next]_vars =>
        [Abstract!Next]_<<request, FabricBar, AnswerBar>>
  BY StepRefines
<1>2. Spec => Abstract!Init /\ [][Abstract!Next]_<<request, FabricBar, AnswerBar>>
  BY <1>1, InitRefines, TurnInvariant, PTL DEF Spec
<1> QED  BY <1>2, PTL DEF ImplementsRequestServer, Abstract!Spec, FabricBar, AnswerBar, AnswerOf

-----------------------------------------------------------------------------
\* A frame behind the bytes of a dead request that are no variant command: nothing
\* in it is taken for one, and the buffer is only taken for a frame when it is full.
LEMMA MixedBuffer ==
  ASSUME TypeOK, NEW c \in Conns, NEW st \in Seq(Bytes), NEW z \in Nat, z <= RxBufSize, z >= 1,
         request[c] = "detect", ~IsVariant(st)
  PROVE  /\ ~VariantComplete(st \o Piece(c, 1, z))
         /\ Len(st \o Piece(c, 1, z)) = Len(st) + z /\ Len(st) \in Nat
         /\ st = <<>> => /\ IsDetect(st \o Piece(c, 1, z))
                         /\ st \o Piece(c, 1, z) = Piece(c, 1, z)
<1> DEFINE w == Piece(c, 1, z)
           b == st \o w
<1>1. w \in Seq(Bytes) /\ Len(w) = z /\ w[1] = <<c, 1>>
  <2>1. 1 \in Nat \ {0} /\ 1 - 1 <= z /\ z - 1 + 1 = z /\ 1 \in 1 .. z - 1 + 1 /\ 1 + 1 - 1 = 1
    OBVIOUS
  <2>2. /\ w \in Seq(Bytes) /\ Len(w) = z - 1 + 1
        /\ \A k \in 1 .. z - 1 + 1 : w[k] = <<c, 1 + k - 1>>
    BY <2>1, PieceProperties
  <2>3. w[1] = <<c, 1 + 1 - 1>>
    BY <2>1, <2>2
  <2> QED  BY <2>1, <2>2, <2>3
<1> HIDE DEF w
<1>2. /\ Len(b) = Len(st) + z /\ Len(st) \in Nat
      /\ \A k \in 1 .. Len(st) + z : b[k] = IF k <= Len(st) THEN st[k] ELSE w[k - Len(st)]
  BY <1>1, ConcatProperties, LenProperties
<1>3. Value(w[1]) = "DA"
  <2>1. <<c, 1>>[1] = c /\ <<c, 1>>[2] = 1
    OBVIOUS
  <2> QED  BY <1>1, <2>1 DEF Value
<1> HIDE DEF b
<1>4. ASSUME IsVariant(b) PROVE FALSE
  <2>1. Len(b) >= 2 /\ 2 <= Len(st) + z /\ Value(b[1]) = "FA" /\ Value(b[2]) = "CE"
    BY <1>2, <1>4 DEF IsVariant
  <2>2. CASE Len(st) = 0
    <3>1. b[1] = w[1]
      <4>1. 1 \in 1 .. Len(st) + z /\ ~(1 <= Len(st)) /\ 1 - Len(st) = 1
        BY <1>2, <2>2
      <4> QED  BY <1>2, <4>1
    <3> QED  BY <1>3, <2>1, <3>1
  <2>3. CASE Len(st) = 1
    <3>1. b[2] = w[1]
      <4>1. 2 \in 1 .. Len(st) + z /\ ~(2 <= Len(st)) /\ 2 - Len(st) = 1
        BY <1>2, <2>3
      <4> QED  BY <1>2, <4>1
    <3> QED  BY <1>3, <2>1, <3>1
  <2>4. CASE Len(st) >= 2
    <3>1. b[1] = st[1] /\ b[2] = st[2]
      BY <1>2, <2>4
    <3> QED  BY <2>1, <2>4, <3>1 DEF IsVariant
  <2>5. Len(st) = 0 \/ Len(st) = 1 \/ Len(st) >= 2
    <3>1. \A m \in Nat : m = 0 \/ m = 1 \/ m >= 2
      OBVIOUS
    <3>2. Len(st) \in Nat
      BY <1>2
    <3> QED  BY ONLY <3>1, <3>2
  <2> QED  BY <2>2, <2>3, <2>4, <2>5
<1>5. ASSUME st = <<>> PROVE IsDetect(b) /\ b = w
  <2>1. b = w
    BY <1>1, <1>5, ConcatEmptySeq DEF b
  <2> QED  BY <1>1, <1>3, <2>1 DEF IsDetect
<1>6. ~VariantComplete(b)
  BY <1>4 DEF VariantComplete
<1> QED  BY <1>2, <1>5, <1>6 DEF b, w

\* The rest of a frame whose first byte is gone is taken for nothing.
LEMMA RestIsInert ==
  ASSUME TypeOK, NEW c \in Conns, request[c] = "detect",
         NEW p \in Nat \ {0}, NEW z \in Nat, p < z, z <= RxBufSize
  PROVE  ~VariantComplete(Piece(c, p + 1, z)) /\ ~DetectComplete(Piece(c, p + 1, z))
<1> DEFINE b == Piece(c, p + 1, z)
<1>1. b[1] = <<c, p + 1>>
  <2>1. /\ p + 1 \in Nat \ {0} /\ (p + 1) - 1 <= z /\ 1 \in 1 .. z - (p + 1) + 1
        /\ p + 1 + 1 - 1 = p + 1
    OBVIOUS
  <2>2. \A k \in 1 .. z - (p + 1) + 1 : b[k] = <<c, p + 1 + k - 1>>
    BY <2>1, PieceProperties
  <2>3. b[1] = <<c, p + 1 + 1 - 1>>
    BY <2>1, <2>2
  <2> QED  BY <2>1, <2>3
<1> HIDE DEF b
<1>2. Value(b[1]) = "pixel"
  <2>1. <<c, p + 1>>[1] = c /\ <<c, p + 1>>[2] = p + 1 /\ p + 1 # 1
    OBVIOUS
  <2> QED  BY <1>1, <2>1 DEF Value
<1>3. ~VariantComplete(b) /\ ~DetectComplete(b)
  BY <1>2 DEF VariantComplete, DetectComplete, IsVariant, IsDetect
<1> QED  BY <1>3 DEF b

\* A segment of a frame: what was in front of it stays there, or is freed.
LEMMA FrameArrival ==
  ASSUME SafeInv, StaleOK, OneByOne, NEW c, NEW n, NEW unread, Arrived(c, n, unread),
         request[c] = "detect", ~IsVariant(stale'[c])
  PROVE  Behind(c)' \/ Freed(c)'
<1> DEFINE s  == sent[c]
           z  == sent[c] + n
           st == stale'[c]
           b  == Buffer(c, n)
<1>1. TypeOK /\ SentOK /\ FramesOK
  BY DEF SafeInv
<1>2. /\ c \in Conns /\ n \in Nat \ {0} /\ s \in Nat /\ z \in Nat /\ z <= RxBufSize /\ z >= 1
      /\ s <= z /\ s <= RxBufSize /\ RxBufSize \in Nat
      /\ Segment(c, n) = Piece(c, s + 1, z) /\ Segment(c, n) \in Seq(Bytes) /\ Len(Segment(c, n)) = n
  BY <1>1, BufferProperties, EchoAssumption DEF Segment
<1>3. /\ unread = 0 /\ conn[c] = "open" /\ conn' = conn /\ request' = request /\ env' = env
      /\ sent' = [sent EXCEPT ![c] = s + n + unread]
      /\ stale' = [stale EXCEPT ![c] = IF s = 0 THEN rx ELSE stale[c]]
      /\ Loaded(c, n) \/ Inferred(c, n) \/ Waited(c, n)
  BY RecvCases DEF Arrived, OneByOne
<1>4. sent'[c] = z /\ st = IF s = 0 THEN rx ELSE stale[c]
  BY <1>1, <1>2, <1>3 DEF TypeOK
<1>5. st \in Seq(Bytes) /\ rx \in Seq(Bytes) /\ Len(st) \in Nat /\ Len(rx) \in Nat
  <2>1. st \in Seq(Bytes) /\ rx \in Seq(Bytes)
    BY <1>1, <1>2, <1>4 DEF TypeOK
  <2> QED  BY <2>1, LenProperties
<1>6. \/ rx = st \o Piece(c, 1, s) /\ results[c] = <<>>
      \/ \E p \in 1 .. s : /\ rx = Piece(c, p + 1, s)
                           /\ \/ Len(st) + p = RxBufSize /\ (Len(results[c]) = 1 \/ env.starved)
                              \/ Len(st) + p > RxBufSize
  <2>1. CASE s = 0
    <3>1. Piece(c, 1, s) = <<>>
      <4>1. Piece(c, 1, 1 - 1) = <<>>
        BY <1>2, EmptyPiece
      <4> QED  BY <2>1, <4>1
    <3>2. rx \o <<>> = rx
      BY <1>5, ConcatEmptySeq
    <3>3. results[c] = <<>>
      BY <1>1, <1>2, <2>1 DEF SentOK
    <3> QED  BY <1>4, <2>1, <3>1, <3>2, <3>3
  <2>2. CASE s # 0
    <3>1. st = stale[c] /\ ~IsVariant(stale[c])
      BY <1>4, <2>2
    <3>2. Behind(c) \/ Freed(c)
      BY <1>2, <1>3, <2>2, <3>1 DEF StaleOK
    <3> QED  BY <3>1, <3>2 DEF Behind, Freed
  <2> QED  BY <2>1, <2>2
<1>7. b = IF Len(rx) + n <= RxBufSize THEN rx \o Segment(c, n) ELSE <<>>
  BY <1>2 DEF Buffer, Collect
<1>8. ~VariantComplete(<<>>) /\ ~DetectComplete(<<>>)
  BY DEF VariantComplete, DetectComplete, IsVariant, IsDetect
<1>9. /\ Loaded(c, n) => VariantComplete(b)
      /\ Inferred(c, n) => DetectComplete(b) /\ rx' = <<>>
      /\ Waited(c, n) => ~VariantComplete(b) /\ ~DetectComplete(b) /\ rx' = b /\ results' = results
  BY DEF Loaded, Inferred, Waited
<1>10. Piece(c, z + 1, z) = <<>>
  <2>1. z + 1 \in Nat \ {0} /\ (z + 1) - 1 = z
    BY <1>2
  <2> QED  BY <1>2, <2>1, EmptyPiece
<1>11. Behind(c)' <=> rx' = st \o Piece(c, 1, z) /\ results'[c] = <<>>
  BY <1>4 DEF Behind
<1>12. Freed(c)' <=> \E p \in 1 .. z : /\ rx' = Piece(c, p + 1, z)
                                      /\ \/ /\ Len(st) + p = RxBufSize
                                            /\ Len(results'[c]) = 1 \/ env.starved
                                         \/ Len(st) + p > RxBufSize
  BY <1>3, <1>4 DEF Freed
<1> HIDE DEF s, z, st, b
<1>13. CASE rx = st \o Piece(c, 1, s) /\ results[c] = <<>>
  <2>1. Len(rx) = Len(st) + s /\ Piece(c, 1, s) \in Seq(Bytes)
    <3>1. 1 \in Nat \ {0} /\ 1 - 1 <= s /\ s - 1 + 1 = s
      BY <1>2
    <3>2. Piece(c, 1, s) \in Seq(Bytes) /\ Len(Piece(c, 1, s)) = s - 1 + 1
      BY <1>2, <3>1, PieceProperties
    <3>3. st \in Seq(Bytes) /\ Piece(c, 1, s) \in Seq(Bytes)
      BY <1>5, <3>2
    <3>4. Len(st \o Piece(c, 1, s)) = Len(st) + Len(Piece(c, 1, s))
      BY ONLY <3>3, ConcatProperties
    <3> QED  BY <1>13, <3>1, <3>2, <3>3, <3>4
  <2>2. CASE Len(rx) + n <= RxBufSize
    <3>1. b = st \o Piece(c, 1, z)
      <4>1. b = (st \o Piece(c, 1, s)) \o Piece(c, s + 1, z)
        BY <1>2, <1>7, <1>13, <2>2
      <4>2. b = st \o (Piece(c, 1, s) \o Piece(c, s + 1, z))
        <5>1. Piece(c, s + 1, z) \in Seq(Bytes)
          BY <1>2
        <5>2. st \in Seq(Bytes) /\ Piece(c, 1, s) \in Seq(Bytes)
          BY <1>5, <2>1
        <5>3. (st \o Piece(c, 1, s)) \o Piece(c, s + 1, z)
                = st \o (Piece(c, 1, s) \o Piece(c, s + 1, z))
          BY ONLY <5>1, <5>2, ConcatAssociative
        <5> QED  BY <4>1, <5>3
      <4>3. 1 \in Nat \ {0} /\ 1 - 1 <= s
        BY <1>2
      <4>4. Piece(c, 1, s) \o Piece(c, s + 1, z) = Piece(c, 1, z)
        BY <1>2, <4>3, PieceJoin
      <4> QED  BY <4>2, <4>4
    <3>2. ~VariantComplete(b) /\ Len(b) = Len(st) + z
      BY <1>1, <1>2, <1>5, <3>1, MixedBuffer DEF st
    <3>3. CASE Inferred(c, n)
      <4>1. DetectComplete(b) /\ rx' = <<>>
        BY <1>9, <3>3
      <4>2. Len(st) + z = RxBufSize
        <5>1. Len(b) >= RxBufSize
          BY <4>1 DEF DetectComplete
        <5>2. Len(b) <= RxBufSize
          BY <1>1, BufferProperties DEF b
        <5> QED  BY <1>2, <1>5, <3>2, <5>1, <5>2
      <4>3. Len(results'[c]) = 1 \/ env.starved
        <5>1. PICK digit : ~env.starved => results'[c] = <<digit>>
          BY <1>1, <1>13, <3>3, InferredAnswers
        <5> QED  BY <5>1
      <4>4. z \in 1 .. z
        BY <1>2
      <4> QED  BY <1>10, <1>12, <4>1, <4>2, <4>3, <4>4
    <3>4. CASE Waited(c, n)
      BY <1>9, <1>11, <1>13, <3>1, <3>4
    <3> QED  BY <1>3, <1>9, <3>2, <3>3, <3>4
  <2>3. CASE ~(Len(rx) + n <= RxBufSize)
    <3>1. b = <<>> /\ rx' = <<>>
      BY <1>3, <1>7, <1>8, <1>9, <2>3
    <3>2. Len(st) + z > RxBufSize
      BY <1>2, <1>5, <2>1, <2>3 DEF s, z
    <3>3. z \in 1 .. z
      BY <1>2
    <3> QED  BY <1>10, <1>12, <3>1, <3>2, <3>3
  <2> QED  BY <2>2, <2>3
<1>14. ASSUME NEW p \in 1 .. s, rx = Piece(c, p + 1, s),
              \/ Len(st) + p = RxBufSize /\ (Len(results[c]) = 1 \/ env.starved)
              \/ Len(st) + p > RxBufSize
       PROVE  Freed(c)'
  <2>1. /\ p + 1 \in Nat \ {0} /\ (p + 1) - 1 <= s /\ s - (p + 1) + 1 = s - p
        /\ p \in Nat \ {0} /\ p < z /\ p \in 1 .. z
    BY <1>2 DEF s, z
  <2>2. Len(rx) = s - p
    BY <1>2, <1>14, <2>1, PieceProperties
  <2>3. Len(rx) + n <= RxBufSize
    BY <1>2, <2>1, <2>2 DEF s, z
  <2>4. b = Piece(c, p + 1, z)
    <3>1. b = Piece(c, p + 1, s) \o Piece(c, s + 1, z)
      BY <1>2, <1>7, <1>14, <2>3
    <3> QED  BY <1>2, <2>1, <3>1, PieceJoin
  <2>5. ~VariantComplete(b) /\ ~DetectComplete(b)
    BY <1>1, <1>2, <2>1, <2>4, RestIsInert
  <2>6. rx' = b /\ results' = results
    BY <1>3, <1>9, <2>5
  <2> QED  BY <1>12, <1>14, <2>1, <2>4, <2>6
<1> QED  BY <1>6, <1>13, <1>14

StaleInv == SafeInv /\ StaleOK

LEMMA StaleStep == StaleInv /\ [Next]_vars => StaleInv'
<1> SUFFICES ASSUME StaleInv, [Next]_vars PROVE StaleInv'
  OBVIOUS
<1>1. SafeInv /\ SafeInv' /\ StaleOK /\ TypeOK
  BY SafeStep DEF StaleInv, SafeInv
<1>2. CASE Receive
  <2>1. PICK c, n, unread : Arrived(c, n, unread)
    BY <1>2, ReceiveArrives
  <2>2. /\ c \in Conns /\ UNCHANGED <<conn, request, env>> /\ conn[c] = "open"
        /\ Loaded(c, n) \/ Inferred(c, n) \/ Waited(c, n)
    BY <1>1, <2>1, BufferProperties, RecvCases
  <2>3. ~VariantComplete(rx)' /\ ~DetectComplete(rx)'
    <3>1. ~VariantComplete(rx') /\ ~DetectComplete(rx')
      BY <2>2 DEF Loaded, Inferred, Waited, VariantComplete, DetectComplete, IsVariant, IsDetect
    <3> QED
      BY <2>2, <3>1 DEF VariantComplete, DetectComplete, IsVariant, IsDetect, Value
  <2> SUFFICES ASSUME OneByOne, NEW d \in Conns, conn[d] = "open", request[d] = "detect",
                      ~IsVariant(stale[d])'
               PROVE  Behind(d)' \/ Freed(d)'
    BY <1>1, <2>2, <2>3 DEF StaleInv, StaleOK, OneByOne
  <2>4. d = c
    BY <1>1, <2>2 DEF StaleOK
  <2>5. ~IsVariant(stale'[c])
    BY <2>2, <2>4 DEF IsVariant, Value
  <2> QED  BY <1>1, <2>1, <2>4, <2>5, FrameArrival
<1>3. CASE \/ Start /\ UNCHANGED server
           \/ LateLoad
           \/ \E c \in Conns : Accept(c) \/ Close(c)
           \/ UNCHANGED vars
  <2>1. UNCHANGED <<rx, request, sent, results, stale, env>>
    BY <1>3 DEF Start, Initialise, AddInterface, StartApplication, server, LateLoad, Accept, Close,
                boot, vars
  <2>2. ~VariantComplete(rx)' /\ ~DetectComplete(rx)'
    BY <1>1, <2>1 DEF StaleOK, VariantComplete, DetectComplete, IsVariant, IsDetect, Value
  <2>3. \A d \in Conns : /\ IsVariant(stale[d])' <=> IsVariant(stale[d])
                         /\ Behind(d)' <=> Behind(d)
                         /\ Freed(d)' <=> Freed(d)
    BY <2>1 DEF IsVariant, Value, Behind, Freed
  <2>4. OneByOne' = OneByOne
    BY <2>1 DEF OneByOne
  <2>5. CASE \A d \in Conns : conn'[d] = "open" => conn[d] = "open"
    BY <1>1, <2>1, <2>2, <2>3, <2>4, <2>5 DEF StaleInv, StaleOK
  <2>6. ASSUME NEW c \in Conns, Accept(c) PROVE StaleOK'
    <3>1. /\ conn[c] = "new" /\ conn' = [conn EXCEPT ![c] = "open"]
          /\ OneByOne => \A d \in Conns : conn[d] # "open"
      BY <2>6 DEF Accept, OneByOne
    <3>2. sent[c] = 0 /\ \A d \in Conns \ {c} : conn'[d] = conn[d]
      BY <1>1, <3>1 DEF SafeInv, SentOK, TypeOK
    <3> QED  BY <2>1, <2>2, <2>4, <3>1, <3>2 DEF StaleOK
  <2>7. (\A d \in Conns : conn'[d] = "open" => conn[d] = "open") \/ \E c \in Conns : Accept(c)
    <3>1. CASE conn' = conn
      BY <3>1
    <3>2. ASSUME NEW c \in Conns, Close(c)
          PROVE  \A d \in Conns : conn'[d] = "open" => conn[d] = "open"
      BY <1>1, <3>2 DEF Close, TypeOK
    <3> QED  BY <1>3, <3>1, <3>2 DEF server, LateLoad, vars
  <2> QED  BY <1>1, <2>5, <2>6, <2>7 DEF StaleInv
<1> QED  BY <1>2, <1>3 DEF Next

LEMMA StaleInvariant == Spec => []StaleInv
<1>1. Init => StaleInv
  <2> SUFFICES ASSUME Init PROVE StaleOK
    BY SafeInit DEF StaleInv
  <2>1. rx = <<>> /\ \A c \in Conns : conn[c] = "new"
    BY DEF Init
  <2> QED  BY <2>1 DEF StaleOK, VariantComplete, DetectComplete, IsVariant, IsDetect
<1> QED  BY <1>1, StaleStep, PTL DEF Spec

\* Bytes of a dead request that wait in the buffer cannot wedge the server: unless
\* they are a variant command, a whole frame that comes behind them leaves fewer
\* bytes than it found, or no more and is answered if the answer can be written.
THEOREM BufferFrees == Spec => StaleShrinks
<1>1. StaleInv /\ [Next]_vars =>
        [OneByOne => \A c \in Conns :
           request[c] = "detect" /\ sent[c] < RxBufSize /\ sent'[c] = RxBufSize
             => \/ Len(rx') < Len(stale'[c])
                \/ Len(rx') <= Len(stale'[c]) /\ (Len(results'[c]) = 1 \/ env.starved)
                \/ IsVariant(stale'[c])]_vars
  <2> SUFFICES ASSUME StaleInv, [Next]_vars, OneByOne, NEW c \in Conns, request[c] = "detect",
                      sent[c] < RxBufSize, sent'[c] = RxBufSize, ~IsVariant(stale'[c])
               PROVE  \/ Len(rx') < Len(stale'[c])
                      \/ Len(rx') <= Len(stale'[c]) /\ (Len(results'[c]) = 1 \/ env.starved)
    OBVIOUS
  <2>1. SafeInv /\ StaleOK /\ TypeOK /\ SafeInv' /\ StaleOK' /\ TypeOK'
    BY StaleStep DEF StaleInv, SafeInv
  <2>2. RxBufSize \in Nat \ {0} /\ sent'[c] # sent[c]
    BY EchoAssumption, <2>1 DEF TypeOK
  <2>3. Receive
    BY <2>2 DEF Next, server, LateLoad, Accept, Close, vars
  <2>4. PICK d, n, unread : Arrived(d, n, unread)
    BY <2>3, ReceiveArrives
  <2>5. d = c /\ request' = request /\ env' = env
    BY <2>1, <2>2, <2>4, RecvCases DEF TypeOK
  <2>6. Behind(c)' \/ Freed(c)'
    BY <2>1, <2>4, <2>5, FrameArrival
  <2>7. stale'[c] \in Seq(Bytes) /\ Len(stale'[c]) \in Nat /\ Len(rx') \in Nat /\ Len(rx') <= RxBufSize
    BY <2>1, LenProperties DEF TypeOK
  <2>8. CASE Behind(c)'
    <3>1. rx' = stale'[c] \o Piece(c, 1, RxBufSize)
      BY <2>8 DEF Behind
    <3>2. RxBufSize \in Nat /\ RxBufSize <= RxBufSize /\ RxBufSize >= 1
      BY <2>2
    <3>3. Len(rx') = Len(stale'[c]) + RxBufSize
      BY <2>1, <2>7, <3>1, <3>2, MixedBuffer
    <3>4. stale'[c] = <<>>
      <4>1. Len(stale'[c]) = 0
        BY <2>7, <3>2, <3>3
      <4> QED  BY <2>7, <4>1, EmptySeq
    <3>5. IsDetect(rx') /\ Len(rx') >= RxBufSize
      <4>1. IsDetect(stale'[c] \o Piece(c, 1, RxBufSize))
        BY <2>1, <2>7, <3>2, <3>4, MixedBuffer
      <4> QED  BY <2>7, <3>1, <3>2, <3>3, <4>1
    <3>6. DetectComplete(rx)'
      BY <2>5, <3>5 DEF DetectComplete, IsDetect, Value
    <3> QED  BY <2>1, <3>6 DEF StaleOK
  <2>9. CASE Freed(c)'
    <3>1. PICK p \in 1 .. RxBufSize :
            /\ rx' = Piece(c, p + 1, RxBufSize)
            /\ \/ Len(stale'[c]) + p = RxBufSize /\ (Len(results'[c]) = 1 \/ env.starved)
               \/ Len(stale'[c]) + p > RxBufSize
      BY <2>5, <2>9 DEF Freed
    <3>2. /\ p + 1 \in Nat \ {0} /\ (p + 1) - 1 <= RxBufSize /\ RxBufSize <= RxBufSize
          /\ RxBufSize - (p + 1) + 1 = RxBufSize - p
      BY <2>2
    <3>3. Len(rx') = RxBufSize - p
      BY <2>2, <3>1, <3>2, PieceProperties
    <3>4. \/ RxBufSize - p = Len(stale'[c]) /\ (Len(results'[c]) = 1 \/ env.starved)
          \/ RxBufSize - p < Len(stale'[c])
      BY <2>2, <2>7, <3>1
    <3> QED  BY <3>3, <3>4
  <2> QED  BY <2>6, <2>8, <2>9
<1> QED  BY <1>1, StaleInvariant, PTL DEF Spec, StaleShrinks

-----------------------------------------------------------------------------
\* The desktop program.  What its variables may be, whoever fails.
WindowOK ==
  /\ GuiTypeOK /\ finished \subseteq env.clients
  /\ result_queue = <<>> \/ (result_queue = <<result_queue[1]>> /\ request_in_progress)
  /\ worker # NoConn =>
       /\ request_in_progress /\ result_queue = <<>>
       /\ worker \in env.clients /\ worker \notin finished
  /\ \A c \in Conns : conn[c] # "new" => c \in env.clients /\ c \in finished \cup {worker}
  /\ \A c \in Conns : conn[c] = "closed" => c \in finished
  /\ \A c \in env.clients : request[c] # "unassigned"

\* One request at a time is under way, and only its bytes are in the buffer.
Partial(c) == sent[c] \notin {0, RequestLen(c)}
AloneOK ==
  Sound =>
    /\ \A c, d \in Conns : conn[c] = "open" /\ (conn[d] = "open" \/ Partial(d)) => c = d
    /\ \A c \in Conns : Partial(c) => rx = Piece(c, 1, sent[c])
    /\ (\A c \in Conns : ~Partial(c)) => rx = <<>>
    /\ \A c \in Conns : request[c] # "detect" => echoed[c] = [k \in 1 .. sent[c] |-> k]
    /\ \A c \in Conns :
         IF request[c] = "detect" /\ Complete(c)
         THEN results[c] # <<>> /\ results[c][1].frame = Whole(c)
         ELSE results[c] = <<>>

\* What is known of the partition: while a variant request is under way, once all of
\* it has arrived; else unless one has failed, and then no other can still arrive.
Settled == \A c \in Conns : conn[c] = "open" => request[c] = "detect" \/ Complete(c)
Steady  == ~unsure => confirmed_variant = fabric /\ Settled
WorkerTells(c) ==
  IF request[c] # "detect"
  THEN Complete(c) => fabric = request[c]
  ELSE Steady /\ (results[c] # <<>> /\ ~unsure => results[c][1].by = confirmed_variant)
Tells(r) ==
  IF request[r.of] # "detect"
  THEN r.ok => fabric = request[r.of] /\ Settled
  ELSE /\ Steady
       /\ r.ok => r.digit.frame = Whole(r.of) /\ (~unsure => r.digit.by = confirmed_variant)
TellsOK ==
  Sound =>
    /\ \A c \in Conns : worker = c => WorkerTells(c)
    /\ result_queue # <<>> => Tells(result_queue[1])
    /\ worker = NoConn /\ result_queue = <<>> => Steady

GuiInv == SafeInv /\ WindowOK /\ AloneOK /\ TellsOK

LEMMA Clients ==
  ASSUME TypeOK
  PROVE  /\ env.clients \subseteq Conns /\ NoConn \notin Conns
         /\ env.faults \in BOOLEAN /\ env.chained \in BOOLEAN /\ env.starved \in BOOLEAN
BY EchoAssumption, GuiAssumption DEF TypeOK, BootTypeOK, Environment

\* What the thread may report.
LEMMA ThreadReports ==
  ASSUME Thread
  PROVE  /\ worker # NoConn
         /\ \E ok, digit :
              /\ ok \in BOOLEAN /\ Report(ok, digit)
              /\ ok /\ request[worker] # "detect" => echoed[worker] = <<1, 2, 3>>
              /\ ok /\ request[worker] = "detect" =>
                   results[worker] # <<>> /\ digit = results[worker][1]
<1>1. CASE VariantAnswered
  BY <1>1 DEF VariantAnswered
<1>2. CASE DetectAnswered
  BY <1>2 DEF DetectAnswered
<1>3. CASE GiveUp
  BY <1>3 DEF GiveUp
<1> QED  BY <1>1, <1>2, <1>3 DEF Thread

\* Seen from the board, the program is one of its environments.
LEMMA GuiBoardStep ==
  ASSUME TypeOK, GuiTypeOK, [GuiNext]_guiVars PROVE [Next]_vars /\ UNCHANGED <<env, request>>
<1>1. CASE Click \/ ResetClicked \/ PollQueue
  BY <1>1 DEF Click, ResetClicked, PollQueue, vars, server, boot
<1>2. CASE Thread
  <2>1. UNCHANGED vars
    BY <1>2, ThreadReports DEF Report
  <2> QED  BY <2>1 DEF vars, server, boot
<1>3. CASE Connect
  <2>1. worker \in Conns /\ Accept(worker)
    BY <1>3 DEF Connect, GuiTypeOK
  <2> QED  BY <2>1 DEF Next, Accept, boot
<1>4. CASE Arrive
  <2>1. Receive
    BY <1>4 DEF Arrive
  <2>2. PICK c, n, unread : Arrived(c, n, unread)
    BY <2>1, ReceiveArrives
  <2> QED  BY <2>1, <2>2, RecvCases DEF Next
<1>5. CASE Hangup
  <2>1. PICK c \in Conns : Close(c)
    BY <1>5 DEF Hangup, GuiTypeOK
  <2> QED  BY <2>1 DEF Next, Close, boot
<1>6. CASE BoardAlone
  BY <1>6 DEF BoardAlone, Next, Start, Initialise, AddInterface, StartApplication, server,
              LateLoad, boot
<1>7. CASE UNCHANGED guiVars
  BY <1>7 DEF guiVars, vars, server, boot
<1> QED  BY <1>1, <1>2, <1>3, <1>4, <1>5, <1>6, <1>7 DEF GuiNext

LEMMA WindowStep ==
  ASSUME SafeInv, SafeInv', WindowOK, [GuiNext]_guiVars PROVE WindowOK'
<1>1. /\ TypeOK /\ TypeOK' /\ GuiTypeOK /\ UNCHANGED <<env, request>>
      /\ env.clients \subseteq Conns /\ NoConn \notin Conns
  <2>1. TypeOK /\ TypeOK' /\ GuiTypeOK
    BY DEF SafeInv, WindowOK
  <2> QED  BY <2>1, Clients, GuiBoardStep
<1>2. CASE Click
  <2>1. env.clients \ finished # {} /\ worker' = CHOOSE c \in env.clients : c \notin finished
    BY <1>2 DEF Click
  <2>2. worker' \in env.clients /\ worker' \notin finished
    BY <2>1
  <2>3. /\ request_in_progress' = TRUE /\ conn' = conn
        /\ UNCHANGED <<finished, result_queue, confirmed_variant, prediction, unsure, mingled>>
        /\ worker = NoConn /\ result_queue = <<>>
    BY <1>2 DEF Click, WindowOK, vars, server
  <2>4. GuiTypeOK'
    BY <1>1, <2>2, <2>3 DEF GuiTypeOK
  <2> QED  BY <1>1, <2>2, <2>3, <2>4 DEF WindowOK
<1>3. CASE ResetClicked
  <2>1. /\ UNCHANGED <<request_in_progress, confirmed_variant, unsure, worker, finished,
                       result_queue, mingled, conn>>
        /\ prediction' = Blank
    BY <1>3 DEF ResetClicked, vars, server
  <2>2. GuiTypeOK'
    BY <1>1, <2>1 DEF GuiTypeOK, Blank
  <2> QED  BY <1>1, <2>1, <2>2 DEF WindowOK
<1>4. CASE Thread
  <2>1. PICK ok, digit : ok \in BOOLEAN /\ worker # NoConn /\ Report(ok, digit)
    BY <1>4, ThreadReports
  <2> DEFINE r == [of |-> worker, ok |-> ok, digit |-> digit]
  <2>2. /\ worker' = NoConn /\ finished' = finished \cup {worker}
        /\ result_queue' = Append(result_queue, r)
        /\ UNCHANGED <<request_in_progress, confirmed_variant, prediction, unsure, mingled, conn>>
    BY <2>1 DEF Report, window, vars, server
  <2>3. /\ request_in_progress /\ result_queue = <<>> /\ worker \in env.clients
    BY <2>1 DEF WindowOK
  <2>4. result_queue' = <<r>>
    BY <2>2, <2>3
  <2>5. Len(<<r>>) = 1 /\ DOMAIN <<r>> = {1} /\ <<r>>[1] = r /\ r.of = worker /\ r.ok = ok
    OBVIOUS
  <2> HIDE DEF r
  <2>6. GuiTypeOK'
    <3>1. finished' \subseteq Conns /\ finished \subseteq finished' /\ worker \in finished'
      BY <1>1, <2>2, <2>3 DEF GuiTypeOK
    <3>2. /\ Len(result_queue') <= 1
          /\ \A k \in DOMAIN result_queue' :
               result_queue'[k].of \in finished' /\ result_queue'[k].ok \in BOOLEAN
      <4>1. r.of \in finished' /\ r.ok \in BOOLEAN
        BY <2>1, <2>5, <3>1
      <4>2. \A k \in DOMAIN result_queue' : result_queue'[k] = r
        BY <2>4, <2>5
      <4> QED  BY <2>4, <2>5, <4>1, <4>2
    <3>3. prediction'.of \in finished' \cup {NoConn}
      BY <1>1, <2>2, <3>1 DEF GuiTypeOK
    <3> QED  BY <1>1, <2>2, <3>1, <3>2, <3>3 DEF GuiTypeOK
  <2>7. result_queue' = <<result_queue'[1]>> /\ request_in_progress'
    BY <2>2, <2>3, <2>4, <2>5
  <2>8. finished' \subseteq env.clients
    BY <2>2, <2>3 DEF WindowOK
  <2>9. \A c \in Conns : /\ conn'[c] # "new" => c \in env.clients /\ c \in finished'
                        /\ conn'[c] = "closed" => c \in finished'
    BY <2>2 DEF WindowOK
  <2> QED  BY <1>1, <2>2, <2>6, <2>7, <2>8, <2>9 DEF WindowOK
<1>5. CASE PollQueue
  <2> DEFINE r == result_queue[1]
  <2>1. /\ result_queue # <<>> /\ result_queue' = Tail(result_queue)
        /\ UNCHANGED <<worker, finished, mingled, conn>>
    BY <1>5 DEF PollQueue, vars, server
  <2>2. result_queue = <<r>> /\ worker = NoConn
    BY <2>1 DEF WindowOK
  <2>3. Tail(<<r>>) = <<>> /\ Head(<<r>>) = r /\ DOMAIN <<r>> = {1} /\ <<r>>[1] = r
    OBVIOUS
  <2>4. result_queue' = <<>> /\ Head(result_queue) = r
    BY <2>1, <2>2, <2>3
  <2>5. r.of \in finished /\ r.ok \in BOOLEAN
    <3>1. 1 \in DOMAIN result_queue
      BY <2>2, <2>3
    <3> QED  BY <1>1, <3>1 DEF GuiTypeOK
  <2>6. request[r.of] \in Variants \cup {"detect"}
    BY <1>1, <2>5 DEF WindowOK, TypeOK, Requests, Codes
  <2>7. IF request[r.of] = "detect" THEN HandleDetect(r) ELSE HandleVariant(r)
    BY <1>5, <2>4 DEF PollQueue
  <2> HIDE DEF r
  <2>8. /\ request_in_progress' = FALSE /\ unsure' \in BOOLEAN
        /\ confirmed_variant' \in Variants \cup {"none"}
        /\ prediction'.of \in finished \cup {NoConn}
    <3>1. CASE request[r.of] = "detect"
      <4>1. HandleDetect(r)
        BY <2>7, <3>1
      <4>2. UNCHANGED <<confirmed_variant, unsure>> /\ request_in_progress' = FALSE
        BY <4>1 DEF HandleDetect
      <4>3. prediction' = IF r.ok THEN [digit |-> r.digit, of |-> r.of] ELSE prediction
        BY <4>1 DEF HandleDetect
      <4>4. prediction'.of \in finished \cup {NoConn}
        BY <1>1, <2>5, <4>3 DEF GuiTypeOK
      <4> QED  BY <1>1, <4>2, <4>4 DEF GuiTypeOK
    <3>2. CASE request[r.of] # "detect"
      <4>1. HandleVariant(r)
        BY <2>7, <3>2
      <4> QED  BY <1>1, <2>5, <2>6, <3>2, <4>1 DEF HandleVariant, GuiTypeOK
    <3> QED  BY <3>1, <3>2
  <2>9. Len(<<>>) = 0 /\ DOMAIN <<>> = {}
    OBVIOUS
  <2>10. GuiTypeOK'
    <3>1. Len(result_queue') <= 1 /\ DOMAIN result_queue' = {}
      BY <2>4, <2>9
    <3>2. {unsure', mingled'} \subseteq BOOLEAN
      BY <1>1, <2>1, <2>8 DEF GuiTypeOK
    <3> QED  BY <1>1, <2>1, <2>8, <3>1, <3>2 DEF GuiTypeOK
  <2>11. worker' = NoConn /\ UNCHANGED <<finished, conn, env, request>>
    BY <1>1, <2>1, <2>2
  <2>12. /\ finished' \subseteq env'.clients
         /\ \A c \in Conns : conn'[c] # "new" => c \in env'.clients /\ c \in finished' \cup {worker'}
         /\ \A c \in Conns : conn'[c] = "closed" => c \in finished'
         /\ \A c \in env'.clients : request'[c] # "unassigned"
    BY <2>1, <2>11 DEF WindowOK
  <2> QED  BY <2>4, <2>10, <2>11, <2>12 DEF WindowOK
<1>6. CASE Connect \/ Arrive \/ Hangup \/ BoardAlone \/ UNCHANGED guiVars
  <2>1. /\ UNCHANGED <<request_in_progress, confirmed_variant, prediction, unsure, worker,
                       finished, result_queue>>
        /\ mingled' \in BOOLEAN
    BY <1>1, <1>6 DEF Connect, Arrive, Hangup, BoardAlone, guiVars, window, GuiTypeOK
  <2>2. GuiTypeOK'
    BY <1>1, <2>1 DEF GuiTypeOK
  <2>3. /\ \A c \in Conns : conn'[c] # "new" => conn[c] # "new" \/ c = worker
        /\ \A c \in Conns : conn'[c] = "closed" => conn[c] = "closed" \/ c \in finished
        /\ worker # NoConn => worker \in Conns
    <3>1. CASE Connect
      <4>1. conn' = [conn EXCEPT ![worker] = "open"]
        BY <3>1 DEF Connect, Accept
      <4> QED  BY <1>1, <4>1 DEF TypeOK, GuiTypeOK
    <3>2. CASE Hangup
      <4>1. PICK d \in finished : conn' = [conn EXCEPT ![d] = "closed"] /\ conn[d] = "open"
        BY <3>2 DEF Hangup, Close
      <4> QED  BY <1>1, <4>1 DEF TypeOK, GuiTypeOK
    <3>3. CASE Arrive
      <4>1. PICK c, n, unread : Arrived(c, n, unread)
        BY <3>3, ReceiveArrives DEF Arrive
      <4>2. conn' = conn
        BY <4>1, RecvCases
      <4> QED  BY <1>1, <4>2 DEF GuiTypeOK
    <3>4. CASE BoardAlone \/ UNCHANGED guiVars
      <4>1. conn' = conn
        BY <3>4 DEF BoardAlone, server, LateLoad, guiVars, vars
      <4> QED  BY <1>1, <4>1 DEF GuiTypeOK
    <3> QED  BY <1>6, <3>1, <3>2, <3>3, <3>4
  <2>4. ASSUME NEW c \in Conns, conn'[c] # "new"
        PROVE  c \in env.clients /\ c \in finished \cup {worker}
    <3>1. CASE conn[c] # "new"
      BY <3>1 DEF WindowOK
    <3>2. CASE c = worker
      BY <1>1, <3>2 DEF WindowOK
    <3> QED  BY <2>3, <2>4, <3>1, <3>2
  <2> QED  BY <1>1, <2>1, <2>2, <2>3, <2>4 DEF WindowOK
<1> QED  BY <1>2, <1>3, <1>4, <1>5, <1>6 DEF GuiNext

LEMMA GuiInitial == GuiInit => GuiInv
<1> SUFFICES ASSUME GuiInit PROVE GuiInv
  OBVIOUS
<1>1. SafeInv /\ Init
  BY SafeInit DEF GuiInit
<1>2. /\ request_in_progress = FALSE /\ worker = NoConn /\ finished = {}
      /\ result_queue = <<>> /\ confirmed_variant = "none" /\ prediction = Blank
      /\ unsure = FALSE /\ mingled = FALSE /\ fabric = "none" /\ rx = <<>>
      /\ \A c \in Conns : conn[c] = "new" /\ sent[c] = 0 /\ echoed[c] = <<>> /\ results[c] = <<>>
  BY <1>1 DEF GuiInit, Init
<1>3. GuiTypeOK
  <2>1. Len(result_queue) <= 1 /\ DOMAIN result_queue = {}
    <3>1. Len(<<>>) = 0 /\ DOMAIN <<>> = {}
      OBVIOUS
    <3> QED  BY <1>2, <3>1
  <2>2. prediction.of = NoConn
    BY <1>2 DEF Blank
  <2> QED  BY <1>1, <1>2, <2>1, <2>2 DEF GuiTypeOK, SafeInv
<1>4. WindowOK
  <2>1. \A c \in env.clients : request[c] # "unassigned"
    BY DEF GuiInit
  <2> QED  BY <1>2, <1>3, <2>1 DEF WindowOK
<1>5. AloneOK
  <2>1. \A c \in Conns : ~Complete(c) /\ ~Partial(c)
    <3> SUFFICES ASSUME NEW c \in Conns PROVE RequestLen(c) # 0
      BY <1>2 DEF Complete, Partial
    <3>1. RequestLen(c) >= 3 /\ RequestLen(c) \in Nat
      BY <1>1, RequestLenTyped DEF SafeInv
    <3> QED  BY <3>1
  <2>2. [k \in 1 .. 0 |-> k] = <<>>
    OBVIOUS
  <2> QED  BY <1>2, <2>1, <2>2 DEF AloneOK
<1>6. TellsOK
  BY <1>2, GuiAssumption DEF TellsOK, Steady, Settled
<1> QED  BY <1>1, <1>4, <1>5, <1>6 DEF GuiInv

\* A segment that arrives while the requests keep apart.
LEMMA AloneClean ==
  ASSUME SafeInv, AloneOK, Sound, NEW c, NEW n, NEW unread, Arrived(c, n, unread)
  PROVE  Clean(c)
<1>1. /\ c \in Conns /\ n \in Nat \ {0} /\ unread \in Nat /\ sent[c] \in Nat
      /\ sent[c] + n + unread <= RequestLen(c) /\ RequestLen(c) \in Nat
  BY BufferProperties, RequestLenTyped DEF SafeInv
<1>2. sent[c] # RequestLen(c) /\ conn[c] = "open"
  BY <1>1, RecvCases
<1>3. \A d \in Conns : Partial(d) => d = c
  BY <1>1, <1>2 DEF AloneOK
<1>4. rx = Piece(c, 1, sent[c])
  <2>1. CASE Partial(c)
    BY <1>1, <2>1 DEF AloneOK
  <2>2. CASE ~Partial(c)
    <3>1. sent[c] = 0 /\ rx = <<>>
      BY <1>2, <1>3, <2>2 DEF AloneOK, Partial
    <3>2. Piece(c, 1, 0) = <<>>
      BY <1>1, EmptyPiece
    <3> QED  BY <3>1, <3>2
  <2> QED  BY <2>1, <2>2
<1>5. results[c] = <<>> /\ (request[c] # "detect" => echoed[c] = [k \in 1 .. sent[c] |-> k])
  BY <1>1, <1>2 DEF AloneOK, Complete
<1> QED  BY <1>4, <1>5 DEF Clean, Sound

LEMMA AloneArrival ==
  ASSUME SafeInv, AloneOK, Sound, NEW c, NEW n, NEW unread, Arrived(c, n, unread),
         UNCHANGED mingled
  PROVE  AloneOK'
<1>1. Clean(c) /\ ~env.faults /\ ~env.starved
  BY AloneClean DEF Sound
<1>2. /\ c \in Conns /\ UNCHANGED <<conn, request>> /\ conn[c] = "open" /\ ~Complete(c)
      /\ sent[c] < sent'[c] /\ sent'[c] <= RequestLen(c)
      /\ \A d \in Conns \ {c} : UNCHANGED <<sent[d], echoed[d], results[d]>>
  BY <1>1, CleanArrival
<1>3. request[c] # "detect" => echoed'[c] = [k \in 1 .. sent'[c] |-> k]
  BY <1>1, CleanArrival
<1>4. sent'[c] < RequestLen(c) => Waited(c, n) /\ rx' = Piece(c, 1, sent'[c])
  BY <1>1, CleanArrival
<1>5. /\ sent'[c] = RequestLen(c) /\ request[c] = "detect" => Inferred(c, n)
      /\ sent'[c] = RequestLen(c) /\ request[c] # "detect" => Loaded(c, n)
  BY <1>1, CleanArrival
<1>6. \A d \in Conns : RequestLen(d)' = RequestLen(d)
  BY <1>2 DEF RequestLen
<1>7. RequestLen(c) \in Nat /\ sent[c] \in Nat /\ sent'[c] \in Nat /\ sent'[c] # 0
  <2>1. TypeOK /\ TypeOK'
    BY <1>1, CleanArrival DEF SafeInv
  <2>2. sent[c] \in 0 .. RxBufSize /\ sent'[c] \in 0 .. RxBufSize /\ 0 .. RxBufSize \subseteq Nat
    BY <1>2, <2>1, EchoAssumption DEF TypeOK
  <2> QED  BY <1>2, <2>1, <2>2, RequestLenTyped
<1>8. (Complete(c)' <=> sent'[c] = RequestLen(c)) /\ (Partial(c)' <=> sent'[c] # RequestLen(c))
  BY <1>2, <1>6, <1>7 DEF Complete, Partial
<1>9. \A d \in Conns \ {c} : /\ Complete(d)' <=> Complete(d)
                            /\ ~Partial(d) /\ ~Partial(d)' /\ Whole(d)' = Whole(d)
  BY <1>2, <1>6 DEF Complete, Partial, AloneOK, Whole
<1>10. Complete(c)' => rx' = <<>>
  BY <1>5, <1>8 DEF Inferred, Loaded
<1>11. ~Complete(c)' => Waited(c, n) /\ rx' = Piece(c, 1, sent'[c])
  <2> SUFFICES ASSUME sent'[c] # RequestLen(c) PROVE sent'[c] < RequestLen(c)
    BY <1>4, <1>8
  <2> QED  BY <1>2, <1>7
<1>12. \A d, e \in Conns : conn'[d] = "open" /\ (conn'[e] = "open" \/ Partial(e)') => d = e
  BY <1>2, <1>9 DEF AloneOK
<1>13. /\ \A d \in Conns : Partial(d)' => rx' = Piece(d, 1, sent'[d])
       /\ (\A d \in Conns : ~Partial(d)') => rx' = <<>>
  <2>1. \A d \in Conns : Partial(d)' => d = c /\ ~Complete(c)'
    BY <1>8, <1>9
  <2>2. ~Complete(c)' => Partial(c)'
    BY <1>8
  <2> QED  BY <1>2, <1>10, <1>11, <2>1, <2>2
<1>14. ASSUME NEW d \in Conns, request[d] # "detect"
       PROVE  echoed'[d] = [k \in 1 .. sent'[d] |-> k]
  <2>1. CASE d = c
    BY <1>3, <1>14, <2>1
  <2>2. CASE d # c
    BY <1>2, <1>14, <2>2 DEF AloneOK
  <2> QED  BY <2>1, <2>2
<1>15. ASSUME NEW d \in Conns
       PROVE  IF request'[d] = "detect" /\ Complete(d)'
              THEN results'[d] # <<>> /\ results'[d][1].frame = Whole(d)'
              ELSE results'[d] = <<>>
  <2>1. CASE d # c
    <3>1. Whole(d)' = Whole(d) /\ results'[d] = results[d] /\ request'[d] = request[d]
          /\ (Complete(d)' <=> Complete(d))
      BY <1>2, <1>9, <2>1
    <3> QED  BY <3>1 DEF AloneOK
  <2>2. CASE d = c /\ request[c] = "detect" /\ Complete(c)'
    <3>1. results'[c] # <<>> /\ results'[c][1] = Digit(Whole(c), fabric)
      BY <1>1, <1>8, <2>2, WorkingDriver
    <3>2. Digit(Whole(c), fabric).frame = Whole(c) /\ Whole(c)' = Whole(c)
      BY <1>2, <1>6 DEF Digit, Whole
    <3> QED  BY <1>2, <2>2, <3>1, <3>2
  <2>3. CASE d = c /\ ~(request[c] = "detect" /\ Complete(c)')
    <3>1. results[c] = <<>>
      BY <1>1 DEF Clean
    <3>2. results' = results
      BY <1>5, <1>8, <1>11, <2>3 DEF Loaded, Waited
    <3> QED  BY <1>2, <2>3, <3>1, <3>2
  <2> QED  BY <2>1, <2>2, <2>3
<1> QED  BY <1>2, <1>12, <1>13, <1>14, <1>15 DEF AloneOK

\* Whoever is accepted now finds no other connection open and nothing in the buffer.
LEMMA UnmingledConnect ==
  ASSUME SafeInv, WindowOK, Connect, ~mingled'
  PROVE  /\ worker \in Conns /\ worker # NoConn /\ conn[worker] = "new" /\ sent[worker] = 0
         /\ conn' = [conn EXCEPT ![worker] = "open"]
         /\ \A c \in Conns : ~Partial(c) /\ conn[c] # "open"
         /\ UNCHANGED <<rx, request, sent, echoed, results, fabric, env>>
         /\ UNCHANGED <<worker, result_queue, confirmed_variant, unsure>>
<1>1. /\ Accept(worker) /\ worker # NoConn
      /\ \A d \in finished : ~(conn[d] = "open" \/ sent[d] \notin {0, RequestLen(d)})
      /\ UNCHANGED <<worker, result_queue, confirmed_variant, unsure>>
  BY DEF Connect, window
<1>2. worker \in Conns /\ SentOK
  BY <1>1 DEF WindowOK, GuiTypeOK, SafeInv
<1>3. conn[worker] = "new" /\ sent[worker] = 0 /\ conn' = [conn EXCEPT ![worker] = "open"]
      /\ UNCHANGED <<rx, request, sent, echoed, results, fabric, env>>
  BY <1>1, <1>2 DEF Accept, SentOK, boot
<1>4. ASSUME NEW c \in Conns PROVE ~Partial(c) /\ conn[c] # "open"
  <2>1. CASE conn[c] = "new"
    BY <1>2, <2>1 DEF SentOK, Partial
  <2>2. CASE c \in finished
    BY <1>1, <2>2 DEF Partial
  <2>3. CASE c = worker
    BY <1>3, <2>3 DEF Partial
  <2> QED  BY <2>1, <2>2, <2>3 DEF WindowOK
<1> QED  BY <1>1, <1>2, <1>3, <1>4

LEMMA SoundBefore ==
  ASSUME TypeOK, GuiTypeOK, [GuiNext]_guiVars, Sound' PROVE Sound
<1>1. env' = env
  BY GuiBoardStep
<1>2. mingled => mingled'
  BY DEF GuiNext, Click, ResetClicked, Thread, VariantAnswered, DetectAnswered, GiveUp, Report,
         PollQueue, Connect, Arrive, Hangup, BoardAlone, guiVars
<1> QED  BY <1>1, <1>2 DEF Sound

LEMMA AloneStep ==
  ASSUME SafeInv, WindowOK, AloneOK, [GuiNext]_guiVars PROVE AloneOK'
<1> SUFFICES ASSUME Sound' PROVE AloneOK'
  BY DEF AloneOK
<1>1. /\ TypeOK /\ GuiTypeOK /\ Sound /\ request' = request
  <2>1. TypeOK /\ GuiTypeOK
    BY DEF SafeInv, WindowOK
  <2> QED  BY <2>1, SoundBefore, GuiBoardStep
<1>2. CASE /\ \A c \in Conns : conn'[c] = "open" => conn[c] = "open"
           /\ UNCHANGED <<rx, sent, echoed, results>>
  <2>1. \A c \in Conns : /\ Partial(c)' <=> Partial(c)
                         /\ Complete(c)' <=> Complete(c)
                         /\ Whole(c)' = Whole(c)
    BY <1>1, <1>2 DEF Partial, Complete, Whole, RequestLen
  <2> QED  BY <1>1, <1>2, <2>1 DEF AloneOK
<1>3. CASE Connect
  <2>1. /\ worker \in Conns /\ conn' = [conn EXCEPT ![worker] = "open"]
        /\ \A c \in Conns : ~Partial(c) /\ conn[c] # "open"
        /\ UNCHANGED <<rx, sent, echoed, results>>
    BY <1>3, UnmingledConnect DEF Sound
  <2>2. \A c \in Conns : /\ ~Partial(c)'
                         /\ Complete(c)' <=> Complete(c)
                         /\ Whole(c)' = Whole(c)
                         /\ conn'[c] = "open" => c = worker
    BY <1>1, <2>1 DEF Partial, Complete, Whole, RequestLen, TypeOK
  <2> QED  BY <1>1, <2>1, <2>2 DEF AloneOK
<1>4. CASE Arrive
  <2>1. PICK c, n, unread : Arrived(c, n, unread)
    BY <1>4, ReceiveArrives DEF Arrive
  <2> QED  BY <1>1, <1>4, <2>1, AloneArrival DEF Arrive
<1>5. CASE Hangup
  <2>1. PICK d \in finished : Close(d)
    BY <1>5 DEF Hangup
  <2> QED  BY <1>1, <1>2, <2>1 DEF Close, TypeOK
<1>6. CASE Click \/ ResetClicked \/ Thread \/ PollQueue \/ BoardAlone \/ UNCHANGED guiVars
  <2>1. UNCHANGED <<conn, rx, sent, echoed, results>>
    BY <1>6 DEF Click, ResetClicked, Thread, VariantAnswered, DetectAnswered, GiveUp, Report,
                PollQueue, BoardAlone, LateLoad, guiVars, vars, server
  <2> QED  BY <1>2, <2>1
<1> QED  BY <1>3, <1>4, <1>5, <1>6 DEF GuiNext

\* A segment tells the window nothing new, unless its own request is complete then.
LEMMA TellsArrival ==
  ASSUME SafeInv, WindowOK, AloneOK, TellsOK, Sound, Arrive PROVE TellsOK'
<1>1. PICK c, n, unread : Arrived(c, n, unread)
  BY ReceiveArrives DEF Arrive
<1>2. /\ UNCHANGED <<worker, finished, result_queue, mingled>>
      /\ UNCHANGED <<confirmed_variant, unsure>>
  BY DEF Arrive, window
<1>3. Clean(c) /\ ~env.faults /\ ~env.starved /\ c \in Conns
  BY <1>1, AloneClean, CleanArrival DEF Sound
<1>4. /\ UNCHANGED <<conn, request>> /\ conn[c] = "open" /\ ~Complete(c)
      /\ sent[c] < sent'[c] /\ sent'[c] <= RequestLen(c)
      /\ \A d \in Conns \ {c} : UNCHANGED <<sent[d], echoed[d], results[d]>>
  BY <1>1, <1>3, CleanArrival
<1>5. sent'[c] < RequestLen(c) => Waited(c, n)
  BY <1>1, <1>3, CleanArrival
<1>6. /\ \A d \in Conns : RequestLen(d)' = RequestLen(d) /\ Whole(d)' = Whole(d)
      /\ \A d \in Conns \ {c} : (Complete(d)' <=> Complete(d)) /\ conn[d] # "open"
      /\ Complete(c)' <=> sent'[c] = RequestLen(c)
  BY <1>3, <1>4 DEF RequestLen, Whole, Complete, AloneOK
<1>7. ~Complete(c)' => UNCHANGED <<fabric, results>>
  <2>1. RequestLen(c) \in Nat /\ sent'[c] \in 0 .. RxBufSize /\ 0 .. RxBufSize \subseteq Nat
    <3>1. TypeOK /\ TypeOK'
      BY <1>1, <1>3, CleanArrival DEF SafeInv
    <3>2. RequestLen(c) \in Nat
      BY <1>3, <3>1, RequestLenTyped
    <3>3. sent'[c] \in 0 .. RxBufSize
      BY <1>3, <3>1 DEF TypeOK
    <3>4. 0 .. RxBufSize \subseteq Nat
      BY EchoAssumption
    <3> QED  BY <3>2, <3>3, <3>4
  <2> SUFFICES ASSUME sent'[c] # RequestLen(c) PROVE UNCHANGED <<fabric, results>>
    BY <1>6
  <2>2. sent'[c] < RequestLen(c)
    BY <1>4, <2>1
  <2> QED  BY <1>5, <2>2 DEF Waited
<1>8. /\ request[c] # "unassigned"
      /\ worker # NoConn => worker \in Conns /\ worker \notin finished
      /\ \A r : result_queue # <<>> /\ r = result_queue[1] => r.of \in finished
  <2>1. request[c] # "unassigned" /\ (worker # NoConn => worker \in Conns /\ worker \notin finished)
    BY <1>3, <1>4 DEF WindowOK, GuiTypeOK
  <2>2. ASSUME result_queue # <<>> PROVE result_queue[1].of \in finished
    <3>1. result_queue = <<result_queue[1]>>
      BY <2>2 DEF WindowOK
    <3>2. 1 \in DOMAIN <<result_queue[1]>>
      OBVIOUS
    <3>3. 1 \in DOMAIN result_queue
      BY <3>1, <3>2
    <3> QED  BY <3>3 DEF WindowOK, GuiTypeOK
  <2> QED  BY <2>1, <2>2
<1>9. /\ Complete(c)' /\ request[c] = "detect" =>
           fabric' = fabric /\ results'[c][1] = Digit(Whole(c), fabric)
      /\ Complete(c)' /\ request[c] # "detect" => fabric' = request[c]
  <2> SUFFICES ASSUME sent'[c] = RequestLen(c)
               PROVE  /\ request[c] = "detect" =>
                           fabric' = fabric /\ results'[c][1] = Digit(Whole(c), fabric)
                      /\ request[c] # "detect" => fabric' = request[c]
    BY <1>6
  <2>1. request[c] \in Variants \cup {"unassigned", "detect"}
    BY <1>3 DEF SafeInv, TypeOK, Requests, Codes
  <2>2. /\ request[c] = "detect" =>
             /\ fabric' = fabric /\ results[c] = <<>>
             /\ ~env.starved => /\ Len(results'[c]) = 1 /\ results'[c] # <<>>
                                /\ results'[c][1] = Digit(Whole(c), fabric)
        /\ request[c] \in Variants => fabric' = request[c]
    BY <1>1, <1>3, WorkingDriver
  <2> QED  BY <1>3, <1>8, <2>1, <2>2
\* Where the partition's variant is known and nothing more can come, it stays.
<1>10. ASSUME Settled PROVE fabric' = fabric /\ Settled'
  <2>1. request[c] = "detect"
    BY <1>3, <1>4, <1>10 DEF Settled
  <2>2. fabric' = fabric
    BY <1>7, <1>9, <2>1
  <2>3. Settled'
    BY <1>4, <1>6, <2>1 DEF Settled
  <2> QED  BY <2>2, <2>3
<1>11. Steady => Steady'
  BY <1>2, <1>10 DEF Steady
<1>12. ASSUME NEW w \in Conns, worker = w, WorkerTells(w) PROVE WorkerTells(w)'
  <2>1. CASE request[w] # "detect" /\ c = w
    <3>1. Complete(w)' => fabric' = request[w]
      BY <1>9, <2>1
    <3> QED  BY <1>4, <2>1, <3>1 DEF WorkerTells
  <2>2. CASE request[w] # "detect" /\ c # w
    <3>1. ~Complete(w)
      <4>1. conn[w] # "open" /\ conn[w] # "closed"
        BY <1>6, <1>8, <1>12, <2>2, Clients DEF WindowOK, SafeInv
      <4>2. conn[w] = "new"
        BY <4>1 DEF SafeInv, TypeOK
      <4>3. sent[w] = 0
        BY <4>2 DEF SafeInv, SentOK
      <4>4. RequestLen(w) \in Nat /\ RequestLen(w) >= 3
        BY RequestLenTyped DEF SafeInv
      <4> QED  BY <4>3, <4>4 DEF Complete
    <3>2. ~Complete(w)'
      BY <1>6, <2>2, <3>1
    <3> QED  BY <1>4, <2>2, <3>2 DEF WorkerTells
  <2>3. CASE request[w] = "detect"
    <3>1. Steady /\ Steady' /\ (results[w] # <<>> /\ ~unsure => results[w][1].by = confirmed_variant)
      BY <1>11, <1>12, <2>3 DEF WorkerTells
    <3>2. ASSUME results'[w] # <<>>, ~unsure
          PROVE  results'[w][1].by = confirmed_variant
      <4>1. CASE c # w
        <5>1. results'[w] = results[w]
          BY <1>4, <4>1
        <5> QED  BY <3>1, <3>2, <5>1
      <4>2. CASE c = w /\ Complete(c)'
        <5>1. results'[c][1] = Digit(Whole(c), fabric)
          BY <1>9, <2>3, <4>2
        <5>2. results'[c][1].by = fabric
          BY <5>1 DEF Digit
        <5> QED  BY <3>1, <3>2, <4>2, <5>2 DEF Steady
      <4>3. CASE c = w /\ ~Complete(c)'
        <5>1. results'[w] = results[w]
          BY <1>7, <4>3
        <5> QED  BY <3>1, <3>2, <5>1
      <4> QED  BY <4>1, <4>2, <4>3
    <3> QED  BY <1>2, <1>4, <2>3, <3>1, <3>2 DEF WorkerTells
  <2> QED  BY <2>1, <2>2, <2>3
<1>13. ASSUME NEW r, result_queue # <<>>, r = result_queue[1], Tells(r) PROVE Tells(r)'
  <2>1. Whole(r.of)' = Whole(r.of)
    <3>1. r.of \in Conns
      BY <1>8, <1>13 DEF WindowOK, GuiTypeOK
    <3> QED  BY <1>6, <3>1
  <2> QED  BY <1>2, <1>4, <1>10, <1>11, <1>13, <2>1 DEF Tells
<1> QED  BY <1>2, <1>11, <1>12, <1>13 DEF TellsOK

LEMMA TellsStep ==
  ASSUME SafeInv, WindowOK, AloneOK, TellsOK, [GuiNext]_guiVars PROVE TellsOK'
<1> SUFFICES ASSUME Sound' PROVE TellsOK'
  BY DEF TellsOK
<1>1. /\ TypeOK /\ GuiTypeOK /\ Sound /\ UNCHANGED <<env, request>>
      /\ NoConn \notin Conns /\ env.clients \subseteq Conns /\ finished \subseteq Conns
  <2>1. TypeOK /\ GuiTypeOK
    BY DEF SafeInv, WindowOK
  <2> QED  BY <2>1, SoundBefore, GuiBoardStep, Clients DEF GuiTypeOK
\* What stays when the board does nothing.
<1>2. ASSUME UNCHANGED vars
      PROVE  /\ Settled' <=> Settled
             /\ \A c \in Conns : (Complete(c)' <=> Complete(c)) /\ Whole(c)' = Whole(c)
  BY <1>2 DEF vars, server, Settled, Complete, Whole, RequestLen
<1>3. CASE Click
  <2>1. /\ worker = NoConn /\ result_queue = <<>> /\ result_queue' = <<>>
        /\ UNCHANGED <<confirmed_variant, unsure, fabric, results>> /\ UNCHANGED vars
    BY <1>3 DEF Click, WindowOK, vars, server
  <2>2. worker' \in env.clients /\ worker' \notin finished
    <3>1. env.clients \ finished # {} /\ worker' = CHOOSE c \in env.clients : c \notin finished
      BY <1>3 DEF Click
    <3> QED  BY <3>1
  <2>3. Steady /\ Steady'
    BY <1>1, <1>2, <2>1 DEF TellsOK, Steady
  <2>4. ASSUME NEW c \in Conns, worker' = c PROVE WorkerTells(c)'
    <3>1. conn[c] = "new"
      BY <1>1, <2>1, <2>2, <2>4 DEF WindowOK
    <3>2. sent[c] = 0 /\ results[c] = <<>>
      BY <3>1 DEF SafeInv, SentOK
    <3>3. ~Complete(c)
      <4>1. RequestLen(c) \in Nat /\ RequestLen(c) >= 3
        BY <1>1, RequestLenTyped
      <4> QED  BY <3>2, <4>1 DEF Complete
    <3>4. ~Complete(c)' /\ results'[c] = <<>>
      BY <1>2, <2>1, <3>2, <3>3
    <3> QED  BY <2>3, <3>4 DEF WorkerTells
  <2> QED  BY <1>1, <2>1, <2>2, <2>4 DEF TellsOK
<1>4. CASE ResetClicked \/ UNCHANGED guiVars
  <2>1. /\ UNCHANGED <<worker, result_queue, confirmed_variant, unsure, fabric, results, request>>
        /\ UNCHANGED vars
    BY <1>4 DEF ResetClicked, guiVars, window, vars, server
  <2>2. Steady' <=> Steady
    BY <1>2, <2>1 DEF Steady
  <2>3. \A c \in Conns : WorkerTells(c)' <=> WorkerTells(c)
    BY <1>2, <2>1, <2>2 DEF WorkerTells
  <2>4. ASSUME result_queue # <<>>, Tells(result_queue[1]) PROVE Tells(result_queue[1])'
    <3>1. result_queue[1].of \in Conns
      <4>1. result_queue = <<result_queue[1]>>
        BY <2>4 DEF WindowOK
      <4>2. 1 \in DOMAIN <<result_queue[1]>>
        OBVIOUS
      <4>3. 1 \in DOMAIN result_queue
        BY <4>1, <4>2
      <4> QED  BY <1>1, <4>3 DEF GuiTypeOK
    <3>2. PICK r : r = result_queue[1] /\ r.of \in Conns
      BY <3>1
    <3>3. Tells(r)'
      BY <1>2, <2>1, <2>2, <2>4, <3>2 DEF Tells
    <3> QED  BY <2>1, <3>2, <3>3
  <2> QED  BY <1>1, <2>1, <2>2, <2>3, <2>4 DEF TellsOK
<1>5. CASE Thread
  <2>1. PICK ok, digit :
          /\ ok \in BOOLEAN /\ Report(ok, digit) /\ worker # NoConn
          /\ ok /\ request[worker] # "detect" => echoed[worker] = <<1, 2, 3>>
          /\ ok /\ request[worker] = "detect" =>
               results[worker] # <<>> /\ digit = results[worker][1]
    BY <1>5, ThreadReports
  <2>2. PICK w \in Conns : worker = w
    BY <1>1, <2>1 DEF GuiTypeOK
  <2>3. PICK r : r = [of |-> w, ok |-> ok, digit |-> digit]
    OBVIOUS
  <2>4. r.of = w /\ r.ok = ok /\ r.digit = digit
    BY <2>3
  <2>5. /\ worker' = NoConn /\ result_queue' = <<r>>
        /\ UNCHANGED <<confirmed_variant, unsure, fabric>> /\ UNCHANGED vars
    <3>1. result_queue = <<>>
      BY <2>1 DEF WindowOK
    <3>2. Append(<<>>, r) = <<r>>
      OBVIOUS
    <3> QED  BY <2>1, <2>2, <2>3, <3>1, <3>2 DEF Report, window, vars, server
  <2>6. WorkerTells(w)
    BY <1>1, <2>2 DEF TellsOK
  <2>7. Steady' <=> Steady
    BY <1>2, <2>5 DEF Steady
  <2>8. CASE request[w] # "detect"
    <3> SUFFICES ASSUME ok PROVE fabric = request[w] /\ Settled
      BY <1>1, <1>2, <2>4, <2>5, <2>8 DEF Tells, TellsOK
    <3>1. [k \in 1 .. sent[w] |-> k] = <<1, 2, 3>>
      BY <1>1, <2>1, <2>2, <2>8 DEF AloneOK
    <3>2. Complete(w)
      <4>1. sent[w] \in 0 .. RxBufSize /\ 0 .. RxBufSize \subseteq Nat
        BY <1>1, EchoAssumption DEF TypeOK
      <4>2. sent[w] = 3
        BY <3>1, <4>1, ThreeEchoed
      <4> QED  BY <2>8, <4>2 DEF Complete, RequestLen
    <3>3. conn[w] = "open"
      <4>1. sent[w] # 0
        <5>1. RequestLen(w) \in Nat /\ RequestLen(w) >= 3
          BY <1>1, RequestLenTyped
        <5> QED  BY <3>2, <5>1 DEF Complete
      <4>2. w \notin finished
        BY <2>1, <2>2 DEF WindowOK
      <4> QED  BY <1>1, <4>1, <4>2 DEF WindowOK, SafeInv, SentOK, TypeOK
    <3> QED  BY <1>1, <2>6, <2>8, <3>2, <3>3 DEF WorkerTells, Settled, AloneOK
  <2>9. CASE request[w] = "detect"
    <3>1. Steady' /\ (results[w] # <<>> /\ ~unsure => results[w][1].by = confirmed_variant)
      BY <2>6, <2>7, <2>9 DEF WorkerTells
    <3>2. results[w] # <<>> => results[w][1].frame = Whole(w)
      BY <1>1, <2>9 DEF AloneOK
    <3>3. Whole(w)' = Whole(w)
      BY <1>2, <2>5
    <3>4. Tells(r)'
      BY <1>1, <2>1, <2>2, <2>4, <2>5, <2>9, <3>1, <3>2, <3>3 DEF Tells
    <3> QED  BY <1>1, <2>5, <3>4 DEF TellsOK
  <2> QED  BY <2>8, <2>9
<1>6. CASE PollQueue
  <2>1. /\ result_queue # <<>> /\ result_queue' = Tail(result_queue) /\ worker' = worker
        /\ UNCHANGED vars /\ fabric' = fabric
    BY <1>6 DEF PollQueue, vars, server
  <2>2. PICK r : r = result_queue[1]
    OBVIOUS
  <2>3. result_queue = <<r>> /\ worker = NoConn /\ Tells(r)
    BY <1>1, <2>1, <2>2 DEF WindowOK, TellsOK
  <2>4. Head(<<r>>) = r /\ Tail(<<r>>) = <<>>
    OBVIOUS
  <2>5. IF request[r.of] = "detect" THEN HandleDetect(r) ELSE HandleVariant(r)
    BY <1>6, <2>3, <2>4 DEF PollQueue
  <2>6. Steady'
    <3>1. CASE request[r.of] = "detect"
      BY <1>2, <2>1, <2>3, <2>5, <3>1 DEF HandleDetect, Tells, Steady
    <3>2. CASE request[r.of] # "detect"
      BY <1>2, <2>1, <2>3, <2>5, <3>2 DEF HandleVariant, Tells, Steady
    <3> QED  BY <3>1, <3>2
  <2> QED  BY <1>1, <2>1, <2>3, <2>4, <2>6 DEF TellsOK
<1>7. CASE Connect
  <2>1. /\ worker \in Conns /\ worker # NoConn /\ sent[worker] = 0
        /\ conn' = [conn EXCEPT ![worker] = "open"] /\ \A c \in Conns : conn[c] # "open"
        /\ UNCHANGED <<sent, results, fabric, worker, result_queue, confirmed_variant, unsure>>
    BY <1>7, UnmingledConnect DEF Sound
  <2>2. \A c \in Conns : Complete(c)' <=> Complete(c)
    BY <1>1, <2>1 DEF Complete, RequestLen
  <2>3. result_queue = <<>>
    BY <2>1 DEF WindowOK
  <2>4. ASSUME NEW w \in Conns, worker = w PROVE WorkerTells(w)'
    <3>1. WorkerTells(w)
      BY <1>1, <2>4 DEF TellsOK
    <3>2. CASE request[w] # "detect"
      BY <1>1, <2>1, <2>2, <3>1, <3>2 DEF WorkerTells
    <3>3. CASE request[w] = "detect"
      <4>1. Settled'
        <5>1. \A c \in Conns : conn'[c] = "open" => c = w
          BY <1>1, <2>1, <2>4 DEF TypeOK
        <5> QED  BY <1>1, <3>3, <5>1 DEF Settled
      <4>2. Steady'
        BY <2>1, <3>1, <3>3, <4>1 DEF WorkerTells, Steady
      <4> QED  BY <1>1, <2>1, <3>1, <3>3, <4>2 DEF WorkerTells
    <3> QED  BY <3>2, <3>3
  <2> QED  BY <2>1, <2>3, <2>4 DEF TellsOK
<1>8. CASE Arrive
  BY <1>1, <1>8, TellsArrival
<1>9. CASE Hangup \/ BoardAlone
  <2>1. /\ \A c \in Conns : conn'[c] = "open" => conn[c] = "open"
        /\ UNCHANGED <<sent, results>>
        /\ UNCHANGED <<worker, result_queue, confirmed_variant, unsure>>
    <3>1. CASE Hangup
      <4>1. PICK d \in finished : Close(d)
        BY <3>1 DEF Hangup
      <4> QED  BY <1>1, <3>1, <4>1 DEF Close, TypeOK, Hangup, window
    <3>2. CASE BoardAlone
      BY <3>2 DEF BoardAlone, LateLoad, server, window
    <3> QED  BY <1>9, <3>1, <3>2
  <2>2. fabric' = fabric
    <3>1. late = {}
      BY <1>1 DEF SafeInv, BootOK, Sound
    <3> QED  BY <1>9, <3>1 DEF Hangup, Close, BoardAlone, server, LateLoad
  <2>3. \A c \in Conns : (Complete(c)' <=> Complete(c)) /\ Whole(c)' = Whole(c)
    BY <1>1, <2>1 DEF Complete, Whole, RequestLen
  <2>4. Settled => Settled'
    BY <1>1, <2>1, <2>3 DEF Settled
  <2>5. Steady => Steady'
    BY <2>1, <2>2, <2>4 DEF Steady
  <2>6. \A c \in Conns : WorkerTells(c) => WorkerTells(c)'
    BY <1>1, <2>1, <2>2, <2>3, <2>5 DEF WorkerTells
  <2>7. ASSUME result_queue # <<>>, Tells(result_queue[1]) PROVE Tells(result_queue[1])'
    <3>1. result_queue[1].of \in Conns
      <4>1. result_queue = <<result_queue[1]>>
        BY <2>7 DEF WindowOK
      <4>2. 1 \in DOMAIN <<result_queue[1]>>
        OBVIOUS
      <4>3. 1 \in DOMAIN result_queue
        BY <4>1, <4>2
      <4> QED  BY <1>1, <4>3 DEF GuiTypeOK
    <3>2. PICK r : r = result_queue[1] /\ r.of \in Conns
      BY <3>1
    <3>3. Tells(r)'
      BY <1>1, <2>1, <2>2, <2>3, <2>4, <2>5, <2>7, <3>2 DEF Tells
    <3> QED  BY <2>1, <3>2, <3>3
  <2> QED  BY <1>1, <2>1, <2>5, <2>6, <2>7 DEF TellsOK
<1> QED  BY <1>3, <1>4, <1>5, <1>6, <1>7, <1>8, <1>9 DEF GuiNext

LEMMA GuiStep == GuiInv /\ [GuiNext]_guiVars => GuiInv'
<1> SUFFICES ASSUME GuiInv, [GuiNext]_guiVars PROVE GuiInv'
  OBVIOUS
<1>1. SafeInv /\ WindowOK /\ AloneOK /\ TellsOK
  BY DEF GuiInv
<1>2. SafeInv'
  <2>1. TypeOK /\ GuiTypeOK
    BY <1>1 DEF SafeInv, WindowOK
  <2> QED  BY <1>1, <2>1, GuiBoardStep, SafeStep
<1> QED  BY <1>1, <1>2, WindowStep, AloneStep, TellsStep DEF GuiInv

LEMMA GuiInvariant == GuiSpec => []GuiInv
BY GuiInitial, GuiStep, PTL DEF GuiSpec

\* The program's variables keep to their types, whatever the board does; there is
\* never more than one result in the queue, and it is that of a finished request.
THEOREM WindowTypeCorrect == GuiSpec => []GuiTypeOK
<1>1. GuiInv => GuiTypeOK
  BY DEF GuiInv, WindowOK
<1> QED  BY <1>1, GuiInvariant, PTL

\* The highlighted variant is the one the board holds, whatever was given up before.
THEOREM HighlightIsLoaded == GuiSpec => []ConfirmedIsLoaded
<1>1. GuiInv => ConfirmedIsLoaded
  <2> SUFFICES ASSUME GuiInv, Sound, ~request_in_progress, ~unsure
               PROVE  confirmed_variant = fabric
    BY DEF ConfirmedIsLoaded
  <2>1. worker = NoConn /\ result_queue = <<>>
    BY DEF GuiInv, WindowOK
  <2> QED  BY <2>1 DEF GuiInv, TellsOK, Steady
<1> QED  BY <1>1, GuiInvariant, PTL

\* A digit on display is that of the frame it answers, by the variant highlighted.
THEOREM DisplayIsOwn == GuiSpec => DisplayedIsOwn
<1>1. GuiInv /\ [GuiNext]_guiVars =>
        [Sound /\ prediction' # prediction /\ prediction' # Blank
           => /\ prediction'.digit.frame = Whole(prediction'.of)
              /\ ~unsure => prediction'.digit.by = confirmed_variant]_guiVars
  <2> SUFFICES ASSUME GuiInv, [GuiNext]_guiVars, Sound, prediction' # prediction, prediction' # Blank
               PROVE  /\ prediction'.digit.frame = Whole(prediction'.of)
                      /\ ~unsure => prediction'.digit.by = confirmed_variant
    OBVIOUS
  <2>1. PollQueue
    BY DEF GuiNext, Click, ResetClicked, Thread, VariantAnswered, DetectAnswered, GiveUp, Report,
           Connect, Arrive, Hangup, BoardAlone, guiVars, window
  <2>2. result_queue # <<>>
    BY <2>1 DEF PollQueue
  <2>3. PICK r : r = result_queue[1]
    OBVIOUS
  <2>4. result_queue = <<r>> /\ Tells(r)
    BY <2>2, <2>3 DEF GuiInv, WindowOK, TellsOK
  <2>5. Head(<<r>>) = r
    OBVIOUS
  <2>6. IF request[r.of] = "detect" THEN HandleDetect(r) ELSE HandleVariant(r)
    BY <2>1, <2>4, <2>5 DEF PollQueue
  <2>7. /\ request[r.of] = "detect" /\ r.ok
        /\ prediction' = [digit |-> r.digit, of |-> r.of]
    BY <2>6 DEF HandleDetect, HandleVariant
  <2>8. prediction'.digit = r.digit /\ prediction'.of = r.of
    BY <2>7
  <2> QED  BY <2>4, <2>7, <2>8 DEF Tells
<1> QED  BY <1>1, GuiInvariant, PTL DEF GuiSpec, DisplayedIsOwn

=============================================================================
