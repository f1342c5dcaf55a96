--------------------------------- MODULE Gui ---------------------------------
(***************************************************************************)
(* The desktop program UI/Digit_Recognition_Gui.py on top of the server it *)
(* talks to.  A click opens a connection for one request, served by a      *)
(* background thread; the window is locked until the thread's result has   *)
(* been taken from a queue.  The thread gives up after a timeout, which    *)
(* says nothing about the board: what it has sent may still arrive, in     *)
(* whole, in part, or after the bytes of the next request.                 *)
(***************************************************************************)
EXTENDS EchoServer

VARIABLES
  request_in_progress, \* the buttons are disabled
  worker,              \* the connection the background thread waits on, or NoConn
  finished,            \* connections whose socket the GUI has closed
  result_queue,        \* what the thread has to tell the window
  confirmed_variant,   \* the highlighted variant
  prediction,          \* the digit on display and the request it answered
  unsure,              \* history: a variant request has failed since the last success
  mingled              \* history: a connection was accepted before all bytes of
                       \* an earlier one had arrived or its end had
window  == <<request_in_progress, confirmed_variant, prediction, unsure>>
guiVars == <<vars, window, worker, finished, result_queue, mingled>>

NoConn == "none"
ASSUME GuiAssumption == NoConn \notin Conns

Blank  == [digit |-> NoDigit, of |-> NoConn]  \* "?"

GuiTypeOK ==
  /\ TypeOK /\ request_in_progress \in BOOLEAN
  /\ worker \in Conns \cup {NoConn} /\ finished \subseteq Conns
  /\ Len(result_queue) <= 1
  /\ \A k \in DOMAIN result_queue : result_queue[k].of \in finished /\ result_queue[k].ok \in BOOLEAN
  /\ confirmed_variant \in Variants \cup {"none"}
  /\ prediction.of \in finished \cup {NoConn}
  /\ {unsure, mingled} \subseteq BOOLEAN

GuiInit ==
  /\ Init /\ \A c \in env.clients : request[c] # "unassigned"
  /\ request_in_progress = FALSE /\ worker = NoConn /\ finished = {}
  /\ result_queue = <<>> /\ confirmed_variant = "none" /\ prediction = Blank
  /\ unsure = FALSE /\ mingled = FALSE

-----------------------------------------------------------------------------
\* _on_variant_clicked and _on_detect_clicked: the thread is started with the
\* command or with a snapshot of the grid.  Which connection is opened next makes no
\* difference: the requests of all of them are arbitrary.
Click ==
  /\ ~request_in_progress /\ env.clients \ finished # {}
  /\ request_in_progress' = TRUE
  /\ worker' = CHOOSE c \in env.clients : c \notin finished
  /\ UNCHANGED <<finished, result_queue, confirmed_variant, prediction, unsure, mingled>>
  /\ UNCHANGED vars

\* _on_reset_clicked, as far as the display is concerned.
ResetClicked ==
  /\ ~request_in_progress /\ prediction # Blank /\ prediction' = Blank
  /\ UNCHANGED <<request_in_progress, confirmed_variant, unsure, worker, finished,
                 result_queue, mingled>>
  /\ UNCHANGED vars

\* Mutated: the thread reports its answer and later its timeout too.
ReportAgain(ok, digit) ==
  /\ finished' = finished \cup {worker}
  /\ result_queue' = Append(result_queue, [of |-> worker, ok |-> ok, digit |-> digit])
  /\ UNCHANGED worker /\ UNCHANGED window /\ UNCHANGED <<vars, mingled>>

\* The thread ends and its socket is closed.
Report(ok, digit) ==
  /\ worker' = NoConn /\ finished' = finished \cup {worker}
  /\ result_queue' = Append(result_queue, [of |-> worker, ok |-> ok, digit |-> digit])
  /\ UNCHANGED window /\ UNCHANGED <<vars, mingled>>

\* Mutated: one recv instead of recv_exact, and whatever it returns is the echo.
VariantAnsweredShort ==
  /\ worker # NoConn /\ request[worker] # "detect" /\ echoed[worker] # <<>>
  /\ Report(TRUE, NoDigit)

\* send_variant_command: the first three bytes received are the command or not.  A
\* result packet for somebody else's bytes may come before the last of them.
VariantAnswered ==
  /\ worker # NoConn /\ request[worker] # "detect"
  /\ Len(echoed[worker]) + ResultLen * Len(results[worker]) >= 3
  /\ \E ok \in BOOLEAN :
       /\ ok => echoed[worker] = <<1, 2, 3>>
       /\ ~ok => results[worker] # <<>> \/ echoed[worker] # <<1, 2, 3>>
       /\ Report(ok, NoDigit)

\* send_detect_request: the digit behind the first marker, wherever it is found.
DetectAnswered ==
  /\ worker # NoConn /\ request[worker] = "detect" /\ results[worker] # <<>>
  /\ Report(TRUE, results[worker][1])

\* NETWORK_TIMEOUT, a refused or a reset connection.
GiveUp == worker # NoConn /\ Report(FALSE, NoDigit)

\* Mutated: the window is unlocked by a success only.
HandleVariantNoUnlock(r) ==
  /\ request_in_progress' = ~r.ok /\ unsure' = ~r.ok
  /\ confirmed_variant' = IF r.ok THEN request[r.of] ELSE confirmed_variant
  /\ UNCHANGED prediction

\* _handle_variant_result and _handle_detect_result.
HandleVariant(r) ==
  /\ request_in_progress' = FALSE /\ unsure' = ~r.ok
  /\ confirmed_variant' = IF r.ok THEN request[r.of] ELSE confirmed_variant
  /\ UNCHANGED prediction
HandleDetect(r) ==
  /\ request_in_progress' = FALSE
  /\ prediction' = IF r.ok THEN [digit |-> r.digit, of |-> r.of] ELSE prediction
  /\ UNCHANGED <<confirmed_variant, unsure>>

\* _poll_queue, every 100 ms.
PollQueue ==
  /\ result_queue # <<>> /\ result_queue' = Tail(result_queue)
  /\ LET r == Head(result_queue)
     IN IF request[r.of] = "detect" THEN HandleDetect(r) ELSE HandleVariant(r)
  /\ UNCHANGED <<worker, finished, mingled>> /\ UNCHANGED vars

-----------------------------------------------------------------------------
\* The network: the thread's connection is accepted, what any open connection has
\* sent arrives, a closed socket's end arrives or cuts the rest off.
Connect ==
  /\ worker # NoConn /\ Accept(worker)
  /\ mingled' = (mingled \/ \E d \in finished : conn[d] = "open" \/ sent[d] \notin {0, RequestLen(d)})
  /\ UNCHANGED window /\ UNCHANGED <<worker, finished, result_queue>>
Arrive ==
  /\ Receive /\ UNCHANGED window /\ UNCHANGED <<worker, finished, result_queue, mingled>>
Hangup ==
  /\ \E c \in finished : Close(c)
  /\ UNCHANGED window /\ UNCHANGED <<worker, finished, result_queue, mingled>>
BoardAlone ==
  /\ (Start /\ UNCHANGED server) \/ LateLoad
  /\ UNCHANGED window /\ UNCHANGED <<worker, finished, result_queue, mingled>>

Thread == VariantAnswered \/ DetectAnswered \/ GiveUp
GuiNext ==
  \/ Click \/ ResetClicked \/ Thread \/ PollQueue \/ Connect \/ Arrive \/ Hangup \/ BoardAlone

\* The thread's timeout and the poll always come.  The board, the network and the
\* user owe nothing.
GuiSpec == GuiInit /\ [][GuiNext]_guiVars /\ WF_guiVars(Thread) /\ WF_guiVars(PollQueue)

-----------------------------------------------------------------------------
\* Nothing fails, no bytes of a request are freed unread, and none are mixed with
\* those of another.
Sound == ~env.faults /\ ~env.starved /\ ~env.chained /\ ~mingled

\* Then an unlocked window whose last variant request succeeded highlights the
\* variant that the board holds, even after requests that were given up and took
\* effect later.
ConfirmedIsLoaded == Sound /\ ~request_in_progress /\ ~unsure => confirmed_variant = fabric

\* Under the same conditions a digit that comes on display was computed from the
\* frame of the very request it answers, by the variant highlighted then.
DisplayedIsOwn ==
  [][Sound /\ prediction' # prediction /\ prediction' # Blank
       => /\ prediction'.digit.frame = Whole(prediction'.of)
          /\ ~unsure => prediction'.digit.by = confirmed_variant]_guiVars

\* Whatever becomes of a request, the window is unlocked again.
Unlocks == request_in_progress ~> ~request_in_progress

=============================================================================
