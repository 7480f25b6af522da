------------------------------- MODULE StreamPipe -----------------------------
(***************************************************************************)
(* The in-process streams of the embedded manager (world/manager_stream.go)*)
(* A session pairs a client with a handler of the service through two      *)
(* buffered channels: bidiPipe carries frames both ways, serverPipe only   *)
(* to the client.  The client may send, receive and close from different   *)
(* goroutines; the handler runs in one of its own, and finishServer ends   *)
(* the stream in four steps when it returns.  A frame is its number.  A Go *)
(* select takes any ready branch, and a send on a closed channel panics.   *)
(***************************************************************************)
EXTENDS Naturals, Sequences

CONSTANTS
    Shapes,         \* "bidi", "server"
    Capacity,       \* of a channel (16 in the code)
    MaxFrames       \* bound on the frames of one direction

VARIABLES
    shape,
    cancelled,                          \* the context of the pipe
    toServer, sendClosed, serverOpen,   \* the client's frames; serverOpen: not closed
    toClient, clientOpen,               \* the server's frames
    serverDone, serverErr,
    handler,                            \* the handler and finishServer
    sender, sent,                       \* the goroutine that sends, frames accepted
    closer, closed,                     \* the goroutine that closes
    served, heard,                      \* frames the handler sent and received
    got, last,                          \* frames the client received, last outcome
    panicked

clientVars == <<sender, sent, closer, closed, got, last>>
pipeVars == <<shape, cancelled, toServer, sendClosed, serverOpen, toClient, clientOpen,
              serverDone, serverErr, handler, served, heard, panicked, clientVars>>

\* Exec, push and ADB sessions talk both ways; pull, observations and metrics
\* only to the client.
Bidi == shape = "bidi"

\* newBidiPipe, newServerPipe; the handler is started.
Init ==
    /\ shape \in Shapes
    /\ cancelled = FALSE /\ panicked = FALSE
    /\ toServer = <<>> /\ sendClosed = FALSE /\ serverOpen = TRUE
    /\ toClient = <<>> /\ clientOpen = TRUE
    /\ serverDone = FALSE /\ serverErr = "nil"
    /\ handler = "running" /\ served = 0 /\ heard = 0
    /\ sender = "idle" /\ sent = 0 /\ closer = "idle" /\ closed = FALSE
    /\ got = <<>> /\ last = "none"

-------------------------------------------------------------------------------
(* The client.                                                             *)

\* clientSend looks at the flags first ...
SendBegins ==
    /\ Bidi /\ sender = "idle" /\ sent < MaxFrames
    /\ ~sendClosed /\ ~closed
    /\ sender' = "sending"
    /\ UNCHANGED <<sent, toServer, panicked>>

\* ... and then waits for the context, the end of the server or room.  If the
\* channel was closed meanwhile, its branch is ready and panics.
SendEnds ==
    /\ sender = "sending" /\ sender' = "idle"
    /\ \/ cancelled /\ UNCHANGED <<sent, toServer, panicked>>
       \/ serverDone /\ UNCHANGED <<sent, toServer, panicked>>
       \/ ~serverOpen /\ panicked' = TRUE /\ UNCHANGED <<sent, toServer>>
       \/ /\ serverOpen /\ Len(toServer) < Capacity
          /\ sent' = sent + 1 /\ toServer' = Append(toServer, sent + 1)
          /\ UNCHANGED panicked

SendNext ==
    /\ SendBegins \/ SendEnds
    /\ UNCHANGED <<shape, cancelled, sendClosed, serverOpen, toClient, clientOpen, serverDone,
                   serverErr, handler, served, heard, closer, closed, got, last>>

Delivered == got' = Append(got, Head(toClient)) /\ toClient' = Tail(toClient) /\ last' = "frame"

Answered(outcome) == last' = outcome /\ UNCHANGED <<got, toClient>>

\* The branch of the context: it takes a frame that is waiting, and a closed
\* channel always has its zero value to give.
RecvCancelled ==
    /\ cancelled
    /\ \/ toClient # <<>> /\ Delivered
       \/ toClient = <<>> /\ ~clientOpen /\ Answered("nothing")
       \/ /\ toClient = <<>> /\ clientOpen
          /\ Answered(IF serverErr # "nil" THEN "error" ELSE "cancelled")

\* The branch of the channel.
RecvFrame ==
    \/ toClient # <<>> /\ Delivered
    \/ /\ toClient = <<>> /\ ~clientOpen
       /\ Answered(IF serverErr # "nil" THEN "error" ELSE "eof")

\* clientRecv, until it reports the end of the stream.
RecvNext ==
    /\ last \in {"none", "frame"}
    /\ RecvCancelled \/ RecvFrame
    /\ UNCHANGED <<shape, cancelled, toServer, sendClosed, serverOpen, clientOpen, serverDone,
                   serverErr, handler, served, heard, panicked, sender, sent, closer, closed>>

\* clientCloseSend: the flag is swapped, then the channel is closed.
CloseSend ==
    /\ Bidi /\ closer = "idle" /\ ~sendClosed
    /\ sendClosed' = TRUE /\ serverOpen' = FALSE
    /\ UNCHANGED <<closer, closed, cancelled>>

\* close: marks the session, closes the client's direction ...
CloseBegins ==
    /\ closer = "idle" /\ ~closed
    /\ closed' = TRUE
    /\ closer' = "cancelling"
    /\ sendClosed' = Bidi /\ serverOpen' = ~Bidi
    /\ UNCHANGED cancelled

\* ... cancels and waits for the handler.
CloseCancels ==
    /\ closer = "cancelling"
    /\ cancelled' = TRUE /\ closer' = "waiting"
    /\ UNCHANGED <<closed, sendClosed, serverOpen>>

CloseReturns ==
    /\ closer = "waiting" /\ serverDone
    /\ closer' = "returned"
    /\ UNCHANGED <<closed, cancelled, sendClosed, serverOpen>>

CloseNext ==
    /\ CloseSend \/ CloseBegins \/ CloseCancels \/ CloseReturns
    /\ UNCHANGED <<shape, toServer, toClient, clientOpen, serverDone, serverErr, handler,
                   served, heard, panicked, sender, sent, got, last>>

\* The caller's own context ends.
Cancel ==
    /\ ~cancelled
    /\ cancelled' = TRUE
    /\ UNCHANGED <<shape, toServer, sendClosed, serverOpen, toClient, clientOpen, serverDone,
                   serverErr, handler, served, heard, panicked, clientVars>>

-------------------------------------------------------------------------------
(* The handler and its end.                                                *)

Handle(next) == handler' = next

\* Recv of the server stream: it waits for a frame or for the client's end,
\* whatever the context is.
ServerRecv ==
    /\ Bidi /\ handler \in {"running", "receiving"}
    /\ \/ handler = "running" /\ serverOpen /\ toServer = <<>> /\ Handle("receiving")
          /\ UNCHANGED <<toServer, heard>>
       \/ toServer # <<>> /\ Handle("running")
          /\ toServer' = Tail(toServer) /\ heard' = Head(toServer)
       \/ toServer = <<>> /\ ~serverOpen /\ Handle("running") /\ UNCHANGED <<toServer, heard>>
    /\ UNCHANGED <<toClient, clientOpen, served, serverDone, serverErr, cancelled>>

\* Send of the server stream: room, or the end of the context.
ServerSend ==
    /\ handler = "running" /\ served < MaxFrames
    /\ \/ /\ Len(toClient) < Capacity
          /\ served' = served + 1 /\ toClient' = Append(toClient, served + 1)
          /\ Handle("running")
       \/ cancelled /\ Handle("ending") /\ UNCHANGED <<served, toClient>>
    /\ UNCHANGED <<toServer, heard, clientOpen, serverDone, serverErr, cancelled>>

\* The handler returns, with or without an error, which finishServer keeps.
Return ==
    /\ handler \in {"running", "ending"}
    /\ serverErr' \in {"nil", "failed"}
    /\ Handle("closeClient")
    /\ UNCHANGED <<toServer, heard, toClient, clientOpen, served, serverDone, cancelled>>

\* Faulty variant: the end is announced before the frames are complete.
FinishEarly ==
    /\ handler = "closeClient" /\ Handle("finished")
    /\ serverDone' = TRUE /\ clientOpen' = FALSE /\ toClient' = <<>> /\ UNCHANGED cancelled
    /\ UNCHANGED <<toServer, heard, served, serverErr>>

Finish ==
    /\ \/ /\ handler = "closeClient" /\ Handle("closeDone")
          /\ clientOpen' = FALSE /\ UNCHANGED <<serverDone, cancelled>>
       \/ /\ handler = "closeDone" /\ Handle("cancel")
          /\ serverDone' = TRUE /\ UNCHANGED <<clientOpen, cancelled>>
       \/ /\ handler = "cancel" /\ Handle("finished")
          /\ cancelled' = TRUE /\ UNCHANGED <<clientOpen, serverDone>>
    /\ UNCHANGED <<toServer, heard, toClient, served, serverErr>>

Apart == UNCHANGED <<shape, sendClosed, serverOpen, panicked, clientVars>>
ServerNext == (ServerRecv \/ ServerSend) /\ Apart
ReturnNext == Return /\ Apart
FinishNext == Finish /\ Apart

\* The stream is over, the process has panicked, or the handler waits in Recv
\* for a client that neither sends nor closes.
Settled == (handler \in {"finished", "receiving"} \/ panicked) /\ UNCHANGED pipeVars

\* A panic ends the process.
Next ==
    \/ ~panicked /\ (\/ SendNext
                    \/ RecvNext
                    \/ CloseNext
                    \/ Cancel
                    \/ ServerNext
                    \/ ReturnNext
                    \/ FinishNext)
    \/ Settled

Spec == Init /\ [][Next]_pipeVars

(* The goroutines are scheduled, and a handler returns once its context    *)
(* has ended, unless it is waiting in Recv: that is the code's own duty.   *)
Fairness ==
    /\ WF_pipeVars(~panicked /\ FinishNext)
    /\ WF_pipeVars(~panicked /\ ServerNext /\ handler = "receiving")
    /\ WF_pipeVars(~panicked /\ ReturnNext /\ cancelled)
    /\ WF_pipeVars(~panicked /\ CloseNext /\ closer # "idle")

-------------------------------------------------------------------------------

TypeOK ==
    /\ shape \in Shapes
    /\ toServer \in Seq(1..MaxFrames) /\ Len(toServer) <= Capacity
    /\ toClient \in Seq(1..MaxFrames) /\ Len(toClient) <= Capacity
    /\ handler \in {"running", "receiving", "ending", "closeClient", "closeDone", "cancel",
                    "finished"}
    /\ sender \in {"idle", "sending"} /\ sent \in 0..MaxFrames /\ served \in 0..MaxFrames
    /\ closer \in {"idle", "cancelling", "waiting", "returned"}
    /\ last \in {"none", "frame", "nothing", "eof", "error", "cancelled"}

(* The client receives the handler's frames in order and without a gap, and*)
(* has all of them when it is told the end of the stream.                  *)
FramesInOrder ==
    /\ got \o toClient = [i \in 1..served |-> i]
    /\ last \in {"eof", "error"} /\ ~clientOpen => Len(got) = served

(* The handler hears the client's frames in order.                         *)
HeardInOrder == [i \in 1..heard |-> i] \o toServer = [i \in 1..sent |-> i]

(* A send panics only if the same session is closed while the send is      *)
(* under way: clientSend checks the flag before it selects, and            *)
(* clientCloseSend closes the channel without waiting (manager_stream.go:  *)
(* 329-383).                                                               *)
PanicIsOfClosing == panicked => sendClosed

(* close "drain[s] until the server handler exits": it returns, whatever   *)
(* the handler was waiting for.                                            *)
CloseReturnsAtLast ==
    (closer = "waiting") ~> (closer = "returned" \/ panicked)
===============================================================================
