---------------------------- MODULE ImageService ----------------------------
(***************************************************************************)
(* The TCP image service.  It accepts one connection in its life.  The     *)
(* client sends requests, each a size and that many bytes; it need not     *)
(* wait for a response before it sends the next.  A request for an image   *)
(* is passed on to the camera reader; the response is a size and then, in  *)
(* a second write, the data.                                               *)
(*                                                                         *)
(* The service has a thread of its own.  The camera reader answers in any  *)
(* order (it has two threads and a strand for each camera).  Writes that   *)
(* are in progress on the socket at once take turns: a size is written in  *)
(* one turn, data may take several, here PiecesPerData at most.            *)
(***************************************************************************)
EXTENDS Integers, Sequences, FiniteSets

CONSTANTS
  MaxRequests,   \* bound: how many requests the client sends
  PiecesPerData  \* bound: in how many turns a response's data is written

ASSUME MaxRequestsAssumption == MaxRequests \in Nat
ASSUME PiecesAssumption == PiecesPerData \in Nat \ {0}

RequestId == 1..MaxRequests

VARIABLES
  accepting,   \* an async_accept is pending
  socket,      \* socket_: "none" before the accept, "open", "closed" (or broken)
  read,        \* the read that is pending: of a size, of data, or none; or
               \* that the last one, of data, failed on a socket left open
  sent,        \* how many requests the client has sent
  camera,      \* requests the camera reader has not answered
  answers,     \* its answers, posted and not run yet
  writing,     \* the async_writes in progress, in the order of their turns
  written,     \* writes that completed, whose handlers have not run yet
  stream,      \* what the client has received
  unanswerable,\* history: requests that will never be answered
  overlapped   \* history: two requests were under way at once

vars == <<accepting, socket, read, sent, camera, answers, writing, written,
          stream, unanswerable, overlapped>>

SizeOf(r, empty)   == [part |-> "size", re |-> r, empty |-> empty, pieces |-> 1]
DataOf(r)          == [part |-> "data", re |-> r, empty |-> FALSE,
                       pieces |-> PiecesPerData]
Writes == [part : {"size", "data"}, re : RequestId, empty : BOOLEAN,
           pieces : 1..PiecesPerData]
Answers == [re : RequestId, ok : BOOLEAN]
Pieces  == [part : {"size", "data"}, re : RequestId, empty : BOOLEAN, last : BOOLEAN]

In(seq) == {seq[i].re : i \in DOMAIN seq}
UnderWay == camera \cup In(answers) \cup In(writing) \cup In(written)

-----------------------------------------------------------------------------
Accept ==
  /\ accepting
  /\ accepting' = FALSE
  /\ \/ socket' = "open" /\ read' = "size"
     \/ UNCHANGED <<socket, read>>      \* the accept failed
  /\ UNCHANGED <<sent, camera, answers, writing, written, stream, unanswerable,
                 overlapped>>

(* The size of a request came in.                                          *)
ReceiveSize ==
  /\ read = "size" /\ socket = "open" /\ sent < MaxRequests
  /\ read' = "data"
  /\ UNCHANGED <<accepting, socket, sent, camera, answers, writing, written,
                 stream, unanswerable, overlapped>>

(* The peer closed the connection, the read failed, or the size is larger  *)
(* than TCP_Receive_Package_Max_Size.  Closing cancels what is in progress.*)
ReceiveSizeFails ==
  /\ read = "size" /\ socket = "open"
  /\ read' = "none" /\ socket' = "closed"
  /\ writing' = <<>>
  /\ UNCHANGED <<accepting, sent, camera, answers, written, stream,
                 unanswerable, overlapped>>

(* The request came in: it is processed, and the next one is read.         *)
Receive ==
  /\ read = "data" /\ socket = "open"
  /\ read' = "size"
  /\ sent' = sent + 1
  /\ overlapped' = (overlapped \/ UnderWay # {})
  /\ UNCHANGED <<accepting, socket, answers, writing, written, stream>>

RequestImage ==
  /\ Receive
  /\ camera' = camera \cup {sent'}
  /\ UNCHANGED unanswerable

(* It cannot be parsed, has another cmd_id, or lacks one of its fields.    *)
IgnoreRequest ==
  /\ Receive
  /\ unanswerable' = unanswerable \cup {sent'}
  /\ UNCHANGED camera

(* Mutant: it closes the socket, as a size that cannot be read does.       *)
ReceiveDataFailsCloses ==
  /\ read = "data" /\ socket = "open"
  /\ read' = "failed" /\ socket' = "closed"
  /\ writing' = <<>>
  /\ UNCHANGED <<accepting, sent, camera, answers, written, stream,
                 unanswerable, overlapped>>

(* Nothing is read any more, but the socket stays open for the responses   *)
(* that are under way.                                                     *)
ReceiveDataFails ==
  /\ read = "data" /\ socket = "open"
  /\ read' = "failed"
  /\ UNCHANGED <<accepting, socket, sent, camera, answers, writing, written,
                 stream, unanswerable, overlapped>>

-----------------------------------------------------------------------------
(* The camera reader, from outside.                                        *)
CameraAnswers(r) ==
  /\ camera' = camera \ {r}
  /\ \E ok \in BOOLEAN : answers' = Append(answers, [re |-> r, ok |-> ok])
  /\ UNCHANGED <<accepting, socket, read, sent, writing, written, stream,
                 unanswerable, overlapped>>

Write(w) == writing' = IF socket = "open" THEN Append(writing, w) ELSE writing

(* Mutant: the data is sent before its size.                               *)
DoSendDataFirst ==
  /\ answers # <<>>
  /\ answers' = Tail(answers)
  /\ LET a == Head(answers)
     IN writing' = IF socket # "open" THEN writing
                   ELSE writing \o (IF a.ok THEN <<DataOf(a.re)>> ELSE <<>>)
                                \o <<SizeOf(a.re, TRUE)>>
  /\ UNCHANGED <<accepting, socket, read, sent, camera, written, stream,
                 unanswerable, overlapped>>

(* The response to an answer: first its size, 0 when there is no image.    *)
DoSendSize ==
  /\ answers # <<>>
  /\ answers' = Tail(answers)
  /\ Write(SizeOf(Head(answers).re, ~Head(answers).ok))
  /\ UNCHANGED <<accepting, socket, read, sent, camera, written, stream,
                 unanswerable, overlapped>>

(* Mutant: the handler of a completed size forgets about the data.         *)
DoSendNoData ==
  /\ written # <<>>
  /\ written' = Tail(written)
  /\ UNCHANGED <<accepting, socket, read, sent, camera, answers, writing,
                 stream, unanswerable, overlapped>>

(* The handler of a completed size: the data, nothing of it when empty.    *)
DoSendData ==
  /\ written # <<>>
  /\ written' = Tail(written)
  /\ IF Head(written).empty THEN UNCHANGED writing
                            ELSE Write(DataOf(Head(written).re))
  /\ UNCHANGED <<accepting, socket, read, sent, camera, answers, stream,
                 unanswerable, overlapped>>

(* The first write in progress has its turn: it is done, or what is left   *)
(* of it waits for the next turn.                                          *)
WriteCompletes ==
  /\ socket = "open" /\ writing # <<>>
  /\ LET w == Head(writing)
     IN /\ writing' = Tail(writing)
        /\ written' = IF w.part = "size" THEN Append(written, w) ELSE written
        /\ stream' = Append(stream, [part |-> w.part, re |-> w.re,
                                     empty |-> w.empty, last |-> TRUE])
  /\ UNCHANGED <<accepting, socket, read, sent, camera, answers, unanswerable,
                 overlapped>>

WriteInPart ==
  /\ socket = "open" /\ writing # <<>>
  /\ Head(writing).pieces > 1
  /\ LET w == Head(writing)
     IN /\ writing' = Append(Tail(writing), [w EXCEPT !.pieces = @ - 1])
        /\ stream' = Append(stream, [part |-> w.part, re |-> w.re,
                                     empty |-> w.empty, last |-> FALSE])
  /\ UNCHANGED <<accepting, socket, read, sent, camera, answers, written,
                 unanswerable, overlapped>>

(* The connection broke: every write on it fails, and its handler only     *)
(* logs that.                                                              *)
WriteFails ==
  /\ socket = "open" /\ writing # <<>>
  /\ socket' = "closed" /\ writing' = <<>>
  /\ read' = "none"
  /\ UNCHANGED <<accepting, sent, camera, answers, written, stream,
                 unanswerable, overlapped>>

(* Nothing refers to the session any more: its socket is closed.           *)
SessionEnds ==
  /\ socket = "open" /\ read = "failed" /\ UnderWay = {}
  /\ socket' = "closed"
  /\ UNCHANGED <<accepting, read, sent, camera, answers, writing, written,
                 stream, unanswerable, overlapped>>

-----------------------------------------------------------------------------
Init ==
  /\ accepting = TRUE /\ socket = "none" /\ read = "none"
  /\ sent = 0
  /\ camera = {} /\ answers = <<>>
  /\ writing = <<>> /\ written = <<>> /\ stream = <<>>
  /\ unanswerable = {} /\ overlapped = FALSE

RunHandler == DoSendSize \/ DoSendData

Next == \/ Accept
        \/ ReceiveSize \/ ReceiveSizeFails
        \/ RequestImage \/ IgnoreRequest \/ ReceiveDataFails
        \/ \E r \in camera : CameraAnswers(r)
        \/ RunHandler
        \/ WriteCompletes \/ WriteInPart \/ WriteFails
        \/ SessionEnds

Spec == Init /\ [][Next]_vars

(* The camera reader answers, the thread runs the handlers, and the socket *)
(* makes progress.  Nobody has to connect or to send anything.             *)
Fairness ==
  /\ \A r \in RequestId : WF_vars(r \in camera /\ CameraAnswers(r))
  /\ WF_vars(DoSendSize) /\ WF_vars(DoSendData)
  /\ WF_vars(WriteCompletes \/ WriteInPart \/ WriteFails)
  /\ WF_vars(SessionEnds)

FairSpec == Spec /\ Fairness

-----------------------------------------------------------------------------
(* The type invariant.  One read is pending at most, of a size or of data, *)
(* and every write in progress has a turn left.                            *)
TypeOK ==
  /\ accepting \in BOOLEAN
  /\ socket \in {"none", "open", "closed"} /\ read \in {"none", "size", "data", "failed"}
  /\ sent \in 0..MaxRequests
  /\ camera \subseteq RequestId /\ answers \in Seq(Answers)
  /\ writing \in Seq(Writes) /\ written \in Seq(Writes)
  /\ stream \in Seq(Pieces)
  /\ unanswerable \subseteq RequestId /\ overlapped \in BOOLEAN

(* What the client has received in full.                                   *)
Complete(r) ==
  \E i \in DOMAIN stream :
    /\ stream[i].re = r /\ stream[i].last
    /\ stream[i].part = "data" \/ stream[i].empty

(* Nothing has taken the connection away: the client has not closed it     *)
(* between two requests, no size was refused, and no write failed.  That   *)
(* the rest of a request cannot be read does not.                          *)
Intact == socket = "open" \/ read = "failed"

(* The types; and every request that asks for an image is in one place:    *)
(* with the camera reader, in an answer, in a write, in a handler, or      *)
(* received in full.  Only a connection that was taken away loses          *)
(* responses; those that are under way when the rest of a later request    *)
(* cannot be read are not lost with it.                                    *)
OneResponseEach ==
  LET places(r) ==
        <<r \in camera, r \in In(answers), r \in In(writing), r \in In(written)>>
  IN /\ TypeOK
     /\ \A r \in 1..sent :
          /\ \A i, j \in 1..4 : places(r)[i] /\ places(r)[j] => i = j
          /\ r \in UnderWay /\ Complete(r) => r \in In(written)
          /\ r \in unanswerable => r \notin UnderWay \cup In(stream)
          /\ r \notin unanswerable /\ Intact => r \in UnderWay \/ Complete(r)

(* To a client that always waits for the response before it sends the next *)
(* request, every size is followed by the data it announces, whole, and in *)
(* the order of its requests.  (Responses to requests that overlap may mix *)
(* in the stream: nothing serialises the two writes of a response.)        *)
FramedUnlessOverlapped ==
  ~overlapped =>
    \A i \in DOMAIN stream :
      /\ i = 1 => stream[i].part = "size"
      /\ i > 1 =>
           LET before == stream[i - 1] now == stream[i]
           IN IF now.part = "size"
              THEN before.last /\ (before.part = "data" \/ before.empty)
                   /\ now.re > before.re
              ELSE before.re = now.re /\ ~before.empty
                   /\ (before.part = "size" \/ ~before.last)

(* A request for an image is answered in the end, also when the rest of a  *)
(* later request cannot be read, unless the connection is taken away.      *)
ImageIsSent ==
  \A r \in RequestId : r \in camera ~> Complete(r) \/ ~Intact
=============================================================================
