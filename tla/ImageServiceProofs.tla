------------------------- MODULE ImageServiceProofs -------------------------
(***************************************************************************)
(* Theorems about ImageService, for every number of requests and every     *)
(* number of turns in which a response's data is written.                  *)
(***************************************************************************)
EXTENDS ImageService, QueueLemmas

-----------------------------------------------------------------------------
(* Where a request may be.                                                 *)
AnswerOf(r) == {a \in Answers : a.re = r}
WriteOf(r)  == {w \in Writes : w.re = r}
EmptyOf(r)  == {w \in Writes : w.re = r /\ w.empty}
PieceOf(r)  == {p \in Pieces : p.re = r}
DoneOf(r)   == {p \in Pieces : p.re = r /\ p.last /\ (p.part = "data" \/ p.empty)}

Asked(r)    == r \in camera
Answered(r) == Some(answers, AnswerOf(r))
Sending(r)  == Some(writing, WriteOf(r))
SizeSent(r) == Some(written, WriteOf(r))
Finished(r) == Some(stream, DoneOf(r))

(* A request is in one place, and once; what it has received in full says  *)
(* whether a completed size was that of no image.                          *)
OnePlace(r) ==
  /\ Single(answers, AnswerOf(r)) /\ Single(writing, WriteOf(r))
  /\ Single(written, WriteOf(r))
  /\ Asked(r) => ~Answered(r) /\ ~Sending(r) /\ ~SizeSent(r) /\ ~Finished(r)
  /\ Answered(r) => ~Sending(r) /\ ~SizeSent(r) /\ ~Finished(r)
  /\ Sending(r) => ~SizeSent(r) /\ ~Finished(r)
  /\ SizeSent(r) => (Finished(r) <=> Some(written, EmptyOf(r)))

Nowhere(r) == /\ ~Asked(r) /\ ~Answered(r) /\ ~Sending(r) /\ ~SizeSent(r)
              /\ ~Some(stream, PieceOf(r))

(* An image that was asked for is on its way unless the connection was     *)
(* taken away; what was not asked for, or not received, is nowhere.        *)
OnItsWay(r) ==
  /\ r \in unanswerable \/ r > sent => Nowhere(r)
  /\ r > sent => r \notin unanswerable
  /\ r <= sent /\ r \notin unanswerable /\ Intact
       => Asked(r) \/ Answered(r) \/ Sending(r) \/ SizeSent(r) \/ Finished(r)

Requests == \A r \in RequestId : OnePlace(r) /\ OnItsWay(r)

(* A size is written in one turn, and data is never that of no image.      *)
WriteShape == \A i \in DOMAIN writing : /\ writing[i].part = "size" => writing[i].pieces = 1
                                        /\ writing[i].part = "data" => ~writing[i].empty

(* Requests are sent on the connection, within the bound.                  *)
SentBounded == /\ accepting => socket = "none"
               /\ socket = "none" => sent = 0
               /\ read = "data" => sent < MaxRequests

(* The session that could not read any more ends when nothing is under way.*)
Drained == read = "failed" /\ socket # "open" =>
             camera = {} /\ answers = <<>> /\ written = <<>>

IInv == TypeOK /\ SentBounded /\ Drained /\ WriteShape /\ Requests

USE MaxRequestsAssumption, PiecesAssumption DEF RequestId

LEMMA InitIInv == Init => IInv
<1> SUFFICES ASSUME Init PROVE IInv
  OBVIOUS
<1>1. \A R : Single(<<>>, R) /\ ~Some(<<>>, R)
  BY DEF Some, Single
<1>2. TypeOK
  <2>1. /\ answers \in Seq(Answers) /\ writing \in Seq(Writes) /\ written \in Seq(Writes)
        /\ stream \in Seq(Pieces)
    BY DEF Init
  <2>2. sent \in 0..MaxRequests /\ camera \subseteq RequestId /\ unanswerable \subseteq RequestId
    BY DEF Init
  <2>3. /\ accepting \in BOOLEAN /\ overlapped \in BOOLEAN
        /\ socket \in {"none", "open", "closed"} /\ read \in {"none", "size", "data", "failed"}
    BY DEF Init
  <2> QED BY <2>1, <2>2, <2>3 DEF TypeOK
<1>5. SentBounded /\ Drained
  BY DEF Init, SentBounded, Drained
<1>3. WriteShape
  BY DEF Init, WriteShape
<1>4. Requests
  BY <1>1 DEF Init, Requests, OnePlace, OnItsWay, Nowhere, Asked, Answered, Sending,
              SizeSent, Finished, Intact
<1> QED BY <1>2, <1>3, <1>4, <1>5 DEF IInv

LEMMA DoneArePieces == \A r : Some(stream, DoneOf(r)) => Some(stream, PieceOf(r))
BY DEF Some, DoneOf, PieceOf

LEMMA EmptyWhenNoneIn ==
  /\ answers \in Seq(Answers) /\ In(answers) = {} => answers = <<>>
  /\ written \in Seq(Writes) /\ In(written) = {} => written = <<>>
<1>1. ASSUME answers \in Seq(Answers), answers # <<>> PROVE In(answers) # {}
  <2>1. 1 \in DOMAIN answers
    BY <1>1
  <2> QED BY <2>1 DEF In
<1>2. ASSUME written \in Seq(Writes), written # <<>> PROVE In(written) # {}
  <2>1. 1 \in DOMAIN written
    BY <1>2
  <2> QED BY <2>1 DEF In
<1> QED BY <1>1, <1>2

-----------------------------------------------------------------------------
(* Steps that move no request: of the connection and of what is read.      *)
LEMMA ReadingKeeps ==
  ASSUME IInv, Accept \/ ReceiveSize \/ ReceiveDataFails \/ SessionEnds \/ UNCHANGED vars
  PROVE  IInv'
<1> USE DEF IInv
<1>2. UNCHANGED <<sent, camera, answers, writing, written, stream, unanswerable, overlapped>>
  BY DEF Accept, ReceiveSize, ReceiveDataFails, SessionEnds, vars
<1>1. TypeOK' /\ SentBounded'
  <2>1. /\ accepting' \in BOOLEAN
        /\ socket' \in {"none", "open", "closed"} /\ read' \in {"none", "size", "data", "failed"}
    BY DEF TypeOK, Accept, ReceiveSize, ReceiveDataFails, SessionEnds, vars
  <2>2. TypeOK'
    BY <1>2, <2>1 DEF TypeOK
  <2>3. SentBounded'
    BY DEF SentBounded, Accept, ReceiveSize, ReceiveDataFails, SessionEnds, vars
  <2> QED BY <2>2, <2>3
<1>3. WriteShape'
  BY <1>2 DEF WriteShape
<1>4. Intact' => Intact \/ sent = 0
  BY DEF Intact, SentBounded, Accept, ReceiveSize, ReceiveDataFails, SessionEnds, vars
<1>6. Drained'
  <2>1. CASE SessionEnds
    BY <1>2, <2>1, EmptyWhenNoneIn DEF Drained, SessionEnds, UnderWay, TypeOK
  <2>2. CASE ~SessionEnds
    BY <1>2, <2>2 DEF Drained, Accept, ReceiveSize, ReceiveDataFails, vars
  <2> QED BY <2>1, <2>2
<1>5. ASSUME NEW r \in RequestId PROVE OnePlace(r)' /\ OnItsWay(r)'
  <2>1. OnePlace(r) /\ OnItsWay(r) /\ sent \in Nat
    BY DEF Requests, TypeOK
  <2> QED BY <1>2, <1>4, <2>1
          DEF OnePlace, OnItsWay, Nowhere, Asked, Answered, Sending, SizeSent, Finished,
              Some, Single
<1> QED BY <1>1, <1>3, <1>5, <1>6 DEF Requests

(* Steps that end the connection, and all writes with it.                  *)
LEMMA ClosingKeeps ==
  ASSUME IInv, ReceiveSizeFails \/ WriteFails
  PROVE  IInv'
<1> USE DEF IInv
<1>2. /\ writing' = <<>> /\ socket' = "closed" /\ read' = "none"
      /\ UNCHANGED <<accepting, sent, camera, answers, written, stream, unanswerable,
                     overlapped>>
  BY DEF ReceiveSizeFails, WriteFails
<1>1. TypeOK' /\ SentBounded'
  <2>1. TypeOK'
    BY <1>2 DEF TypeOK
  <2>2. SentBounded'
    BY DEF SentBounded, ReceiveSizeFails, WriteFails
  <2> QED BY <2>1, <2>2
<1>3. WriteShape'
  BY <1>2 DEF WriteShape
<1>4. \A R : Single(<<>>, R) /\ ~Some(<<>>, R)
  BY DEF Some, Single
<1>5. ASSUME NEW r \in RequestId PROVE OnePlace(r)' /\ OnItsWay(r)'
  <2>1. OnePlace(r) /\ OnItsWay(r)
    BY DEF Requests
  <2>2. ~Sending(r)' /\ Single(writing', WriteOf(r))
    BY <1>2, <1>4 DEF Sending
  <2>3. /\ Asked(r)' <=> Asked(r)
        /\ Answered(r)' <=> Answered(r)
        /\ SizeSent(r)' <=> SizeSent(r)
        /\ Finished(r)' <=> Finished(r)
    BY <1>2 DEF Asked, Answered, SizeSent, Finished
  <2>4. OnePlace(r)'
    BY <1>2, <2>1, <2>2, <2>3 DEF OnePlace
  <2>5. OnItsWay(r)'
    BY <1>2, <2>1, <2>2, <2>3 DEF OnItsWay, Nowhere, Intact
  <2> QED BY <2>4, <2>5
<1>6. Drained'
  BY <1>2 DEF Drained
<1> QED BY <1>1, <1>3, <1>5, <1>6 DEF Requests

(* A request came in.                                                      *)
LEMMA ReceiveKeeps ==
  ASSUME IInv, RequestImage \/ IgnoreRequest
  PROVE  IInv'
<1> USE DEF IInv
<1>1. /\ read = "data" /\ socket = "open" /\ sent' = sent + 1 /\ sent \in Nat
      /\ sent' \in RequestId /\ read' = "size" /\ socket' = socket
      /\ UNCHANGED <<accepting, answers, writing, written, stream>>
  BY DEF TypeOK, SentBounded, RequestImage, IgnoreRequest, Receive
<1>2. \/ camera' = camera \cup {sent + 1} /\ unanswerable' = unanswerable
      \/ unanswerable' = unanswerable \cup {sent + 1} /\ camera' = camera
  BY <1>1 DEF RequestImage, IgnoreRequest
<1>3. overlapped' \in BOOLEAN
  BY DEF TypeOK, RequestImage, IgnoreRequest, Receive
<1>4. TypeOK'
  <2>1. camera' \subseteq RequestId /\ unanswerable' \subseteq RequestId
    BY <1>1, <1>2 DEF TypeOK
  <2>2. sent' \in 0..MaxRequests
    BY <1>1
  <2> QED BY <1>1, <1>3, <2>1, <2>2 DEF TypeOK
<1>5. SentBounded' /\ Drained' /\ WriteShape'
  BY <1>1 DEF SentBounded, Drained, WriteShape
<1>6. ASSUME NEW r \in RequestId PROVE OnePlace(r)' /\ OnItsWay(r)'
  <2>1. OnePlace(r) /\ OnItsWay(r)
    BY DEF Requests
  <2>2. /\ Answered(r)' <=> Answered(r)
        /\ Sending(r)' <=> Sending(r)
        /\ SizeSent(r)' <=> SizeSent(r)
        /\ Finished(r)' <=> Finished(r)
    BY <1>1 DEF Answered, Sending, SizeSent, Finished
  <2>3. r # sent + 1 => /\ Asked(r)' <=> Asked(r)
                        /\ r \in unanswerable' <=> r \in unanswerable
    BY <1>2 DEF Asked
  <2>4. r = sent + 1 => /\ Nowhere(r) /\ r \notin unanswerable /\ ~Finished(r)
                        /\ r \in unanswerable' <=> ~Asked(r)'
    BY <1>1, <1>2, <2>1, DoneArePieces DEF OnItsWay, Nowhere, Asked, Finished
  <2>5. OnePlace(r)'
    BY <1>1, <2>1, <2>2, <2>3, <2>4 DEF OnePlace, Nowhere
  <2>6. OnItsWay(r)'
    BY <1>1, <2>1, <2>2, <2>3, <2>4 DEF OnItsWay, Nowhere, Intact
  <2> QED BY <2>5, <2>6
<1> QED BY <1>4, <1>5, <1>6 DEF Requests

-----------------------------------------------------------------------------
(* Steps that move a request: the camera reader answers, ...               *)
LEMMA CameraKeeps ==
  ASSUME IInv, NEW c \in camera, CameraAnswers(c)
  PROVE  IInv'
<1> USE DEF IInv
<1>1. PICK ok \in BOOLEAN : answers' = Append(answers, [re |-> c, ok |-> ok])
  BY DEF CameraAnswers
<1> DEFINE a == [re |-> c, ok |-> ok]
<1>2. /\ camera' = camera \ {c}
      /\ UNCHANGED <<accepting, socket, read, sent, writing, written, stream,
                     unanswerable, overlapped>>
  BY DEF CameraAnswers
<1>3. answers \in Seq(Answers) /\ camera \subseteq RequestId /\ c \in RequestId
  BY DEF TypeOK
<1>4. a \in Answers /\ a.re = c
  BY <1>3 DEF Answers
<1> HIDE DEF a
<1>5. answers' = Append(answers, a)
  BY <1>1 DEF a
<1>6. answers' \in Seq(Answers)
  BY <1>3, <1>4, <1>5
<1>7. TypeOK' /\ SentBounded' /\ Drained' /\ WriteShape'
  BY <1>2, <1>3, <1>6 DEF TypeOK, SentBounded, Drained, WriteShape
<1>8. ASSUME NEW r \in RequestId PROVE OnePlace(r)' /\ OnItsWay(r)'
  <2>1. OnePlace(r) /\ OnItsWay(r)
    BY DEF Requests
  <2>2. a \in AnswerOf(r) <=> r = c
    BY <1>4 DEF AnswerOf
  <2>3. r = c => Asked(r)
    BY DEF Asked
  <2>4. /\ Single(answers', AnswerOf(r))
        /\ Some(answers', AnswerOf(r)) <=> Some(answers, AnswerOf(r)) \/ r = c
    <3>1. Single(answers, AnswerOf(r)) /\ (a \in AnswerOf(r) => ~Some(answers, AnswerOf(r)))
      BY <2>1, <2>2, <2>3 DEF OnePlace, Answered
    <3> QED BY <1>3, <1>4, <1>5, <2>2, <3>1, AppendEntries
  <2>5. /\ Asked(r)' <=> Asked(r) /\ r # c
        /\ Answered(r)' <=> Answered(r) \/ r = c
        /\ Sending(r)' <=> Sending(r)
        /\ SizeSent(r)' <=> SizeSent(r)
        /\ Finished(r)' <=> Finished(r)
    BY <1>2, <2>4 DEF Asked, Answered, Sending, SizeSent, Finished
  <2>6. OnePlace(r)'
    BY <1>2, <2>1, <2>3, <2>4, <2>5 DEF OnePlace
  <2>7. OnItsWay(r)'
    BY <1>2, <2>1, <2>3, <2>5 DEF OnItsWay, Nowhere, Intact
  <2> QED BY <2>6, <2>7
<1> QED BY <1>7, <1>8 DEF Requests

(* ... the answer's size is written, ...                                   *)
LEMMA SizeKeeps ==
  ASSUME IInv, DoSendSize
  PROVE  IInv'
<1> USE DEF IInv
<1>1. PICK a : a = Head(answers)
  OBVIOUS
<1>2. PICK w : w = SizeOf(a.re, ~a.ok)
  OBVIOUS
<1>3. /\ answers # <<>> /\ answers' = Tail(answers)
      /\ writing' = IF socket = "open" THEN Append(writing, w) ELSE writing
      /\ UNCHANGED <<accepting, socket, read, sent, camera, written, stream,
                     unanswerable, overlapped>>
  BY <1>1, <1>2 DEF DoSendSize, Write
<1>4. answers \in Seq(Answers) /\ writing \in Seq(Writes)
  BY DEF TypeOK
<1>5. a \in Answers
  BY <1>1, <1>3, <1>4
<1>6. a.re \in RequestId
  BY <1>5 DEF Answers
<1>7. w \in Writes /\ w.re = a.re /\ w.part = "size" /\ w.pieces = 1
  BY <1>2, <1>5 DEF SizeOf, Answers, Writes
<1>8. ASSUME NEW r \in RequestId
      PROVE  /\ OnePlace(r)' /\ OnItsWay(r)'
             /\ answers' \in Seq(Answers) /\ writing' \in Seq(Writes)
  <2>1. OnePlace(r) /\ OnItsWay(r)
    BY DEF Requests
  <2>2. /\ Tail(answers) \in Seq(Answers)
        /\ Single(Tail(answers), AnswerOf(r))
        /\ Some(Tail(answers), AnswerOf(r)) <=> Answered(r) /\ a \notin AnswerOf(r)
        /\ a \in AnswerOf(r) => Answered(r)
    BY <1>1, <1>3, <1>4, <2>1, TailEntries DEF OnePlace, Answered
  <2>3. (a \in AnswerOf(r) <=> r = a.re) /\ (w \in WriteOf(r) <=> r = a.re)
    BY <1>5, <1>7 DEF AnswerOf, WriteOf
  <2>4. /\ writing' \in Seq(Writes) /\ Single(writing', WriteOf(r))
        /\ Some(writing', WriteOf(r)) <=> Sending(r) \/ (r = a.re /\ socket = "open")
    <3>1. CASE socket = "open"
      <4>1. Single(writing, WriteOf(r)) /\ (w \in WriteOf(r) => ~Some(writing, WriteOf(r)))
        BY <2>1, <2>2, <2>3 DEF OnePlace, Sending
      <4> QED BY <1>3, <1>4, <1>7, <2>3, <3>1, <4>1, AppendEntries DEF Sending
    <3>2. CASE socket # "open"
      BY <1>3, <1>4, <2>1, <3>2 DEF OnePlace, Sending
    <3> QED BY <3>1, <3>2
  <2>5. /\ Asked(r)' <=> Asked(r)
        /\ Answered(r)' <=> Answered(r) /\ r # a.re
        /\ Sending(r)' <=> Sending(r) \/ (r = a.re /\ socket = "open")
        /\ SizeSent(r)' <=> SizeSent(r)
        /\ Finished(r)' <=> Finished(r)
    BY <1>3, <2>2, <2>3, <2>4 DEF Asked, Answered, Sending, SizeSent, Finished
  <2>6. r = a.re => Answered(r)
    BY <2>2, <2>3
  <2>7. OnePlace(r)'
    BY <1>3, <2>1, <2>2, <2>4, <2>5, <2>6 DEF OnePlace
  <2>8. OnItsWay(r)'
    BY <1>3, <2>1, <2>5, <2>6 DEF OnItsWay, Nowhere, Intact, Drained
  <2> QED BY <1>3, <2>2, <2>4, <2>7, <2>8
<1>9. answers' \in Seq(Answers) /\ writing' \in Seq(Writes)
  BY <1>6, <1>8
<1>10. TypeOK' /\ SentBounded' /\ Drained'
  BY <1>3, <1>9 DEF TypeOK, SentBounded, Drained
<1>11. WriteShape'
  BY <1>3, <1>4, <1>7 DEF WriteShape
<1> QED BY <1>8, <1>10, <1>11 DEF Requests

(* ... then its data, if there is any, ...                                 *)
LEMMA DataKeeps ==
  ASSUME IInv, DoSendData
  PROVE  IInv'
<1> USE DEF IInv
<1>1. PICK s : s = Head(written)
  OBVIOUS
<1>2. PICK w : w = DataOf(s.re)
  OBVIOUS
<1>3. /\ written # <<>> /\ written' = Tail(written)
      /\ writing' = IF ~s.empty /\ socket = "open" THEN Append(writing, w) ELSE writing
      /\ UNCHANGED <<accepting, socket, read, sent, camera, answers, stream,
                     unanswerable, overlapped>>
  BY <1>1, <1>2 DEF DoSendData, Write
<1>4. written \in Seq(Writes) /\ writing \in Seq(Writes)
  BY DEF TypeOK
<1>5. s \in Writes
  BY <1>1, <1>3, <1>4
<1>6. s.re \in RequestId
  BY <1>5 DEF Writes
<1>7. w \in Writes /\ w.re = s.re /\ w.part = "data" /\ ~w.empty
  BY <1>2, <1>6 DEF DataOf, Writes
<1>8. ASSUME NEW r \in RequestId
      PROVE  /\ OnePlace(r)' /\ OnItsWay(r)'
             /\ written' \in Seq(Writes) /\ writing' \in Seq(Writes)
  <2>1. OnePlace(r) /\ OnItsWay(r)
    BY DEF Requests
  <2>2. /\ Tail(written) \in Seq(Writes)
        /\ Single(Tail(written), WriteOf(r))
        /\ Some(Tail(written), WriteOf(r)) <=> SizeSent(r) /\ s \notin WriteOf(r)
        /\ s \in WriteOf(r) => SizeSent(r)
    BY <1>1, <1>3, <1>4, <2>1, TailEntries DEF OnePlace, SizeSent
  <2>3. Single(written, EmptyOf(r))
    BY <2>1 DEF OnePlace, Single, EmptyOf, WriteOf
  <2>4. /\ Some(Tail(written), EmptyOf(r)) <=> Some(written, EmptyOf(r)) /\ s \notin EmptyOf(r)
        /\ s \in EmptyOf(r) => Some(written, EmptyOf(r))
    BY <1>1, <1>3, <1>4, <2>3, TailEntries
  <2>5. /\ s \in WriteOf(r) <=> r = s.re
        /\ s \in EmptyOf(r) <=> r = s.re /\ s.empty
        /\ w \in WriteOf(r) <=> r = s.re
    BY <1>5, <1>7 DEF WriteOf, EmptyOf
  <2>6. r = s.re => SizeSent(r) /\ (Finished(r) <=> s.empty)
    <3>1. r = s.re /\ ~s.empty => ~Some(written, EmptyOf(r))
      BY <1>1, <1>3, <1>4, <1>5, <2>1, <2>2, <2>5
         DEF OnePlace, Single, Some, EmptyOf, WriteOf
    <3> QED BY <2>1, <2>2, <2>4, <2>5, <3>1 DEF OnePlace
  <2>7. /\ writing' \in Seq(Writes) /\ Single(writing', WriteOf(r))
        /\ Some(writing', WriteOf(r))
             <=> Sending(r) \/ (r = s.re /\ ~s.empty /\ socket = "open")
    <3>1. CASE ~s.empty /\ socket = "open"
      <4>1. Single(writing, WriteOf(r)) /\ (w \in WriteOf(r) => ~Some(writing, WriteOf(r)))
        BY <2>1, <2>2, <2>5 DEF OnePlace, Sending
      <4> QED BY <1>3, <1>4, <1>7, <2>5, <3>1, <4>1, AppendEntries DEF Sending
    <3>2. CASE ~(~s.empty /\ socket = "open")
      BY <1>3, <1>4, <2>1, <3>2 DEF OnePlace, Sending
    <3> QED BY <3>1, <3>2
  <2>8. /\ Asked(r)' <=> Asked(r)
        /\ Answered(r)' <=> Answered(r)
        /\ Sending(r)' <=> Sending(r) \/ (r = s.re /\ ~s.empty /\ socket = "open")
        /\ SizeSent(r)' <=> SizeSent(r) /\ r # s.re
        /\ Finished(r)' <=> Finished(r)
    BY <1>3, <2>2, <2>5, <2>7 DEF Asked, Answered, Sending, SizeSent, Finished
  <2>9. r # s.re => (Some(written', EmptyOf(r)) <=> Some(written, EmptyOf(r)))
    BY <1>3, <2>4, <2>5
  <2>10. OnePlace(r)'
    BY <1>3, <2>1, <2>2, <2>6, <2>7, <2>8, <2>9 DEF OnePlace
  <2>11. OnItsWay(r)'
    BY <1>3, <2>1, <2>6, <2>8 DEF OnItsWay, Nowhere, Intact, Drained
  <2> QED BY <1>3, <2>2, <2>7, <2>10, <2>11
<1>9. written' \in Seq(Writes) /\ writing' \in Seq(Writes)
  BY <1>6, <1>8
<1>10. TypeOK' /\ SentBounded' /\ Drained'
  BY <1>3, <1>9 DEF TypeOK, SentBounded, Drained
<1>11. WriteShape'
  BY <1>3, <1>4, <1>7 DEF WriteShape
<1> QED BY <1>8, <1>10, <1>11 DEF Requests

(* ... and each write has its turns, of which the last completes it.       *)
LEMMA CompletesKeeps ==
  ASSUME IInv, WriteCompletes
  PROVE  IInv'
<1> USE DEF IInv
<1>1. PICK w : w = Head(writing)
  OBVIOUS
<1>2. PICK p : p = [part |-> w.part, re |-> w.re, empty |-> w.empty, last |-> TRUE]
  OBVIOUS
<1>3. /\ writing # <<>> /\ writing' = Tail(writing) /\ stream' = Append(stream, p)
      /\ written' = IF w.part = "size" THEN Append(written, w) ELSE written
      /\ UNCHANGED <<accepting, socket, read, sent, camera, answers, unanswerable,
                     overlapped>>
  BY <1>1, <1>2 DEF WriteCompletes
<1>4. writing \in Seq(Writes) /\ written \in Seq(Writes) /\ stream \in Seq(Pieces)
  BY DEF TypeOK
<1>5. /\ w \in Writes /\ Tail(writing) \in Seq(Writes)
      /\ \A i \in DOMAIN Tail(writing) : \E j \in DOMAIN writing : Tail(writing)[i] = writing[j]
      /\ \E j \in DOMAIN writing : w = writing[j]
  BY <1>1, <1>3, <1>4
<1>6. w.re \in RequestId /\ w.part \in {"size", "data"} /\ w.empty \in BOOLEAN
  BY <1>5 DEF Writes
<1>7. p \in Pieces /\ p.re = w.re /\ p.last /\ p.part = w.part /\ p.empty = w.empty
  BY <1>2, <1>6 DEF Pieces
<1>8. w.part = "data" => ~w.empty
  BY <1>5 DEF WriteShape
<1>9. ASSUME NEW r \in RequestId
      PROVE  /\ OnePlace(r)' /\ OnItsWay(r)'
             /\ writing' \in Seq(Writes) /\ written' \in Seq(Writes)
  <2>1. OnePlace(r) /\ OnItsWay(r)
    BY DEF Requests
  <2>2. /\ Single(Tail(writing), WriteOf(r))
        /\ Some(Tail(writing), WriteOf(r)) <=> Sending(r) /\ w \notin WriteOf(r)
        /\ w \in WriteOf(r) => Sending(r)
    BY <1>1, <1>3, <1>4, <2>1, TailEntries DEF OnePlace, Sending
  <2>3. /\ w \in WriteOf(r) <=> r = w.re
        /\ w \in EmptyOf(r) <=> r = w.re /\ w.empty
        /\ p \in PieceOf(r) <=> r = w.re
        /\ p \in DoneOf(r) <=> r = w.re /\ (w.part = "data" \/ w.empty)
    BY <1>5, <1>7 DEF WriteOf, EmptyOf, PieceOf, DoneOf
  <2>4. r = w.re => Sending(r)
    BY <2>2, <2>3
  <2>5. /\ written' \in Seq(Writes) /\ Single(written', WriteOf(r))
        /\ Some(written', WriteOf(r)) <=> SizeSent(r) \/ (r = w.re /\ w.part = "size")
        /\ Some(written', EmptyOf(r))
             <=> Some(written, EmptyOf(r)) \/ (r = w.re /\ w.part = "size" /\ w.empty)
    <3>1. CASE w.part = "size"
      <4>1. Single(written, WriteOf(r)) /\ (w \in WriteOf(r) => ~Some(written, WriteOf(r)))
        BY <2>1, <2>3, <2>4 DEF OnePlace, SizeSent
      <4>2. written' = Append(written, w)
        BY <1>3, <3>1
      <4>3. Some(written', EmptyOf(r)) <=> Some(written, EmptyOf(r)) \/ w \in EmptyOf(r)
        BY <1>4, <1>5, <4>2, AppendSome
      <4>4. /\ written' \in Seq(Writes) /\ Single(written', WriteOf(r))
            /\ Some(written', WriteOf(r)) <=> Some(written, WriteOf(r)) \/ w \in WriteOf(r)
        BY <1>4, <1>5, <4>1, <4>2, AppendEntries
      <4> QED BY <2>3, <3>1, <4>3, <4>4 DEF SizeSent
    <3>2. CASE w.part # "size"
      BY <1>3, <1>4, <2>1, <3>2 DEF OnePlace, SizeSent
    <3> QED BY <3>1, <3>2
  <2>6. /\ Some(stream', PieceOf(r)) <=> Some(stream, PieceOf(r)) \/ r = w.re
        /\ Some(stream', DoneOf(r))
             <=> Finished(r) \/ (r = w.re /\ (w.part = "data" \/ w.empty))
    BY <1>3, <1>4, <1>7, <2>3, AppendSome DEF Finished
  <2>7. /\ Asked(r)' <=> Asked(r)
        /\ Answered(r)' <=> Answered(r)
        /\ Sending(r)' <=> Sending(r) /\ r # w.re
        /\ SizeSent(r)' <=> SizeSent(r) \/ (r = w.re /\ w.part = "size")
        /\ Finished(r)' <=> Finished(r) \/ (r = w.re /\ (w.part = "data" \/ w.empty))
    BY <1>3, <2>2, <2>3, <2>5, <2>6 DEF Asked, Answered, Sending, SizeSent, Finished
  <2>8. Some(written, EmptyOf(r)) => SizeSent(r)
    BY DEF Some, EmptyOf, WriteOf, SizeSent
  <2>9. OnePlace(r)'
    <3>1. CASE r = w.re
      BY <1>3, <1>6, <1>8, <2>1, <2>2, <2>4, <2>5, <2>7, <2>8, <3>1 DEF OnePlace
    <3>2. CASE r # w.re
      BY <1>3, <2>1, <2>2, <2>5, <2>7, <3>2 DEF OnePlace
    <3> QED BY <3>1, <3>2
  <2>10. OnItsWay(r)'
    BY <1>3, <1>6, <2>1, <2>4, <2>6, <2>7 DEF OnItsWay, Nowhere, Intact
  <2> QED BY <1>3, <1>5, <2>5, <2>9, <2>10
<1>10. writing' \in Seq(Writes) /\ written' \in Seq(Writes) /\ stream' \in Seq(Pieces)
  <2>1. stream' \in Seq(Pieces)
    BY <1>3, <1>4, <1>7
  <2> QED BY <1>6, <1>9, <2>1
<1>11. TypeOK' /\ SentBounded' /\ Drained'
  BY <1>3, <1>10 DEF TypeOK, SentBounded, Drained, WriteCompletes
<1>12. WriteShape'
  BY <1>3, <1>5 DEF WriteShape
<1> QED BY <1>9, <1>11, <1>12 DEF Requests

LEMMA InPartKeeps ==
  ASSUME IInv, WriteInPart
  PROVE  IInv'
<1> USE DEF IInv
<1>1. PICK w : w = Head(writing)
  OBVIOUS
<1>2. PICK p : p = [part |-> w.part, re |-> w.re, empty |-> w.empty, last |-> FALSE]
  OBVIOUS
<1>3. PICK v : v = [w EXCEPT !.pieces = @ - 1]
  OBVIOUS
<1>4. /\ writing # <<>> /\ writing' = Append(Tail(writing), v) /\ stream' = Append(stream, p)
      /\ w.pieces > 1
      /\ UNCHANGED <<accepting, socket, read, sent, camera, answers, written, unanswerable,
                     overlapped>>
  BY <1>1, <1>2, <1>3 DEF WriteInPart
<1>5. writing \in Seq(Writes) /\ stream \in Seq(Pieces)
  BY DEF TypeOK
<1>6. /\ w \in Writes /\ Tail(writing) \in Seq(Writes)
      /\ \A i \in DOMAIN Tail(writing) : \E j \in DOMAIN writing : Tail(writing)[i] = writing[j]
      /\ \E j \in DOMAIN writing : w = writing[j]
  BY <1>1, <1>4, <1>5
<1>7. w.part = "data" /\ ~w.empty /\ w.re \in RequestId /\ w.pieces \in 1..PiecesPerData
  <2>1. /\ w.part \in {"size", "data"} /\ w.re \in RequestId
        /\ w.pieces \in 1..PiecesPerData
    BY <1>6 DEF Writes
  <2>2. /\ w.part = "size" => w.pieces = 1
        /\ w.part = "data" => ~w.empty
    BY <1>6 DEF WriteShape
  <2> QED BY <1>4, <2>1, <2>2
<1>8. v \in Writes /\ v.re = w.re /\ v.part = "data" /\ ~v.empty
  <2>1. w.pieces - 1 \in 1..PiecesPerData
    BY <1>4, <1>7
  <2>2. v = [part |-> w.part, re |-> w.re, empty |-> w.empty, pieces |-> w.pieces - 1]
    BY <1>3, <1>6 DEF Writes
  <2>3. w.empty \in BOOLEAN
    BY <1>6 DEF Writes
  <2> QED BY <1>7, <2>1, <2>2, <2>3 DEF Writes
<1>9. p \in Pieces /\ p.re = w.re /\ ~p.last
  BY <1>2, <1>6 DEF Pieces, Writes
<1>10. ASSUME NEW r \in RequestId
       PROVE  OnePlace(r)' /\ OnItsWay(r)' /\ writing' \in Seq(Writes)
  <2>1. OnePlace(r) /\ OnItsWay(r)
    BY DEF Requests
  <2>2. /\ Single(Tail(writing), WriteOf(r))
        /\ Some(Tail(writing), WriteOf(r)) <=> Sending(r) /\ w \notin WriteOf(r)
        /\ w \in WriteOf(r) => Sending(r)
    BY <1>1, <1>4, <1>5, <2>1, TailEntries DEF OnePlace, Sending
  <2>3. /\ w \in WriteOf(r) <=> r = w.re
        /\ v \in WriteOf(r) <=> r = w.re
        /\ p \in PieceOf(r) <=> r = w.re
        /\ p \notin DoneOf(r)
    BY <1>6, <1>8, <1>9 DEF WriteOf, PieceOf, DoneOf
  <2>4. r = w.re => Sending(r)
    BY <2>2, <2>3
  <2>5. /\ writing' \in Seq(Writes) /\ Single(writing', WriteOf(r))
        /\ Some(writing', WriteOf(r)) <=> Sending(r)
    <3>1. v \in WriteOf(r) => ~Some(Tail(writing), WriteOf(r))
      BY <2>2, <2>3
    <3>2. /\ writing' \in Seq(Writes) /\ Single(writing', WriteOf(r))
          /\ Some(writing', WriteOf(r)) <=> Some(Tail(writing), WriteOf(r)) \/ v \in WriteOf(r)
      BY <1>4, <1>6, <1>8, <2>2, <3>1, AppendEntries
    <3> QED BY <2>2, <2>3, <2>4, <3>2
  <2>6. /\ Some(stream', PieceOf(r)) <=> Some(stream, PieceOf(r)) \/ r = w.re
        /\ Some(stream', DoneOf(r)) <=> Finished(r)
    BY <1>4, <1>5, <1>9, <2>3, AppendSome DEF Finished
  <2>7. /\ Asked(r)' <=> Asked(r)
        /\ Answered(r)' <=> Answered(r)
        /\ Sending(r)' <=> Sending(r)
        /\ SizeSent(r)' <=> SizeSent(r)
        /\ Finished(r)' <=> Finished(r)
    BY <1>4, <2>5, <2>6 DEF Asked, Answered, Sending, SizeSent, Finished
  <2>8. OnePlace(r)'
    BY <1>4, <2>1, <2>5, <2>7 DEF OnePlace
  <2>9. OnItsWay(r)'
    BY <1>4, <2>1, <2>4, <2>6, <2>7 DEF OnItsWay, Nowhere, Intact
  <2> QED BY <2>5, <2>8, <2>9
<1>11. writing' \in Seq(Writes) /\ stream' \in Seq(Pieces)
  <2>1. stream' \in Seq(Pieces)
    BY <1>4, <1>5, <1>9
  <2> QED BY <1>7, <1>10, <2>1
<1>12. TypeOK' /\ SentBounded' /\ Drained'
  BY <1>4, <1>11 DEF TypeOK, SentBounded, Drained
<1>13. WriteShape'
  BY <1>4, <1>6, <1>8 DEF WriteShape
<1> QED BY <1>10, <1>12, <1>13 DEF Requests

LEMMA StepKeepsIInv == IInv /\ [Next]_vars => IInv'
BY ReadingKeeps, ClosingKeeps, ReceiveKeeps, CameraKeeps, SizeKeeps, DataKeeps,
   CompletesKeeps, InPartKeeps DEF Next, RunHandler

-----------------------------------------------------------------------------
(* Every request for an image is in one place, with the camera reader, in  *)
(* an answer, in a write or in a handler, or received in full: no response *)
(* is lost or sent twice, whatever order the camera reader answers in and  *)
(* however the client overlaps its requests.                               *)
THEOREM OneResponse == Spec => []OneResponseEach
<1>1. IInv => OneResponseEach
  <2> SUFFICES ASSUME IInv PROVE OneResponseEach
    OBVIOUS
  <2>1. TypeOK /\ sent \in 0..MaxRequests
    BY DEF IInv, TypeOK
  <2>2. answers \in Seq(Answers) /\ writing \in Seq(Writes) /\ written \in Seq(Writes)
        /\ stream \in Seq(Pieces)
    BY <2>1 DEF TypeOK
  <2>3. ASSUME NEW r \in 1..sent
        PROVE  /\ \A i, j \in 1..4 :
                    /\ <<r \in camera, r \in In(answers), r \in In(writing), r \in In(written)>>[i]
                    /\ <<r \in camera, r \in In(answers), r \in In(writing), r \in In(written)>>[j]
                    => i = j
               /\ r \in UnderWay /\ Complete(r) => r \in In(written)
               /\ r \in unanswerable => r \notin UnderWay \cup In(stream)
               /\ r \notin unanswerable /\ Intact => r \in UnderWay \/ Complete(r)
    <3> DEFINE places == <<r \in camera, r \in In(answers), r \in In(writing), r \in In(written)>>
    <3>1. r \in RequestId /\ r <= sent
      BY <2>1
    <3>2. OnePlace(r) /\ OnItsWay(r)
      BY <3>1 DEF IInv, Requests
    <3>3. /\ \A i \in DOMAIN answers : answers[i] \in Answers
          /\ \A i \in DOMAIN writing : writing[i] \in Writes
          /\ \A i \in DOMAIN written : written[i] \in Writes
          /\ \A i \in DOMAIN stream : stream[i] \in Pieces
      BY <2>2
    <3>4. /\ r \in In(answers) <=> Answered(r)
          /\ r \in In(writing) <=> Sending(r)
          /\ r \in In(written) <=> SizeSent(r)
          /\ r \in In(stream) <=> Some(stream, PieceOf(r))
          /\ Complete(r) <=> Finished(r)
      BY <3>3 DEF In, Answered, Sending, SizeSent, Finished, Complete, Some, AnswerOf,
                  WriteOf, PieceOf, DoneOf
    <3>5. r \in UnderWay <=> Asked(r) \/ Answered(r) \/ Sending(r) \/ SizeSent(r)
      BY <3>4 DEF UnderWay, Asked
    <3>6. \A i, j \in 1..4 : places[i] /\ places[j] => i = j
      <4>1. /\ places[1] <=> r \in camera
            /\ places[2] <=> r \in In(answers)
            /\ places[3] <=> r \in In(writing)
            /\ places[4] <=> r \in In(written)
        OBVIOUS
      <4> HIDE DEF places
      <4>2. /\ ~(places[1] /\ places[2]) /\ ~(places[1] /\ places[3]) /\ ~(places[1] /\ places[4])
            /\ ~(places[2] /\ places[3]) /\ ~(places[2] /\ places[4]) /\ ~(places[3] /\ places[4])
        BY <3>2, <3>4, <4>1 DEF OnePlace, Asked
      <4>3. \A i \in 1..4 : i = 1 \/ i = 2 \/ i = 3 \/ i = 4
        OBVIOUS
      <4> QED BY <4>2, <4>3
    <3>7. /\ r \in UnderWay /\ Complete(r) => r \in In(written)
          /\ r \in unanswerable => r \notin UnderWay \cup In(stream)
          /\ r \notin unanswerable /\ Intact => r \in UnderWay \/ Complete(r)
      BY <3>1, <3>2, <3>4, <3>5 DEF OnePlace, OnItsWay, Nowhere
    <3> QED BY <3>6, <3>7
  <2> QED BY <2>1, <2>3 DEF OneResponseEach
<1> QED BY <1>1, InitIInv, StepKeepsIInv, PTL DEF Spec

-----------------------------------------------------------------------------
(* Framing.  While requests do not overlap, one at most is under way, and  *)
(* how far it is says how the stream ends.                                 *)
Under(r)     == Asked(r) \/ Answered(r) \/ Sending(r) \/ SizeSent(r)
LastPiece    == stream[Len(stream)]
LastEnds     == stream # <<>> => LastPiece.last /\ (LastPiece.part = "data" \/ LastPiece.empty)
Ready(r)     == LastEnds /\ \A i \in DOMAIN stream : stream[i].re < r
Announced(r) == /\ stream # <<>> /\ LastPiece.re = r /\ ~LastPiece.empty
                /\ LastPiece.part = "size" \/ ~LastPiece.last

OneUnder   == \A r, q \in RequestId : Under(r) /\ Under(q) => r = q
NoneUnder  == (\A r \in RequestId : ~Under(r)) => LastEnds
BeforeSize == \A r \in RequestId : Asked(r) \/ Answered(r) => Ready(r)
AtWrites   == \A i \in DOMAIN writing :
                /\ writing[i].part = "size" => Ready(writing[i].re)
                /\ writing[i].part = "data" => Announced(writing[i].re)
AtHandler  == \A i \in DOMAIN written :
                /\ stream # <<>> /\ LastPiece.re = written[i].re
                /\ LastPiece.part = "size" /\ LastPiece.last
                /\ LastPiece.empty = written[i].empty
Framing == OneUnder /\ NoneUnder /\ BeforeSize /\ AtWrites /\ AtHandler

FInv == /\ IInv /\ FramedUnlessOverlapped
        /\ ~overlapped /\ socket = "open" => Framing

(* Nothing has been received of what was not asked for.                    *)
LEMMA StreamIsSent ==
  ASSUME IInv
  PROVE  \A i \in DOMAIN stream : stream[i] \in Pieces /\ stream[i].re \in 1..sent
<1>1. stream \in Seq(Pieces) /\ sent \in 0..MaxRequests
  BY DEF IInv, TypeOK
<1>2. ASSUME NEW i \in DOMAIN stream PROVE stream[i] \in Pieces /\ stream[i].re \in 1..sent
  <2>1. stream[i] \in Pieces
    BY <1>1
  <2>2. stream[i].re \in RequestId
    BY <2>1 DEF Pieces
  <2>3. Some(stream, PieceOf(stream[i].re))
    BY <2>1 DEF Some, PieceOf
  <2>4. ~(stream[i].re > sent)
    BY <2>2, <2>3 DEF IInv, Requests, OnItsWay, Nowhere
  <2> QED BY <1>1, <2>1, <2>2, <2>4
<1> QED BY <1>2

(* Who is in a queue is under way.                                         *)
LEMMA InQueueIsUnder ==
  ASSUME IInv
  PROVE  /\ \A i \in DOMAIN answers : answers[i].re \in RequestId /\ Answered(answers[i].re)
         /\ \A i \in DOMAIN writing : writing[i].re \in RequestId /\ Sending(writing[i].re)
         /\ \A i \in DOMAIN written : written[i].re \in RequestId /\ SizeSent(written[i].re)
<1>1. /\ \A i \in DOMAIN answers : answers[i] \in Answers
      /\ \A i \in DOMAIN writing : writing[i] \in Writes
      /\ \A i \in DOMAIN written : written[i] \in Writes
  BY DEF IInv, TypeOK
<1>2. /\ \A a \in Answers : a.re \in RequestId
      /\ \A w \in Writes : w.re \in RequestId
  BY DEF Answers, Writes
<1> QED BY <1>1, <1>2 DEF Answered, Sending, SizeSent, Some, AnswerOf, WriteOf

LEMMA InitFInv == Init => FInv
<1> SUFFICES ASSUME Init PROVE FInv
  OBVIOUS
<1>1. FramedUnlessOverlapped
  BY DEF Init, FramedUnlessOverlapped
<1>2. socket # "open"
  BY DEF Init
<1> QED BY <1>1, <1>2, InitIInv DEF FInv

(* Steps that leave the stream alone keep it well framed.                  *)
LEMMA SameStream ==
  ASSUME FramedUnlessOverlapped, UNCHANGED stream, overlapped => overlapped'
  PROVE  FramedUnlessOverlapped'
BY DEF FramedUnlessOverlapped

LEMMA ReadingKeepsFraming ==
  ASSUME FInv, Accept \/ ReceiveSize \/ ReceiveDataFails \/ SessionEnds \/ UNCHANGED vars
  PROVE  FramedUnlessOverlapped' /\ (~overlapped' /\ socket' = "open" => Framing')
<1>1. UNCHANGED <<sent, camera, answers, writing, written, stream, unanswerable, overlapped>>
  BY DEF Accept, ReceiveSize, ReceiveDataFails, SessionEnds, vars
<1>2. FramedUnlessOverlapped'
  BY <1>1, SameStream DEF FInv
<1>3. socket' = "open" => socket = "open" \/ sent = 0
  BY DEF FInv, IInv, SentBounded, Accept, ReceiveSize, ReceiveDataFails, SessionEnds, vars
<1>4. CASE socket = "open"
  <2>1. ~overlapped => Framing
    BY <1>4 DEF FInv
  <2>2. /\ LastEnds' <=> LastEnds
        /\ \A r : (Ready(r)' <=> Ready(r)) /\ (Announced(r)' <=> Announced(r))
        /\ \A r : /\ Asked(r)' <=> Asked(r)
                  /\ Answered(r)' <=> Answered(r)
                  /\ Under(r)' <=> Under(r)
    BY <1>1 DEF LastPiece, LastEnds, Ready, Announced, Asked, Answered, Sending, SizeSent, Under
  <2>3. Framing => OneUnder' /\ NoneUnder' /\ BeforeSize'
    BY <2>2 DEF Framing, OneUnder, NoneUnder, BeforeSize
  <2>4. Framing => AtWrites' /\ AtHandler'
    BY <1>1, <2>2 DEF Framing, AtWrites, AtHandler, LastPiece
  <2>5. ~overlapped' => Framing'
    BY <1>1, <2>1, <2>3, <2>4 DEF Framing
  <2> QED BY <1>2, <2>5
<1>5. CASE sent = 0
  <2>1. \A r \in RequestId : ~Asked(r) /\ ~Answered(r) /\ ~Sending(r) /\ ~SizeSent(r)
    BY <1>5 DEF FInv, IInv, Requests, OnItsWay, Nowhere
  <2>2. DOMAIN writing = {} /\ DOMAIN written = {} /\ DOMAIN stream = {}
    <3>1. IInv
      BY DEF FInv
    <3>2. 1..sent = {}
      BY <1>5
    <3>3. DOMAIN stream = {}
      BY <3>1, <3>2, StreamIsSent
    <3> QED BY <2>1, <3>1, <3>3, InQueueIsUnder
  <2>3. stream \in Seq(Pieces)
    BY DEF FInv, IInv, TypeOK
  <2>4. stream = <<>>
    BY <2>2, <2>3
  <2>5. \A r \in RequestId : ~Asked(r)' /\ ~Answered(r)' /\ ~Sending(r)' /\ ~SizeSent(r)'
    BY <1>1, <2>1 DEF Asked, Answered, Sending, SizeSent
  <2>6. Framing'
    BY <1>1, <2>2, <2>4, <2>5 DEF Framing, OneUnder, NoneUnder, BeforeSize, AtWrites, AtHandler,
            Under, LastEnds
  <2> QED BY <1>2, <2>6
<1> QED BY <1>2, <1>3, <1>4, <1>5

(* A request that overlaps no other: whatever was received before has      *)
(* ended, and is of earlier requests.                                      *)
LEMMA ReceiveKeepsFraming ==
  ASSUME FInv, RequestImage \/ IgnoreRequest
  PROVE  FramedUnlessOverlapped' /\ (~overlapped' /\ socket' = "open" => Framing')
<1>1. /\ socket = "open" /\ sent' = sent + 1 /\ sent \in Nat
      /\ overlapped' = (overlapped \/ UnderWay # {})
      /\ UNCHANGED <<answers, writing, written, stream>>
      /\ camera' \subseteq camera \cup {sent + 1}
  BY DEF FInv, IInv, TypeOK, RequestImage, IgnoreRequest, Receive
<1>2. FramedUnlessOverlapped'
  BY <1>1, SameStream DEF FInv
<1>3. ASSUME ~overlapped' PROVE Framing'
  <2>1. ~overlapped /\ UnderWay = {} /\ Framing
    BY <1>1, <1>3 DEF FInv
  <2>2. camera = {} /\ In(answers) = {} /\ In(writing) = {} /\ In(written) = {}
    BY <2>1 DEF UnderWay
  <2>3. DOMAIN answers = {} /\ DOMAIN writing = {} /\ DOMAIN written = {}
    BY <2>2 DEF In
  <2>4. \A r \in RequestId : ~Asked(r) /\ ~Answered(r) /\ ~Sending(r) /\ ~SizeSent(r)
    BY <2>2, <2>3 DEF Asked, Answered, Sending, SizeSent, Some
  <2>5. LastEnds
    BY <2>1, <2>4 DEF Framing, NoneUnder, Under
  <2>6. PICK s : s = sent + 1
    OBVIOUS
  <2>7. \A i \in DOMAIN stream : stream[i].re < s
    BY <1>1, <2>6, StreamIsSent DEF FInv
  <2>8. LastEnds' /\ Ready(s)'
    BY <1>1, <2>5, <2>7 DEF LastEnds, LastPiece, Ready
  <2>9. \A r \in RequestId : (Asked(r)' => r = s) /\ ~Answered(r)' /\ ~Sending(r)' /\ ~SizeSent(r)'
    BY <1>1, <2>2, <2>4, <2>6 DEF Asked, Answered, Sending, SizeSent
  <2> QED BY <1>1, <2>3, <2>8, <2>9
          DEF Framing, OneUnder, NoneUnder, BeforeSize, AtWrites, AtHandler, Under
<1> QED BY <1>2, <1>3

-----------------------------------------------------------------------------
(* A request's way, when no other is under way.                            *)
LEMMA CameraKeepsFraming ==
  ASSUME FInv, NEW c \in camera, CameraAnswers(c)
  PROVE  FramedUnlessOverlapped' /\ (~overlapped' /\ socket' = "open" => Framing')
<1>1. PICK a : a.re = c /\ answers' = Append(answers, a) /\ a \in Answers
  <2>1. c \in RequestId
    BY DEF FInv, IInv, TypeOK
  <2>2. PICK ok \in BOOLEAN : answers' = Append(answers, [re |-> c, ok |-> ok])
    BY DEF CameraAnswers
  <2>3. [re |-> c, ok |-> ok] \in Answers
    BY <2>1 DEF Answers
  <2> QED BY <2>2, <2>3
<1>2. /\ camera' = camera \ {c}
      /\ UNCHANGED <<socket, writing, written, stream, overlapped>>
  BY DEF CameraAnswers
<1>3. FramedUnlessOverlapped'
  BY <1>2, SameStream DEF FInv
<1>4. ASSUME ~overlapped', socket' = "open" PROVE Framing'
  <2>1. Framing /\ answers \in Seq(Answers) /\ c \in RequestId
    BY <1>2, <1>4 DEF FInv, IInv, TypeOK
  <2>2. \A r \in RequestId : Some(answers', AnswerOf(r)) <=> Some(answers, AnswerOf(r)) \/ r = c
    <3> TAKE r \in RequestId
    <3>1. a \in AnswerOf(r) <=> r = c
      BY <1>1 DEF AnswerOf
    <3> QED BY <1>1, <2>1, <3>1, AppendSome
  <2>3. /\ LastEnds' <=> LastEnds
        /\ \A r : (Ready(r)' <=> Ready(r)) /\ (Announced(r)' <=> Announced(r))
        /\ \A r \in RequestId : /\ Asked(r)' <=> Asked(r) /\ r # c
                                /\ Answered(r)' <=> Answered(r) \/ r = c
                                /\ Under(r)' <=> Under(r)
    BY <1>2, <2>2 DEF LastPiece, LastEnds, Ready, Announced, Asked, Answered, Sending,
                      SizeSent, Under
  <2>4. Ready(c)
    BY <2>1 DEF Framing, BeforeSize, Asked
  <2>5. OneUnder' /\ NoneUnder' /\ BeforeSize'
    BY <2>1, <2>3, <2>4 DEF Framing, OneUnder, NoneUnder, BeforeSize
  <2>6. AtWrites' /\ AtHandler'
    BY <1>2, <2>1, <2>3 DEF Framing, AtWrites, AtHandler, LastPiece
  <2> QED BY <2>5, <2>6 DEF Framing
<1> QED BY <1>3, <1>4

(* Whoever is in one place is not in another, and nobody else is.          *)
LEMMA Alone ==
  ASSUME FInv, ~overlapped, socket = "open", NEW c \in RequestId, Under(c)
  PROVE  /\ \A r \in RequestId : Under(r) => r = c
         /\ Answered(c) => camera = {} /\ DOMAIN writing = {} /\ DOMAIN written = {}
         /\ Sending(c) => camera = {} /\ DOMAIN answers = {} /\ DOMAIN written = {}
         /\ SizeSent(c) => camera = {} /\ DOMAIN answers = {} /\ DOMAIN writing = {}
         /\ \A i, j \in DOMAIN answers : i = j
         /\ \A i, j \in DOMAIN writing : i = j
         /\ \A i, j \in DOMAIN written : i = j
<1>1. OneUnder /\ OnePlace(c)
  BY DEF FInv, Framing, IInv, Requests
<1>2. \A r \in RequestId : Under(r) => r = c
  BY <1>1 DEF OneUnder
<1>3. /\ \A r \in camera : r = c
      /\ \A i \in DOMAIN answers : answers[i].re = c /\ Answered(c)
      /\ \A i \in DOMAIN writing : writing[i].re = c /\ Sending(c)
      /\ \A i \in DOMAIN written : written[i].re = c /\ SizeSent(c)
  BY <1>2, InQueueIsUnder DEF FInv, IInv, TypeOK, Under, Asked
<1>4. /\ \A i \in DOMAIN answers : answers[i] \in AnswerOf(c)
      /\ \A i \in DOMAIN writing : writing[i] \in WriteOf(c)
      /\ \A i \in DOMAIN written : written[i] \in WriteOf(c)
  BY <1>3 DEF FInv, IInv, TypeOK, AnswerOf, WriteOf
<1>5. /\ \A i, j \in DOMAIN answers : i = j
      /\ \A i, j \in DOMAIN writing : i = j
      /\ \A i, j \in DOMAIN written : i = j
  BY <1>1, <1>4 DEF OnePlace, Single
<1>6. /\ Answered(c) => camera = {} /\ DOMAIN writing = {} /\ DOMAIN written = {}
      /\ Sending(c) => camera = {} /\ DOMAIN answers = {} /\ DOMAIN written = {}
      /\ SizeSent(c) => camera = {} /\ DOMAIN answers = {} /\ DOMAIN writing = {}
  BY <1>1, <1>3 DEF OnePlace, Asked
<1> QED BY <1>2, <1>5, <1>6

(* A step after which only c is under way, and no longer at the camera     *)
(* reader, keeps the framing if c's place fits the end of the stream.      *)
LEMMA OnlyOneUnder ==
  ASSUME NEW c \in RequestId,
         \A r \in RequestId : Under(r)' => r = c,
         camera' = {},
         Answered(c)' => Ready(c)',
         ~Under(c)' => LastEnds',
         AtWrites', AtHandler'
  PROVE  Framing'
BY DEF Framing, OneUnder, NoneUnder, BeforeSize, Asked, Under

(* The only entry of a queue leaves it empty.                              *)
LEMMA OnlyEntry ==
  ASSUME NEW S, NEW q \in Seq(S), q # <<>>, \A i, j \in DOMAIN q : i = j
  PROVE  Tail(q) = <<>> /\ Head(q) = q[1] /\ 1 \in DOMAIN q
<1>1. Len(q) \in Nat /\ Len(q) > 0 /\ DOMAIN q = 1..Len(q)
  OBVIOUS
<1>2. 1 \in DOMAIN q /\ Len(q) \in DOMAIN q
  BY <1>1
<1>3. Len(q) = 1
  BY <1>2
<1>4. Tail(q) \in Seq(S) /\ DOMAIN Tail(q) = 1..(Len(q) - 1)
  OBVIOUS
<1>5. DOMAIN Tail(q) = {}
  BY <1>3, <1>4
<1>6. Tail(q) = <<>>
  BY <1>4, <1>5
<1> QED BY <1>2, <1>6

LEMMA SizeKeepsFraming ==
  ASSUME FInv, DoSendSize
  PROVE  FramedUnlessOverlapped' /\ (~overlapped' /\ socket' = "open" => Framing')
<1>1. /\ UNCHANGED <<camera, written, stream, overlapped, socket>>
      /\ answers # <<>> /\ answers' = Tail(answers)
  BY DEF DoSendSize
<1>2. FramedUnlessOverlapped'
  BY <1>1, SameStream DEF FInv
<1>3. ASSUME ~overlapped', socket' = "open" PROVE Framing'
  <2>1. PICK a : a = Head(answers)
    OBVIOUS
  <2>2. PICK w : w = SizeOf(a.re, ~a.ok)
    OBVIOUS
  <2>3. /\ answers \in Seq(Answers) /\ writing \in Seq(Writes) /\ written \in Seq(Writes)
        /\ ~overlapped /\ socket = "open" /\ Framing /\ IInv
    BY <1>1, <1>3 DEF FInv, IInv, TypeOK
  <2>4. 1 \in DOMAIN answers /\ a = answers[1]
    BY <1>1, <2>1, <2>3
  <2>5. a.re \in RequestId /\ Answered(a.re)
    BY <2>3, <2>4, InQueueIsUnder
  <2>6. PICK c \in RequestId : c = a.re
    BY <2>5
  <2>7. /\ \A r \in RequestId : Under(r) => r = c
        /\ camera = {} /\ DOMAIN writing = {} /\ DOMAIN written = {}
        /\ \A i, j \in DOMAIN answers : i = j
    BY <2>3, <2>5, <2>6, Alone DEF Under
  <2>8. writing = <<>> /\ answers' = <<>>
    BY <1>1, <2>3, <2>7, OnlyEntry
  <2>9. writing' = <<w>> /\ w.re = c /\ w.part = "size"
    BY <2>1, <2>2, <2>3, <2>6, <2>8 DEF DoSendSize, Write, SizeOf
  <2>10. Ready(c)'
    BY <1>1, <2>3, <2>5, <2>6 DEF Framing, BeforeSize, Ready, LastEnds, LastPiece
  <2>11. AtWrites'
    BY <2>9, <2>10 DEF AtWrites
  <2>12. AtHandler'
    BY <1>1, <2>7 DEF AtHandler
  <2>13. \A r \in RequestId : Under(r)' => r = c
    <3>1. DOMAIN answers' = {} /\ DOMAIN written' = {} /\ \A i \in DOMAIN writing' : writing'[i].re = c
      BY <1>1, <2>7, <2>8, <2>9
    <3> QED BY <1>1, <2>7, <3>1
            DEF Under, Asked, Answered, Sending, SizeSent, Some, WriteOf
  <2>14. ~Answered(c)' /\ LastEnds' /\ camera' = {}
    BY <1>1, <2>7, <2>8, <2>10 DEF Answered, Some, Ready
  <2> QED BY <2>11, <2>12, <2>13, <2>14, OnlyOneUnder
<1> QED BY <1>2, <1>3

(* What the end of the stream is after a piece was received.               *)
LEMMA LastReceived ==
  ASSUME NEW p \in Pieces, stream \in Seq(Pieces), stream' = Append(stream, p)
  PROVE  /\ stream' # <<>> /\ LastPiece' = p
         /\ DOMAIN stream' = 1..(Len(stream) + 1) /\ Len(stream) \in Nat
         /\ DOMAIN stream = 1..Len(stream)
         /\ stream'[Len(stream) + 1] = p
         /\ \A i \in 1..Len(stream) : stream'[i] = stream[i]
BY DEF LastPiece

(* A piece that fits the end of the stream keeps it well framed.           *)
LEMMA PieceFits ==
  ASSUME FramedUnlessOverlapped, NEW p \in Pieces, stream \in Seq(Pieces),
         stream' = Append(stream, p), UNCHANGED overlapped,
         ~overlapped => \/ p.part = "size" /\ Ready(p.re)
                        \/ p.part = "data" /\ Announced(p.re)
  PROVE  FramedUnlessOverlapped'
<1>1. /\ DOMAIN stream' = 1..(Len(stream) + 1) /\ Len(stream) \in Nat
      /\ DOMAIN stream = 1..Len(stream)
      /\ stream'[Len(stream) + 1] = p
      /\ \A i \in 1..Len(stream) : stream'[i] = stream[i]
  BY LastReceived
<1>2. SUFFICES ASSUME ~overlapped, NEW i \in DOMAIN stream'
               PROVE  /\ i = 1 => stream'[i].part = "size"
                      /\ i > 1 => IF stream'[i].part = "size"
                                  THEN /\ stream'[i - 1].last
                                       /\ stream'[i - 1].part = "data" \/ stream'[i - 1].empty
                                       /\ stream'[i].re > stream'[i - 1].re
                                  ELSE /\ stream'[i - 1].re = stream'[i].re
                                       /\ ~stream'[i - 1].empty
                                       /\ stream'[i - 1].part = "size" \/ ~stream'[i - 1].last
  BY DEF FramedUnlessOverlapped
<1>3. CASE i \in 1..Len(stream)
  <2>1. stream'[i] = stream[i] /\ (i > 1 => stream'[i - 1] = stream[i - 1])
    BY <1>1, <1>3
  <2> QED BY <1>1, <1>2, <1>3, <2>1 DEF FramedUnlessOverlapped
<1>4. CASE i = Len(stream) + 1
  <2>1. stream'[i] = p
    BY <1>1, <1>4
  <2>2. CASE stream = <<>>
    BY <1>1, <1>2, <1>4, <2>1, <2>2 DEF Announced
  <2>3. CASE stream # <<>>
    <3>1. i > 1 /\ Len(stream) \in DOMAIN stream /\ i - 1 = Len(stream)
      BY <1>1, <1>4, <2>3
    <3>2. stream'[i - 1] = LastPiece
      BY <1>1, <3>1 DEF LastPiece
    <3>3. p.part = "size" => /\ LastPiece.last
                             /\ LastPiece.part = "data" \/ LastPiece.empty
                             /\ LastPiece.re < p.re
      BY <1>2, <2>3, <3>1 DEF Ready, LastEnds, LastPiece
    <3>4. p.part = "data" => /\ LastPiece.re = p.re /\ ~LastPiece.empty
                             /\ LastPiece.part = "size" \/ ~LastPiece.last
      BY <1>2, <2>3, <3>1 DEF Announced
    <3>5. p.part \in {"size", "data"}
      BY DEF Pieces
    <3> QED BY <1>2, <2>1, <3>1, <3>2, <3>3, <3>4, <3>5
  <2> QED BY <2>2, <2>3
<1> QED BY <1>1, <1>3, <1>4

LEMMA DataKeepsFraming ==
  ASSUME FInv, DoSendData
  PROVE  FramedUnlessOverlapped' /\ (~overlapped' /\ socket' = "open" => Framing')
<1>1. /\ UNCHANGED <<camera, answers, stream, overlapped, socket>>
      /\ written # <<>> /\ written' = Tail(written)
  BY DEF DoSendData
<1>2. FramedUnlessOverlapped'
  BY <1>1, SameStream DEF FInv
<1>3. ASSUME ~overlapped', socket' = "open" PROVE Framing'
  <2>1. PICK s : s = Head(written)
    OBVIOUS
  <2>2. PICK w : w = DataOf(s.re)
    OBVIOUS
  <2>3. /\ answers \in Seq(Answers) /\ writing \in Seq(Writes) /\ written \in Seq(Writes)
        /\ ~overlapped /\ socket = "open" /\ Framing /\ IInv
    BY <1>1, <1>3 DEF FInv, IInv, TypeOK
  <2>4. 1 \in DOMAIN written /\ s = written[1] /\ s \in Writes
    BY <1>1, <2>1, <2>3
  <2>5. s.re \in RequestId /\ SizeSent(s.re)
    BY <2>3, <2>4, InQueueIsUnder
  <2>6. PICK c \in RequestId : c = s.re
    BY <2>5
  <2>7. /\ \A r \in RequestId : Under(r) => r = c
        /\ camera = {} /\ DOMAIN answers = {} /\ DOMAIN writing = {}
        /\ \A i, j \in DOMAIN written : i = j
    BY <2>3, <2>5, <2>6, Alone DEF Under
  <2>8. writing = <<>> /\ written' = <<>>
    BY <1>1, <2>3, <2>7, OnlyEntry
  <2>9. writing' = (IF s.empty THEN <<>> ELSE <<w>>) /\ w.re = c /\ w.part = "data"
    BY <2>1, <2>2, <2>3, <2>6, <2>8 DEF DoSendData, Write, DataOf
  <2>10. /\ stream # <<>> /\ LastPiece.re = c /\ LastPiece.part = "size" /\ LastPiece.last
         /\ LastPiece.empty = s.empty
    BY <2>3, <2>4, <2>6 DEF Framing, AtHandler
  <2>11. AtWrites'
    <3>1. ~s.empty => Announced(c)'
      BY <1>1, <2>10 DEF Announced, LastPiece
    <3>2. \A i \in DOMAIN writing' : ~s.empty /\ writing'[i] = w
      BY <2>9
    <3> QED BY <2>9, <3>1, <3>2 DEF AtWrites
  <2>12. AtHandler'
    BY <2>8 DEF AtHandler
  <2>13. /\ \A r \in RequestId : Under(r)' => r = c
         /\ ~s.empty => Under(c)'
    <3>1. /\ DOMAIN answers' = {} /\ DOMAIN written' = {}
          /\ \A i \in DOMAIN writing' : writing'[i].re = c
      BY <1>1, <2>7, <2>8, <2>9
    <3>2. ~s.empty => Sending(c)'
      <4>1. w \in WriteOf(c)
        BY <2>2, <2>6, <2>9 DEF DataOf, Writes, WriteOf
      <4> QED BY <2>9, <4>1 DEF Sending, Some
    <3> QED BY <1>1, <2>7, <3>1, <3>2
            DEF Under, Asked, Answered, Sending, SizeSent, Some, WriteOf
  <2>14. ~Answered(c)' /\ camera' = {} /\ (s.empty => LastEnds')
    BY <1>1, <2>7, <2>10 DEF Answered, Some, LastEnds, LastPiece
  <2>15. s.empty \in BOOLEAN
    BY <2>4 DEF Writes
  <2> QED BY <2>11, <2>12, <2>13, <2>14, <2>15, OnlyOneUnder
<1> QED BY <1>2, <1>3

LEMMA CompletesKeepsFraming ==
  ASSUME FInv, WriteCompletes
  PROVE  FramedUnlessOverlapped' /\ (~overlapped' /\ socket' = "open" => Framing')
<1>1. PICK w : w = Head(writing)
  OBVIOUS
<1>2. PICK p : p = [part |-> w.part, re |-> w.re, empty |-> w.empty, last |-> TRUE]
  OBVIOUS
<1>3. /\ writing # <<>> /\ writing' = Tail(writing) /\ stream' = Append(stream, p)
      /\ written' = IF w.part = "size" THEN Append(written, w) ELSE written
      /\ UNCHANGED <<socket, camera, answers, overlapped>> /\ socket = "open"
  BY <1>1, <1>2 DEF WriteCompletes
<1>4. /\ answers \in Seq(Answers) /\ writing \in Seq(Writes) /\ written \in Seq(Writes)
      /\ stream \in Seq(Pieces) /\ IInv /\ FramedUnlessOverlapped
  BY DEF FInv, IInv, TypeOK
<1>5. 1 \in DOMAIN writing /\ w = writing[1] /\ w \in Writes
  BY <1>1, <1>3, <1>4
<1>6. /\ w.re \in RequestId /\ w.part \in {"size", "data"} /\ w.empty \in BOOLEAN
      /\ Sending(w.re)
  BY <1>4, <1>5, InQueueIsUnder DEF Writes
<1>7. p \in Pieces /\ p.re = w.re /\ p.part = w.part /\ p.empty = w.empty /\ p.last
  BY <1>2, <1>6 DEF Pieces
<1>8. ~overlapped => /\ w.part = "size" => Ready(w.re)
                     /\ w.part = "data" => Announced(w.re)
  BY <1>3, <1>5 DEF FInv, Framing, AtWrites
<1>9. FramedUnlessOverlapped'
  BY <1>3, <1>4, <1>6, <1>7, <1>8, PieceFits
<1>10. ASSUME ~overlapped', socket' = "open" PROVE Framing'
  <2>1. PICK c \in RequestId : c = w.re
    BY <1>6
  <2>2. /\ \A r \in RequestId : Under(r) => r = c
        /\ camera = {} /\ DOMAIN answers = {} /\ DOMAIN written = {}
        /\ \A i, j \in DOMAIN writing : i = j
    BY <1>3, <1>6, <1>10, <2>1, Alone DEF Under
  <2>3. written = <<>> /\ writing' = <<>>
    BY <1>3, <1>4, <2>2, OnlyEntry
  <2>4. written' = IF w.part = "size" THEN <<w>> ELSE <<>>
    BY <1>3, <2>3
  <2>5. stream' # <<>> /\ LastPiece' = p
    BY <1>3, <1>4, <1>7, LastReceived
  <2>6. \A i \in DOMAIN written' : written'[i] = w /\ w.part = "size"
    BY <2>4
  <2>7. AtHandler'
    BY <1>7, <2>5, <2>6 DEF AtHandler
  <2>8. AtWrites'
    BY <2>3 DEF AtWrites
  <2>9. /\ \A r \in RequestId : Under(r)' => r = c
        /\ w.part = "size" => Under(c)'
    <3>1. /\ DOMAIN answers' = {} /\ DOMAIN writing' = {}
          /\ \A i \in DOMAIN written' : written'[i].re = c
      BY <1>3, <2>1, <2>2, <2>3, <2>6
    <3>2. w.part = "size" => SizeSent(c)'
      <4>1. w \in WriteOf(c)
        BY <1>5, <2>1 DEF WriteOf
      <4> QED BY <2>4, <4>1 DEF SizeSent, Some
    <3> QED BY <1>3, <2>2, <3>1, <3>2
            DEF Under, Asked, Answered, Sending, SizeSent, Some, WriteOf
  <2>10. ~Answered(c)' /\ camera' = {} /\ (w.part = "data" => LastEnds')
    BY <1>3, <1>7, <2>2, <2>5 DEF Answered, Some, LastEnds
  <2> QED BY <1>6, <2>7, <2>8, <2>9, <2>10, OnlyOneUnder
<1> QED BY <1>9, <1>10

LEMMA InPartKeepsFraming ==
  ASSUME FInv, WriteInPart
  PROVE  FramedUnlessOverlapped' /\ (~overlapped' /\ socket' = "open" => Framing')
<1>1. PICK w : w = Head(writing)
  OBVIOUS
<1>2. PICK p : p = [part |-> w.part, re |-> w.re, empty |-> w.empty, last |-> FALSE]
  OBVIOUS
<1>3. PICK v : v = [w EXCEPT !.pieces = @ - 1]
  OBVIOUS
<1>4. /\ writing # <<>> /\ writing' = Append(Tail(writing), v) /\ stream' = Append(stream, p)
      /\ w.pieces > 1 /\ socket = "open"
      /\ UNCHANGED <<socket, camera, answers, written, overlapped>>
  BY <1>1, <1>2, <1>3 DEF WriteInPart
<1>5. /\ writing \in Seq(Writes) /\ stream \in Seq(Pieces)
      /\ IInv /\ FramedUnlessOverlapped
  BY DEF FInv, IInv, TypeOK
<1>6. 1 \in DOMAIN writing /\ w = writing[1] /\ w \in Writes
  BY <1>1, <1>4, <1>5
<1>7. w.re \in RequestId /\ w.part \in {"size", "data"} /\ Sending(w.re)
  BY <1>5, <1>6, InQueueIsUnder DEF Writes
<1>8. w.part = "data" /\ ~w.empty
  BY <1>4, <1>5, <1>6, <1>7 DEF IInv, WriteShape
<1>9. /\ p \in Pieces /\ p.re = w.re /\ p.part = "data" /\ ~p.empty /\ ~p.last
      /\ v.re = w.re /\ v.part = "data"
  BY <1>2, <1>3, <1>6, <1>7, <1>8 DEF Pieces, Writes
<1>10. ~overlapped => Announced(w.re)
  BY <1>4, <1>6, <1>8 DEF FInv, Framing, AtWrites
<1>11. FramedUnlessOverlapped'
  BY <1>4, <1>5, <1>9, <1>10, PieceFits
<1>12. ASSUME ~overlapped', socket' = "open" PROVE Framing'
  <2>1. PICK c \in RequestId : c = w.re
    BY <1>7
  <2>2. /\ \A r \in RequestId : Under(r) => r = c
        /\ camera = {} /\ DOMAIN answers = {} /\ DOMAIN written = {}
        /\ \A i, j \in DOMAIN writing : i = j
    BY <1>4, <1>7, <1>12, <2>1, Alone DEF Under
  <2>3. Tail(writing) = <<>>
    BY <1>4, <1>5, <2>2, OnlyEntry
  <2>4. writing' = <<v>>
    <3>1. Append(<<>>, v) = <<v>>
      OBVIOUS
    <3> QED BY <1>4, <2>3, <3>1
  <2>5. stream' # <<>> /\ LastPiece' = p
    BY <1>4, <1>5, <1>9, LastReceived
  <2>6. Announced(c)'
    BY <1>9, <2>1, <2>5 DEF Announced
  <2>7. \A i \in DOMAIN writing' : writing'[i] = v
    BY <2>4
  <2>8. AtWrites'
    BY <1>9, <2>1, <2>6, <2>7 DEF AtWrites
  <2>9. AtHandler'
    BY <1>4, <2>2 DEF AtHandler
  <2>10. \A r \in RequestId : Under(r)' => r = c
    <3>1. /\ DOMAIN answers' = {} /\ DOMAIN written' = {}
          /\ \A i \in DOMAIN writing' : writing'[i].re = c
      BY <1>4, <1>9, <2>1, <2>2, <2>7
    <3> QED BY <1>4, <2>2, <3>1
            DEF Under, Asked, Answered, Sending, SizeSent, Some, WriteOf
  <2>11. Under(c)'
    <3>1. Sending(c)'
      <4>1. v \in Writes
        <5>1. w.pieces \in 1..PiecesPerData /\ w.empty \in BOOLEAN
          BY <1>6 DEF Writes
        <5>2. w.pieces - 1 \in 1..PiecesPerData
          BY <1>4, <5>1
        <5>3. v = [part |-> w.part, re |-> w.re, empty |-> w.empty, pieces |-> w.pieces - 1]
          BY <1>3, <1>6 DEF Writes
        <5> QED BY <1>7, <5>1, <5>2, <5>3 DEF Writes
      <4>2. v \in WriteOf(c)
        BY <1>9, <2>1, <4>1 DEF WriteOf
      <4> QED BY <2>4, <4>2 DEF Sending, Some
    <3> QED BY <3>1 DEF Under
  <2>12. ~Answered(c)' /\ camera' = {}
    BY <1>4, <2>2 DEF Answered, Some
  <2> QED BY <2>8, <2>9, <2>10, <2>11, <2>12, OnlyOneUnder
<1> QED BY <1>11, <1>12

(* To a client that waits for each response before it sends the next       *)
(* request, every size is followed by the data it announces, whole, and in *)
(* the order of its requests, also when the connection breaks off.         *)
THEOREM WellFramed == Spec => []FramedUnlessOverlapped
<1>1. FInv /\ [Next]_vars => FInv'
  <2> SUFFICES ASSUME FInv, [Next]_vars
               PROVE  FramedUnlessOverlapped' /\ (~overlapped' /\ socket' = "open" => Framing')
    BY StepKeepsIInv DEF FInv
  <2>1. CASE ReceiveSizeFails \/ WriteFails
    <3>1. UNCHANGED <<stream, overlapped>> /\ socket' = "closed"
      BY <2>1 DEF ReceiveSizeFails, WriteFails
    <3> QED BY <3>1, SameStream DEF FInv
  <2> QED
    BY <2>1, ReadingKeepsFraming, ReceiveKeepsFraming, CameraKeepsFraming, SizeKeepsFraming,
       DataKeepsFraming, CompletesKeepsFraming, InPartKeepsFraming DEF Next, RunHandler
<1>2. FInv => FramedUnlessOverlapped
  BY DEF FInv
<1> QED BY <1>1, <1>2, InitFInv, PTL DEF Spec
=============================================================================
