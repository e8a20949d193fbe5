----------------------- MODULE SerialControllerProofs -----------------------
(***************************************************************************)
(* Theorems about SerialController, for every number of mails, every set   *)
(* of commands and every length of the package id counter.                 *)
(***************************************************************************)
EXTENDS SerialController, QueueLemmas, TLAPS

USE DEF Mail, Repeater, NoMail, Token

-----------------------------------------------------------------------------
(* What the FIFO of ioc_cmd does to the token of its first handler, and to *)
(* all others.                                                             *)
Has(q, t)  == \E i \in DOMAIN q : q[i].tok = t
Once(q, t) == \A i, j \in DOMAIN q : q[i].tok = t /\ q[j].tok = t => i = j

(* Running the first handler takes its token out and keeps the others.     *)
LEMMA TailTokens ==
  ASSUME NEW S, NEW q \in Seq(S), q # <<>>, NEW t, Once(q, t)
  PROVE  /\ Tail(q) \in Seq(S) /\ Head(q) \in S
         /\ Once(Tail(q), t)
         /\ Has(Tail(q), t) <=> Has(q, t) /\ Head(q).tok # t
<1>1. /\ Len(q) \in Nat /\ Len(q) > 0 /\ DOMAIN q = 1..Len(q)
      /\ Tail(q) \in Seq(S) /\ Head(q) \in S /\ Head(q) = q[1]
      /\ Len(Tail(q)) = Len(q) - 1 /\ DOMAIN Tail(q) = 1..(Len(q) - 1)
      /\ \A i \in 1..(Len(q) - 1) : Tail(q)[i] = q[i + 1]
  OBVIOUS
<1>2. Once(Tail(q), t)
  <2>1. SUFFICES ASSUME NEW i \in DOMAIN Tail(q), NEW j \in DOMAIN Tail(q),
                        Tail(q)[i].tok = t, Tail(q)[j].tok = t
                 PROVE  i = j
    BY DEF Once
  <2>2. i + 1 \in DOMAIN q /\ j + 1 \in DOMAIN q
    BY <1>1
  <2>3. q[i + 1].tok = t /\ q[j + 1].tok = t
    BY <1>1, <2>1
  <2> QED BY <1>1, <2>2, <2>3 DEF Once
<1>3. Has(Tail(q), t) => Has(q, t) /\ Head(q).tok # t
  <2>1. SUFFICES ASSUME NEW i \in DOMAIN Tail(q), Tail(q)[i].tok = t
                 PROVE  Has(q, t) /\ Head(q).tok # t
    BY DEF Has
  <2>2. i + 1 \in DOMAIN q /\ 1 \in DOMAIN q /\ i + 1 # 1 /\ q[i + 1].tok = t
    BY <1>1, <2>1
  <2> QED BY <1>1, <2>2 DEF Once, Has
<1>4. Has(q, t) /\ Head(q).tok # t => Has(Tail(q), t)
  <2>1. SUFFICES ASSUME NEW i \in DOMAIN q, q[i].tok = t, q[1].tok # t
                 PROVE  Has(Tail(q), t)
    BY <1>1 DEF Has
  <2>2. i - 1 \in DOMAIN Tail(q) /\ Tail(q)[i - 1] = q[i]
    BY <1>1, <2>1
  <2> QED BY <2>1, <2>2 DEF Has
<1> QED BY <1>1, <1>2, <1>3, <1>4

(* Posting a handler adds its token, and only that.                        *)
LEMMA AppendTokens ==
  ASSUME NEW S, NEW q \in Seq(S), NEW r \in S, NEW t, Once(q, t),
         r.tok = t => ~Has(q, t)
  PROVE  /\ Append(q, r) \in Seq(S)
         /\ Once(Append(q, r), t)
         /\ Has(Append(q, r), t) <=> Has(q, t) \/ r.tok = t
<1>1. /\ Len(q) \in Nat /\ DOMAIN q = 1..Len(q)
      /\ Append(q, r) \in Seq(S)
      /\ DOMAIN Append(q, r) = 1..(Len(q) + 1)
      /\ \A i \in 1..Len(q) : Append(q, r)[i] = q[i]
      /\ Append(q, r)[Len(q) + 1] = r
  OBVIOUS
<1>2. \A i \in DOMAIN Append(q, r) : i \in DOMAIN q \/ i = Len(q) + 1
  BY <1>1
<1>3. Len(q) + 1 \in DOMAIN Append(q, r)
  BY <1>1
<1>4. \A i \in DOMAIN q : i \in DOMAIN Append(q, r) /\ Append(q, r)[i] = q[i]
  BY <1>1
<1>5. Has(Append(q, r), t) <=> Has(q, t) \/ r.tok = t
  BY <1>1, <1>2, <1>3, <1>4 DEF Has
<1>6. Once(Append(q, r), t)
  BY <1>1, <1>2, <1>4 DEF Once, Has
<1> QED BY <1>1, <1>5, <1>6

-----------------------------------------------------------------------------
(* Type correctness.                                                       *)
Handlers == Requests \cup Replies

LEMMA NextIdType == \A id \in 1..MaxId : NextId(id) \in 1..MaxId
  BY MaxIdAssumption DEF NextId

LEMMA HeadIsHandler ==
  ASSUME TypeOK, NEW dir, NEW toks, Runs(dir, toks)
  PROVE  /\ Head(queue) \in Handlers /\ Tail(queue) \in Seq(Handlers)
         /\ Head(queue).tok \in toks
         /\ dir = "B2A" => Head(queue) \in Replies
<1>1. queue \in Seq(Handlers) /\ queue # <<>>
  BY DEF TypeOK, Runs, Handlers
<1>2. Head(queue) \in Handlers /\ Tail(queue) \in Seq(Handlers)
  BY <1>1
<1>3. dir = "B2A" => Head(queue) \in Replies
  BY <1>2 DEF Runs, Handlers, Requests, Request
<1> QED BY <1>2, <1>3 DEF Runs

LEMMA PostedIsHandler ==
  ASSUME TypeOK, NEW r \in Handlers, queue' = Append(queue, r)
  PROVE  queue' \in Seq(Handlers)
<1>1. queue \in Seq(Handlers)
  BY DEF TypeOK, Handlers
<1> QED BY <1>1

LEMMA SentIsHandler ==
  ASSUME Tail(queue) \in Seq(Handlers), NEW r \in Handlers, SendMail(r)
  PROVE  queue' \in Seq(Handlers)
  BY DEF SendMail

LEMMA ReplyType ==
  \A t, tag \in Token : \A ok, oe \in BOOLEAN :
    Reply(t, ok, oe, tag) \in Handlers /\ Reply(t, ok, oe, tag) \in Replies
  BY DEF Handlers, Replies

LEMMA WriteType ==
  \A t \in Token, m \in Mail : \A id \in 0..MaxId : Write(t, m, id) \in Writes
  BY DEF Writes

LEMMA InitTypeOK == Init => TypeOK
<1> SUFFICES ASSUME Init PROVE TypeOK
  OBVIOUS
<1>1. packageId \in 1..MaxId /\ posted \in 0..MaxMails
  BY MaxMailsAssumption, MaxIdAssumption DEF Init
<1>2. queue \in Seq(Requests \cup Replies)
  BY DEF Init
<1>3. /\ cmd \in [Mail -> Cmds \cup {"none"}]
      /\ answer \in [Mail -> Replies \cup {NoAnswer}]
  BY DEF Init
<1>4. frame \in [mail : Token, id : 0..MaxId, repeated : BOOLEAN, newest : Token]
  BY MaxIdAssumption DEF Init
<1> QED BY <1>1, <1>2, <1>3, <1>4 DEF Init, TypeOK

LEMMA SendData2SerialType ==
  ASSUME TypeOK, Tail(queue) \in Seq(Handlers),
         NEW t \in Token, NEW m \in Mail, NEW id \in 0..MaxId,
         NEW repeating \in BOOLEAN, NEW needRepeat \in BOOLEAN,
         SendData2Serial(t, m, id, repeating, needRepeat),
         UNCHANGED <<timerArmed, mailVars>>
  PROVE  TypeOK'
<1>1. /\ initOk' \in BOOLEAN /\ portOpen' \in BOOLEAN
      /\ reader' \in {"none", "one", "several", "ended"}
  BY DEF SendData2Serial, OpenFails, Refuse, SendFrame, PortReady, InitPort,
         portVars, TypeOK
<1>2. /\ packageId' \in 1..MaxId
      /\ record' \in Mail \cup {NoMail}
      /\ aprilTagCmdData' \in Mail \cup {NoMail}
  <2>1. CASE UNCHANGED <<recordVars, aprilTagCmdData>>
    BY <2>1 DEF recordVars, TypeOK
  <2>2. CASE SendFrame(t, m, id, repeating, needRepeat)
    <3>1. SetNewMail(m) \/ UNCHANGED recordVars
      BY <2>2 DEF SendFrame
    <3>2. aprilTagCmdData' = m \/ UNCHANGED aprilTagCmdData
      BY <2>2 DEF SendFrame
    <3> QED BY <3>1, <3>2, NextIdType DEF SetNewMail, recordVars, TypeOK
  <2> QED BY <2>1, <2>2 DEF SendData2Serial, OpenFails, Refuse
<1>3. queue' \in Seq(Handlers)
  <2>1. \A ok, oe \in BOOLEAN : Reply(t, ok, oe, NoMail) \in Handlers
    BY ReplyType
  <2>2. \A r \in Handlers : Append(Tail(queue), r) \in Seq(Handlers)
    OBVIOUS
  <2>3. \/ queue' = Tail(queue)
        \/ \E ok, oe \in BOOLEAN :
             queue' = Append(Tail(queue), Reply(t, ok, oe, NoMail))
    BY DEF SendData2Serial, OpenFails, Refuse, SendFrame, SendMail, AsyncWrite
  <2> QED BY <2>1, <2>2, <2>3
<1>4. /\ writing' \subseteq Writes
      /\ frame' \in [mail : Token, id : 0..MaxId, repeated : BOOLEAN,
                     newest : Token]
  <2>1. CASE UNCHANGED <<writing, frame>>
    BY <2>1 DEF TypeOK
  <2>2. CASE SendFrame(t, m, id, repeating, needRepeat)
    <3>1. PICK i \in 0..MaxId : AsyncWrite(t, m, i, repeating)
      <4>1. packageId' \in 0..MaxId
        BY <1>2
      <4> QED BY <2>2, <4>1 DEF SendFrame
    <3>2. Write(t, m, i) \in Writes
      BY WriteType
    <3> QED BY <3>1, <3>2 DEF AsyncWrite, TypeOK
  <2> QED BY <2>1, <2>2 DEF SendData2Serial, OpenFails, Refuse
<1> QED BY <1>1, <1>2, <1>3, <1>4 DEF TypeOK, mailVars, Handlers

LEMMA NextTypeOK == TypeOK /\ [Next]_vars => TypeOK'
<1> SUFFICES ASSUME TypeOK, [Next]_vars PROVE TypeOK'
  OBVIOUS
<1> USE DEF Handlers
<1>1. ASSUME NEW c \in Cmds, PostMail(c) PROVE TypeOK'
  <2>1. posted' \in Mail
    BY <1>1, MaxMailsAssumption DEF PostMail, TypeOK
  <2>2. Request(posted') \in Handlers
    BY <2>1 DEF Requests
  <2>3. queue' \in Seq(Handlers)
    BY <1>1, <2>2 DEF PostMail, TypeOK
  <2>4. cmd' \in [Mail -> Cmds \cup {"none"}] /\ posted' \in 0..MaxMails
    BY <1>1, <2>1 DEF PostMail, TypeOK
  <2> QED BY <1>1, <2>3, <2>4 DEF PostMail, TypeOK, portVars, recordVars
<1>2. CASE ReceiveMailGetAirplaneState
  <2>1. Tail(queue) \in Seq(Handlers) /\ Head(queue).tok \in Mail
    BY <1>2, HeadIsHandler DEF ReceiveMailGetAirplaneState
  <2>2. Reply(Head(queue).tok, TRUE, FALSE, aprilTagCmdData) \in Handlers
    BY <2>1, ReplyType DEF TypeOK
  <2>3. queue' \in Seq(Handlers)
    BY <1>2, <2>1, <2>2, SentIsHandler DEF ReceiveMailGetAirplaneState
  <2> QED BY <1>2, <2>3 DEF ReceiveMailGetAirplaneState, TypeOK, portVars,
                            recordVars, mailVars
<1>3. CASE ReceiveMail
  <2>1. Tail(queue) \in Seq(Handlers) /\ Head(queue).tok \in Mail
    BY <1>3, HeadIsHandler DEF ReceiveMail
  <2> DEFINE m == Head(queue).tok
             needRepeat == cmd[m] \in NeedRepeat
  <2>2. 0 \in 0..MaxId /\ m \in Token /\ needRepeat \in BOOLEAN
    BY <2>1, MaxIdAssumption
  <2>3. /\ SendData2Serial(m, m, 0, FALSE, needRepeat)
        /\ UNCHANGED <<timerArmed, mailVars>>
    BY <1>3 DEF ReceiveMail
  <2> HIDE DEF m, needRepeat
  <2> QED BY <2>1, <2>2, <2>3, SendData2SerialType DEF m
<1>4. CASE RepeatNothing
  <2>1. Tail(queue) \in Seq(Handlers)
    BY <1>4, HeadIsHandler DEF RepeatNothing
  <2>2. Reply(Repeater, FALSE, TRUE, NoMail) \in Handlers
    BY ReplyType
  <2>3. queue' \in Seq(Handlers)
    BY <1>4, <2>1, <2>2, SentIsHandler DEF RepeatNothing
  <2> QED BY <1>4, <2>3 DEF RepeatNothing, TypeOK, portVars, recordVars,
                            mailVars
<1>5. CASE ReceiveMailRepeat
  <2>1. Tail(queue) \in Seq(Handlers)
    BY <1>5, HeadIsHandler DEF ReceiveMailRepeat
  <2>2. record \in Mail /\ packageId \in 0..MaxId
    BY <1>5 DEF ReceiveMailRepeat, TypeOK
  <2> QED BY <1>5, <2>1, <2>2, SendData2SerialType DEF ReceiveMailRepeat
<1>6. CASE RunAnswer
  <2>1. /\ Tail(queue) \in Seq(Handlers) /\ Head(queue).tok \in Mail
        /\ Head(queue) \in Replies
    BY <1>6, HeadIsHandler DEF RunAnswer
  <2>2. answer' \in [Mail -> Replies \cup {NoAnswer}]
    BY <1>6, <2>1 DEF RunAnswer, TypeOK
  <2> QED BY <1>6, <2>1, <2>2 DEF RunAnswer, TypeOK, portVars, recordVars
<1>7. CASE RunRepeaterAnswer
  <2>1. Tail(queue) \in Seq(Handlers)
    BY <1>7, HeadIsHandler DEF RunRepeaterAnswer
  <2> QED BY <1>7, <2>1 DEF RunRepeaterAnswer, TypeOK, portVars, recordVars,
                            mailVars
<1>8. ASSUME NEW w \in writing, WriteDone(w) PROVE TypeOK'
  <2>1. w.tok \in Token
    BY DEF TypeOK, Writes, Write
  <2>2. PICK ok \in BOOLEAN :
               queue' = Append(queue, Reply(w.tok, ok, FALSE, NoMail))
    BY <1>8 DEF WriteDone
  <2>3. queue' \in Seq(Handlers)
    BY <2>1, <2>2, ReplyType, PostedIsHandler
  <2> QED BY <1>8, <2>3 DEF WriteDone, TypeOK, portVars, recordVars, mailVars
<1>9. CASE PackageRepeater
  <2>1. Request(Repeater) \in Handlers
    BY DEF Requests
  <2>2. queue' \in Seq(Handlers)
    BY <1>9, <2>1, PostedIsHandler DEF PackageRepeater, TypeOK
  <2> QED BY <1>9, <2>2 DEF PackageRepeater, TypeOK, portVars, recordVars,
                            mailVars
<1>10. CASE ReaderStops \/ UNCHANGED vars
  BY <1>10 DEF ReaderStops, vars, portVars, recordVars, mailVars, TypeOK
<1> QED
  BY <1>1, <1>2, <1>3, <1>4, <1>5, <1>6, <1>7, <1>8, <1>9, <1>10
  DEF Next, Step, RunHandler

(* The state of the controller stays within its types: in particular the   *)
(* package id stays in 1..MaxId and what is answered is a reply.           *)
LEMMA TypeCorrect == Spec => []TypeOK
  BY InitTypeOK, NextTypeOK, PTL DEF Spec

-----------------------------------------------------------------------------
(* One holder for every token.  The invariant says of a token that was     *)
(* posted what NoDoubleHolder and NoLostMail say together, and of a mail   *)
(* that was not posted yet that nobody holds it.                           *)
Flying(t) == \E w \in writing : w.tok = t

Held(t) ==
  /\ Once(queue, t)
  /\ \A v, w \in writing : v.tok = t /\ w.tok = t => v = w
  /\ ~(Has(queue, t) /\ Flying(t))
  /\ AtRest(t) => ~Has(queue, t) /\ ~Flying(t)
  /\ t <= posted => Has(queue, t) \/ Flying(t) \/ AtRest(t)
  /\ ~(t <= posted) => ~Has(queue, t) /\ ~Flying(t) /\ ~AtRest(t)

HolderInv == \A t \in Token : Held(t)

(* A handler took the token of its mail off the queue and ...              *)
LEMMA HeldByHead ==
  ASSUME TypeOK, HolderInv, queue # <<>>, Head(queue).tok \in Token
  PROVE  /\ queue \in Seq(Handlers)
         /\ Tail(queue) \in Seq(Handlers) /\ Head(queue) \in Handlers
         /\ LET h == Head(queue).tok
            IN /\ ~Flying(h) /\ ~AtRest(h) /\ h <= posted
               /\ \A t \in Token :
                    /\ Once(Tail(queue), t)
                    /\ Has(Tail(queue), t) <=> Has(queue, t) /\ h # t
<1>1. queue \in Seq(Handlers)
  BY DEF TypeOK, Handlers
<1>2. \A t \in Token : Once(queue, t)
  BY DEF HolderInv, Held
<1>3. Has(queue, Head(queue).tok)
  BY <1>1 DEF Has
<1>4. Held(Head(queue).tok)
  BY DEF HolderInv
<1> QED BY <1>1, <1>2, <1>3, <1>4, TailTokens DEF Held

(* ... posted it back as an answer ...                                     *)
LEMMA AnswerHolds ==
  ASSUME TypeOK, HolderInv, queue # <<>>, Head(queue).tok \in Token,
         NEW r \in Handlers, r.tok = Head(queue).tok, SendMail(r),
         UNCHANGED <<writing, timerArmed, mailVars>>
  PROVE  HolderInv'
<1> SUFFICES ASSUME NEW t \in Token PROVE Held(t)'
  BY DEF HolderInv
<1> DEFINE q == Tail(queue)
<1>1. /\ q \in Seq(Handlers) /\ Once(q, t)
      /\ Has(q, t) <=> Has(queue, t) /\ r.tok # t
  BY HeldByHead
<1>2. /\ Once(queue', t)
      /\ Has(queue', t) <=> Has(q, t) \/ r.tok = t
  BY <1>1, AppendTokens DEF SendMail
<1>3. /\ Flying(t)' = Flying(t) /\ AtRest(t)' = AtRest(t) /\ posted' = posted
      /\ writing' = writing
  BY DEF Flying, AtRest, mailVars
<1>4. Held(t) /\ (r.tok = t => ~Flying(t) /\ ~AtRest(t) /\ t <= posted)
  BY HeldByHead DEF HolderInv
<1> QED BY <1>1, <1>2, <1>3, <1>4 DEF Held

(* ... or lent it to a write ...                                           *)
LEMMA WriteHolds ==
  ASSUME TypeOK, HolderInv, queue # <<>>, Head(queue).tok \in Token,
         NEW w, w.tok = Head(queue).tok,
         queue' = Tail(queue), writing' = writing \cup {w},
         UNCHANGED <<timerArmed, mailVars>>
  PROVE  HolderInv'
<1> SUFFICES ASSUME NEW t \in Token PROVE Held(t)'
  BY DEF HolderInv
<1>1. /\ Once(queue', t)
      /\ Has(queue', t) <=> Has(queue, t) /\ w.tok # t
  BY HeldByHead
<1>2. Flying(t)' <=> Flying(t) \/ w.tok = t
  BY DEF Flying
<1>3. AtRest(t)' = AtRest(t) /\ posted' = posted
  BY DEF AtRest, mailVars
<1>4. Held(t) /\ (w.tok = t => ~Flying(t) /\ ~AtRest(t) /\ t <= posted)
  BY HeldByHead DEF HolderInv
<1>5. \A u, v \in writing' : u.tok = t /\ v.tok = t => u = v
  BY <1>4 DEF Held, Flying
<1> QED BY <1>1, <1>2, <1>3, <1>4, <1>5 DEF Held

(* ... or it was an answer and its runner is called.                       *)
LEMMA RunnerHolds ==
  ASSUME TypeOK, HolderInv, queue # <<>>, Head(queue).tok \in Token,
         queue' = Tail(queue), UNCHANGED <<writing, posted>>,
         \A t \in Token : AtRest(t)' <=> AtRest(t) \/ t = Head(queue).tok
  PROVE  HolderInv'
<1> SUFFICES ASSUME NEW t \in Token PROVE Held(t)'
  BY DEF HolderInv
<1>1. /\ Once(queue', t)
      /\ Has(queue', t) <=> Has(queue, t) /\ Head(queue).tok # t
  BY HeldByHead
<1>2. Flying(t)' = Flying(t)
  BY DEF Flying
<1>3. Held(t) /\ (Head(queue).tok = t => ~Flying(t) /\ t <= posted)
  BY HeldByHead DEF HolderInv
<1> QED BY <1>1, <1>2, <1>3 DEF Held

(* A token that nobody but `from` held goes to the end of the queue.       *)
LEMMA PostHolds ==
  ASSUME TypeOK, HolderInv, NEW r \in Handlers, queue' = Append(queue, r),
         ~Has(queue, r.tok),
         ~Flying(r.tok)', ~AtRest(r.tok)', r.tok \in Token, r.tok <= posted',
         \A v \in writing' : v \in writing,
         \A t \in Token \ {r.tok} :
           /\ Flying(t)' = Flying(t) /\ AtRest(t)' = AtRest(t)
           /\ t <= posted' <=> t <= posted
  PROVE  HolderInv'
<1> SUFFICES ASSUME NEW t \in Token PROVE Held(t)'
  BY DEF HolderInv
<1>1. queue \in Seq(Handlers) /\ Held(t)
  BY DEF TypeOK, HolderInv, Handlers
<1>2. /\ Once(queue', t)
      /\ Has(queue', t) <=> Has(queue, t) \/ r.tok = t
  BY <1>1, AppendTokens DEF Held
<1>3. CASE t = r.tok
  BY <1>1, <1>2, <1>3 DEF Held
<1>4. CASE t # r.tok
  BY <1>1, <1>2, <1>4 DEF Held
<1> QED BY <1>3, <1>4

LEMMA SendData2SerialHolds ==
  ASSUME TypeOK, HolderInv, queue # <<>>, Head(queue).tok \in Token,
         NEW m, NEW id, NEW repeating, NEW needRepeat,
         SendData2Serial(Head(queue).tok, m, id, repeating, needRepeat),
         UNCHANGED <<timerArmed, mailVars>>
  PROVE  HolderInv'
<1> DEFINE h == Head(queue).tok
<1>1. CASE OpenFails(h)
  <2>1. /\ Reply(h, TRUE, TRUE, NoMail) \in Handlers
        /\ Reply(h, TRUE, TRUE, NoMail).tok = h
    BY ReplyType DEF Reply
  <2> QED BY <1>1, <2>1, AnswerHolds DEF OpenFails
<1>2. CASE Refuse(h, m)
  <2>1. /\ Reply(h, FALSE, FALSE, NoMail) \in Handlers
        /\ Reply(h, FALSE, FALSE, NoMail).tok = h
    BY ReplyType DEF Reply
  <2> QED BY <1>2, <2>1, AnswerHolds DEF Refuse
<1>3. CASE SendFrame(h, m, id, repeating, needRepeat)
  <2>1. PICK i : AsyncWrite(h, m, i, repeating)
    BY <1>3 DEF SendFrame
  <2>2. Write(h, m, i).tok = h
    BY DEF Write
  <2> QED BY <2>1, <2>2, WriteHolds DEF AsyncWrite
<1> QED BY <1>1, <1>2, <1>3 DEF SendData2Serial

LEMMA RunsHead ==
  ASSUME NEW dir, NEW toks, Runs(dir, toks), toks \subseteq Token
  PROVE  queue # <<>> /\ Head(queue).tok \in toks /\ Head(queue).tok \in Token
  BY DEF Runs

LEMMA InitHolderInv == Init => HolderInv
<1> SUFFICES ASSUME Init, NEW t \in Token PROVE Held(t)
  BY DEF HolderInv
<1>1. ~Has(queue, t) /\ Once(queue, t) /\ ~Flying(t)
  BY DEF Init, Has, Once, Flying
<1>2. AtRest(t) <=> t = Repeater
  BY DEF Init, AtRest
<1>3. posted = 0 /\ writing = {} /\ (t <= 0 <=> t = Repeater)
  BY MaxMailsAssumption DEF Init
<1> QED BY <1>1, <1>2, <1>3 DEF Held

LEMMA NextHolderInv == TypeOK /\ HolderInv /\ [Next]_vars => HolderInv'
<1> SUFFICES ASSUME TypeOK, HolderInv, [Next]_vars PROVE HolderInv'
  OBVIOUS
<1>1. ASSUME NEW c \in Cmds, PostMail(c) PROVE HolderInv'
  <2> DEFINE p == posted + 1
  <2>1. p \in Mail /\ p \in Token /\ ~(p <= posted) /\ p # Repeater
    BY <1>1, MaxMailsAssumption DEF PostMail, TypeOK
  <2>2. ~Has(queue, p) /\ ~Flying(p) /\ ~AtRest(p)
    BY <2>1 DEF HolderInv, Held
  <2>3. Request(p) \in Handlers /\ Request(p).tok = p
    BY <2>1 DEF Requests, Request, Handlers
  <2>4. queue' = Append(queue, Request(p)) /\ posted' = p
    BY <1>1 DEF PostMail
  <2>5. \A t \in Token : Flying(t)' = Flying(t) /\ AtRest(t)' = AtRest(t)
    BY <1>1 DEF PostMail, Flying, AtRest
  <2>6. \A t \in Token \ {p} : t <= p <=> t <= posted
    BY <2>1, MaxMailsAssumption DEF TypeOK
  <2>7. \A v \in writing' : v \in writing
    BY <1>1 DEF PostMail
  <2>8. p <= p
    BY <2>1
  <2> HIDE DEF p
  <2> QED BY <2>1, <2>2, <2>3, <2>4, <2>5, <2>6, <2>7, <2>8, PostHolds
<1>2. CASE ReceiveMailGetAirplaneState
  <2>1. queue # <<>> /\ Head(queue).tok \in Token
    BY <1>2, RunsHead DEF ReceiveMailGetAirplaneState
  <2> DEFINE r == Reply(Head(queue).tok, TRUE, FALSE, aprilTagCmdData)
  <2>2. r \in Handlers /\ r.tok = Head(queue).tok
    BY <2>1, ReplyType DEF Reply, TypeOK
  <2> QED BY <1>2, <2>1, <2>2, AnswerHolds DEF ReceiveMailGetAirplaneState
<1>3. CASE ReceiveMail
  BY <1>3, RunsHead, SendData2SerialHolds DEF ReceiveMail
<1>4. CASE RepeatNothing
  <2>1. queue # <<>> /\ Head(queue).tok = Repeater /\ Repeater \in Token
    BY <1>4, RunsHead DEF RepeatNothing
  <2> DEFINE r == Reply(Repeater, FALSE, TRUE, NoMail)
  <2>2. r \in Handlers /\ r.tok = Repeater
    BY ReplyType DEF Reply
  <2> QED BY <1>4, <2>1, <2>2, AnswerHolds DEF RepeatNothing
<1>5. CASE ReceiveMailRepeat
  <2>1. queue # <<>> /\ Head(queue).tok = Repeater /\ Repeater \in Token
    BY <1>5, RunsHead DEF ReceiveMailRepeat
  <2> QED BY <1>5, <2>1, SendData2SerialHolds DEF ReceiveMailRepeat
<1>6. CASE RunAnswer
  <2>1. queue # <<>> /\ Head(queue).tok \in Mail /\ Head(queue).tok \in Token
    BY <1>6, RunsHead DEF RunAnswer
  <2>2. Head(queue) # NoAnswer
    <3>1. Head(queue).dir = "B2A" /\ NoAnswer.dir = "none"
      BY <1>6 DEF RunAnswer, Runs, NoAnswer
    <3> QED BY <3>1
  <2>3. \A t \in Token : AtRest(t)' <=> AtRest(t) \/ t = Head(queue).tok
    BY <1>6, <2>1, <2>2, MaxMailsAssumption DEF RunAnswer, AtRest, TypeOK
  <2> QED BY <1>6, <2>1, <2>3, RunnerHolds DEF RunAnswer
<1>7. CASE RunRepeaterAnswer
  <2>1. queue # <<>> /\ Head(queue).tok = Repeater /\ Repeater \in Token
    BY <1>7, RunsHead DEF RunRepeaterAnswer
  <2>2. \A t \in Token : AtRest(t)' <=> AtRest(t) \/ t = Head(queue).tok
    BY <1>7, <2>1 DEF RunRepeaterAnswer, AtRest, mailVars
  <2> QED BY <1>7, <2>1, <2>2, RunnerHolds DEF RunRepeaterAnswer, mailVars
<1>8. ASSUME NEW w \in writing, WriteDone(w) PROVE HolderInv'
  <2>1. w.tok \in Token
    BY DEF TypeOK, Writes, Write
  <2>2. /\ ~Has(queue, w.tok) /\ ~AtRest(w.tok) /\ w.tok <= posted
        /\ \A v \in writing : v.tok = w.tok => v = w
    BY <2>1 DEF HolderInv, Held, Flying
  <2>3. PICK ok \in BOOLEAN :
               queue' = Append(queue, Reply(w.tok, ok, FALSE, NoMail))
    BY <1>8 DEF WriteDone
  <2>4. /\ Reply(w.tok, ok, FALSE, NoMail) \in Handlers
        /\ Reply(w.tok, ok, FALSE, NoMail).tok = w.tok
    BY <2>1, ReplyType DEF Reply
  <2>5. writing' = writing \ {w} /\ UNCHANGED <<posted, timerArmed, answer>>
    BY <1>8 DEF WriteDone, mailVars
  <2>6. ~Flying(w.tok)'
    BY <2>2, <2>5 DEF Flying
  <2>7. \A t \in Token : AtRest(t)' = AtRest(t)
    BY <2>5 DEF AtRest
  <2>8. \A t \in Token \ {w.tok} : Flying(t)' = Flying(t)
    BY <2>5 DEF Flying
  <2> QED
    BY <2>1, <2>2, <2>3, <2>4, <2>5, <2>6, <2>7, <2>8, PostHolds
<1>9. CASE PackageRepeater
  <2>1. CASE UNCHANGED <<queue, writing, timerArmed, mailVars>>
    BY <2>1 DEF HolderInv, Held, Flying, AtRest, mailVars
  <2>2. CASE timerArmed' = FALSE /\ queue' = Append(queue, Request(Repeater))
    <3>1. Request(Repeater) \in Handlers /\ Request(Repeater).tok = Repeater
      BY DEF Requests, Request, Handlers
    <3>2. timerArmed /\ UNCHANGED <<writing, posted, answer>>
      BY <1>9 DEF PackageRepeater, mailVars
    <3>3. ~Has(queue, Repeater) /\ ~Flying(Repeater) /\ Repeater <= posted
      BY <3>2 DEF HolderInv, Held, AtRest, TypeOK
    <3>4. /\ ~AtRest(Repeater)' /\ ~Flying(Repeater)'
          /\ \A t \in Token \ {Repeater} :
               Flying(t)' = Flying(t) /\ AtRest(t)' = AtRest(t)
      BY <2>2, <3>2, <3>3 DEF AtRest, Flying
    <3> QED BY <2>2, <3>1, <3>2, <3>3, <3>4, PostHolds
  <2> QED BY <1>9, <2>1, <2>2 DEF PackageRepeater
<1>10. CASE ReaderStops \/ UNCHANGED vars
  BY <1>10 DEF ReaderStops, vars, mailVars, HolderInv, Held, Flying, AtRest
<1> QED
  BY <1>1, <1>2, <1>3, <1>4, <1>5, <1>6, <1>7, <1>8, <1>9, <1>10
  DEF Next, Step, RunHandler

LEMMA HolderInvMeans == TypeOK /\ HolderInv => NoDoubleHolder /\ NoLostMail
<1>1. \A t : /\ Queued(t) = {} <=> ~Has(queue, t)
             /\ InFlight(t) = {} <=> ~Flying(t)
  BY DEF Queued, InFlight, Has, Flying
<1>2. TypeOK /\ HolderInv => NoDoubleHolder
  BY <1>1 DEF HolderInv, Held, NoDoubleHolder, Once, Queued, InFlight
<1>3. HolderInv => NoLostMail
  BY <1>1 DEF HolderInv, Held, NoLostMail
<1> QED BY <1>2, <1>3

LEMMA HolderInvariant == Spec => []HolderInv
  BY InitTypeOK, NextTypeOK, InitHolderInv, NextHolderInv, PTL DEF Spec

(* Every variable keeps its type, and a mail is in one place only,         *)
(* whatever the port does and in whatever order handlers and completions   *)
(* run.                                                                    *)
THEOREM OneHolder == Spec => []NoDoubleHolder
  BY TypeCorrect, HolderInvariant, HolderInvMeans, PTL

(* Every mail posted, and the repeater's own, is always somewhere.         *)
THEOREM NothingLost == Spec => []NoLostMail
  BY TypeCorrect, HolderInvariant, HolderInvMeans, PTL

-----------------------------------------------------------------------------
(* The port under a write.  A write starts behind PortReady, and once it   *)
(* has started initPort is out of reach, because a port that is            *)
(* initialised is open and is never initialised again.                     *)
LEMMA SendData2SerialPort ==
  ASSUME WriteNeedsPort, NEW t, NEW m, NEW id, NEW repeating, NEW needRepeat,
         SendData2Serial(t, m, id, repeating, needRepeat),
         initOk => portOpen
  PROVE  WriteNeedsPort' /\ (initOk' => portOpen')
<1>1. initOk => initOk' /\ portOpen' = portOpen
  BY DEF SendData2Serial, OpenFails, Refuse, SendFrame, PortReady, portVars
<1>2. initOk' => portOpen'
  <2>1. CASE initOk
    BY <1>1, <2>1
  <2>2. CASE ~initOk
    <3>1. InitPort
      BY <2>2 DEF SendData2Serial, OpenFails, Refuse, SendFrame, PortReady
    <3> QED BY <3>1 DEF InitPort
  <2> QED BY <2>1, <2>2
<1>3. \/ UNCHANGED writing
      \/ initOk'
  BY DEF SendData2Serial, OpenFails, Refuse, SendFrame, PortReady, portVars
<1> QED BY <1>1, <1>2, <1>3 DEF WriteNeedsPort

PortInv == WriteNeedsPort /\ (initOk => portOpen)

LEMMA NextPortInv == PortInv /\ [Next]_vars => PortInv'
<1> SUFFICES ASSUME PortInv, [Next]_vars PROVE PortInv'
  OBVIOUS
<1>1. CASE ReceiveMail \/ ReceiveMailRepeat
  BY <1>1, SendData2SerialPort DEF ReceiveMail, ReceiveMailRepeat, PortInv
<1>2. ASSUME NEW w \in writing, WriteDone(w) PROVE PortInv'
  BY <1>2 DEF WriteDone, portVars, PortInv, WriteNeedsPort
<1>3. CASE UNCHANGED <<initOk, portOpen, writing>>
  BY <1>3 DEF PortInv, WriteNeedsPort
<1>4. ASSUME NEW c \in Cmds, PostMail(c)
      PROVE  UNCHANGED <<initOk, portOpen, writing>>
  BY <1>4 DEF PostMail, portVars
<1> QED
  BY <1>1, <1>2, <1>3, <1>4
  DEF Next, Step, ReaderStops, RunHandler, ReceiveMailGetAirplaneState,
      RepeatNothing, RunAnswer, RunRepeaterAnswer, PackageRepeater, portVars,
      vars

(* initPort never closes the port under a frame that is being written.     *)
THEOREM PortStaysOpen == Spec => []WriteNeedsPort
<1>1. Init => PortInv
  BY DEF Init, PortInv, WriteNeedsPort
<1>2. PortInv => WriteNeedsPort
  BY DEF PortInv
<1> QED BY <1>1, <1>2, NextPortInv, PTL DEF Spec

-----------------------------------------------------------------------------
(* Ids.  Whether a frame carries an id is decided by the command of the    *)
(* mail that is written; for a repeated frame that is the recorded mail,   *)
(* so the invariant says what may be recorded.  Commands of posted mails   *)
(* never change.                                                           *)
IdInv ==
  /\ record <= posted
  /\ record # NoMail => cmd[record] \in NeedRepeat
  /\ \A w \in writing : w.mail <= posted
  /\ IdMarksRecorded

LEMMA SendData2SerialIds ==
  ASSUME TypeOK, IdInv, NEW t \in Token, NEW m \in Mail, m <= posted,
         NEW id \in 0..MaxId, NEW repeating, NEW needRepeat \in BOOLEAN,
         needRepeat => cmd[m] \in NeedRepeat,
         ~needRepeat => (id # 0 <=> cmd[m] \in NeedRepeat),
         SendData2Serial(t, m, id, repeating, needRepeat), UNCHANGED mailVars
  PROVE  IdInv'
<1>1. CASE UNCHANGED <<recordVars, writing>>
  BY <1>1 DEF recordVars, mailVars, IdInv, IdMarksRecorded
<1>2. CASE SendFrame(t, m, id, repeating, needRepeat)
  <2>1. posted' = posted /\ cmd' = cmd
    BY DEF mailVars
  <2>2. record' = record \/ (record' = m /\ cmd[m] \in NeedRepeat)
    BY <1>2 DEF SendFrame, SetNewMail, recordVars
  <2>3. PICK i : /\ writing' = writing \cup {Write(t, m, i)}
                 /\ i # 0 <=> cmd[m] \in NeedRepeat
    <3>1. needRepeat => packageId' # 0
      BY <1>2, NextIdType DEF SendFrame, SetNewMail, TypeOK
    <3> QED BY <1>2, <3>1 DEF SendFrame, AsyncWrite
  <2>4. Write(t, m, i).mail = m /\ Write(t, m, i).id = i
    BY DEF Write
  <2> QED BY <2>1, <2>2, <2>3, <2>4 DEF IdInv, IdMarksRecorded
<1> QED BY <1>1, <1>2 DEF SendData2Serial, OpenFails, Refuse

LEMMA NextIdInv == TypeOK /\ HolderInv /\ IdInv /\ [Next]_vars => IdInv'
<1> SUFFICES ASSUME TypeOK, HolderInv, IdInv, [Next]_vars PROVE IdInv'
  OBVIOUS
<1>1. ASSUME NEW c \in Cmds, PostMail(c) PROVE IdInv'
  <2>1. /\ posted' = posted + 1 /\ UNCHANGED <<record, writing>>
        /\ \A m \in Mail : m <= posted => cmd'[m] = cmd[m]
    BY <1>1 DEF PostMail, TypeOK, recordVars
  <2>2. \A w \in writing : w.mail \in Mail
    BY DEF TypeOK, Writes, Write
  <2>3. record <= posted' /\ \A w \in writing : w.mail <= posted'
    BY <2>1, <2>2, MaxMailsAssumption DEF IdInv, TypeOK
  <2> QED BY <2>1, <2>2, <2>3 DEF IdInv, IdMarksRecorded, TypeOK
<1>2. CASE ReceiveMail
  <2> DEFINE m == Head(queue).tok
             needRepeat == cmd[m] \in NeedRepeat
  <2>1. queue # <<>> /\ m \in Mail /\ m \in Token
    BY <1>2, RunsHead DEF ReceiveMail
  <2>2. m <= posted
    BY <2>1, HeldByHead
  <2>3. SendData2Serial(m, m, 0, FALSE, needRepeat) /\ UNCHANGED mailVars
    BY <1>2 DEF ReceiveMail
  <2>4. needRepeat \in BOOLEAN /\ 0 \in 0..MaxId
    BY MaxIdAssumption
  <2>5. /\ needRepeat => cmd[m] \in NeedRepeat
        /\ ~needRepeat => (0 # 0 <=> cmd[m] \in NeedRepeat)
    OBVIOUS
  <2> HIDE DEF m, needRepeat
  <2> QED BY <2>1, <2>2, <2>3, <2>4, <2>5, SendData2SerialIds
<1>3. CASE ReceiveMailRepeat
  <2>1. record \in Mail /\ packageId \in 0..MaxId /\ packageId # 0
    BY <1>3 DEF ReceiveMailRepeat, TypeOK
  <2>2. /\ SendData2Serial(Repeater, record, packageId, TRUE, FALSE)
        /\ UNCHANGED mailVars
    BY <1>3 DEF ReceiveMailRepeat
  <2>3. record <= posted /\ cmd[record] \in NeedRepeat
    BY <2>1 DEF IdInv
  <2> QED BY <2>1, <2>2, <2>3, SendData2SerialIds
<1>4. ASSUME NEW w \in writing, WriteDone(w) PROVE IdInv'
  BY <1>4 DEF WriteDone, mailVars, recordVars, IdInv, IdMarksRecorded
<1>5. CASE UNCHANGED <<recordVars, writing, posted, cmd>>
  BY <1>5 DEF recordVars, IdInv, IdMarksRecorded
<1> QED
  BY <1>1, <1>2, <1>3, <1>4, <1>5
  DEF Next, Step, ReaderStops, RunHandler, ReceiveMailGetAirplaneState,
      RepeatNothing, RunAnswer, RunRepeaterAnswer, PackageRepeater, vars,
      mailVars

(* Recordable commands, repeated or not, travel under an id of the         *)
(* counter, and everything else under id 0.                                *)
THEOREM IdsMarkRecorded == Spec => []IdMarksRecorded
<1>1. Init => IdInv
  BY DEF Init, IdInv, IdMarksRecorded
<1>2. IdInv => IdMarksRecorded
  BY DEF IdInv
<1> QED
  BY <1>1, <1>2, InitTypeOK, NextTypeOK, InitHolderInv, NextHolderInv,
     NextIdInv, PTL DEF Spec

-----------------------------------------------------------------------------
(* The implementation of SerialLink.  What keeps originals in order is the *)
(* FIFO: mails that wait in it are newer than every frame written so far,  *)
(* and an older mail waits before a newer one.                             *)
Waiting(i) == i \in DOMAIN queue /\ queue[i].dir = "A2B" /\ queue[i].tok # Repeater

OrderInv ==
  /\ frame.newest <= posted
  /\ \A i \in DOMAIN queue : Waiting(i) =>
       /\ frame.newest < queue[i].tok /\ queue[i].tok <= posted
       /\ \A j \in DOMAIN queue :
            Waiting(j) /\ i < j => queue[i].tok < queue[j].tok

LEMMA AppendShape ==
  ASSUME NEW S, NEW q \in Seq(S), NEW r \in S
  PROVE  /\ DOMAIN Append(q, r) = 1..(Len(q) + 1)
         /\ Append(q, r)[Len(q) + 1] = r
         /\ \A i \in 1..Len(q) : Append(q, r)[i] = q[i]
  OBVIOUS

(* Taking the first handler off, and perhaps posting an answer, leaves the *)
(* waiting mails in order, all of them behind the first one.               *)
LEMMA OrderAfterHead ==
  ASSUME TypeOK, OrderInv, queue # <<>>, UNCHANGED posted,
         NEW n \in Token, n <= posted,
         \A i \in DOMAIN queue : Waiting(i) /\ i # 1 => n < queue[i].tok,
         frame'.newest = n,
         \/ queue' = Tail(queue)
         \/ \E r \in Replies : queue' = Append(Tail(queue), r)
  PROVE  OrderInv'
<1>1. /\ queue \in Seq(Handlers) /\ Len(queue) \in Nat /\ Len(queue) > 0
      /\ DOMAIN queue = 1..Len(queue)
  BY DEF TypeOK, Handlers
<1> DEFINE L == Len(queue) - 1
<1>2. /\ Tail(queue) \in Seq(Handlers) /\ Len(Tail(queue)) = L
      /\ \A i \in 1..L : Tail(queue)[i] = queue[i + 1]
  BY <1>1
<1>3. \A i \in 1..L : i \in DOMAIN queue' /\ queue'[i] = queue[i + 1]
  <2>1. CASE queue' = Tail(queue)
    BY <1>2, <2>1
  <2>2. ASSUME NEW r \in Replies, queue' = Append(Tail(queue), r)
        PROVE  \A i \in 1..L : i \in DOMAIN queue' /\ queue'[i] = queue[i + 1]
    <3> DEFINE q == Append(Tail(queue), r)
    <3>1. r \in Handlers /\ 1..L \subseteq 1..(L + 1)
      BY <1>1 DEF Handlers
    <3>2. \A i \in 1..L : i \in DOMAIN q /\ q[i] = queue[i + 1]
      BY <1>2, <3>1, AppendShape
    <3> QED BY <2>2, <3>2
  <2> QED BY <2>1, <2>2
<1>4. \A i \in DOMAIN queue' : Waiting(i)' => i \in 1..L
  <2>1. CASE queue' = Tail(queue)
    BY <1>1, <1>2, <2>1
  <2>2. ASSUME NEW r \in Replies, queue' = Append(Tail(queue), r)
        PROVE  \A i \in DOMAIN queue' : Waiting(i)' => i \in 1..L
    <3> DEFINE q == Append(Tail(queue), r)
    <3>1. r \in Handlers /\ L \in Nat
      BY <1>1 DEF Handlers
    <3>2. DOMAIN q = 1..(L + 1) /\ q[L + 1] = r
      BY <1>2, <3>1, AppendShape
    <3>3. r.dir # "A2B"
      BY DEF Replies, Reply
    <3>4. \A i \in 1..(L + 1) : i = L + 1 \/ i \in 1..L
      BY <3>1
    <3> QED BY <2>2, <3>2, <3>3, <3>4 DEF Waiting
  <2> QED BY <2>1, <2>2
<1>5. \A i \in DOMAIN queue' : Waiting(i)' =>
        /\ i + 1 \in DOMAIN queue /\ Waiting(i + 1) /\ i + 1 # 1
        /\ queue'[i] = queue[i + 1] /\ i \in Int
  BY <1>1, <1>3, <1>4 DEF Waiting
<1>6. ASSUME NEW i \in DOMAIN queue', Waiting(i)'
      PROVE  /\ n < queue'[i].tok /\ queue'[i].tok <= posted
             /\ \A j \in DOMAIN queue' :
                  Waiting(j)' /\ i < j => queue'[i].tok < queue'[j].tok
  <2>1. n < queue'[i].tok /\ queue'[i].tok <= posted
    BY <1>5, <1>6 DEF OrderInv
  <2>2. ASSUME NEW j \in DOMAIN queue', Waiting(j)', i < j
        PROVE  queue'[i].tok < queue'[j].tok
    <3>1. i + 1 < j + 1
      BY <1>5, <1>6, <2>2
    <3> QED BY <1>5, <1>6, <2>2, <3>1 DEF OrderInv
  <2> QED BY <2>1, <2>2
<1> QED BY <1>6 DEF OrderInv

(* Posting at the end of the queue: a service's mail is the newest, and    *)
(* everything else that is posted does not wait as a mail.                 *)
LEMMA OrderAfterPost ==
  ASSUME TypeOK, OrderInv, NEW r \in Handlers, queue' = Append(queue, r),
         UNCHANGED frame, posted' \in Nat, posted <= posted',
         r.dir = "A2B" /\ r.tok # Repeater => posted < r.tok /\ r.tok <= posted'
  PROVE  OrderInv'
<1>1. /\ queue \in Seq(Handlers) /\ Len(queue) \in Nat
      /\ DOMAIN queue = 1..Len(queue)
      /\ posted \in Int /\ frame.newest \in Int
      /\ \A h \in Handlers : h.tok \in Int
  BY MaxMailsAssumption
  DEF TypeOK, Handlers, Requests, Replies, Request, Reply
<1> DEFINE N == Len(queue) + 1
<1>2. /\ DOMAIN queue' = 1..N /\ queue'[N] = r
      /\ \A i \in DOMAIN queue : queue'[i] = queue[i]
  BY <1>1
<1>3. \A i \in DOMAIN queue' : i \in DOMAIN queue \/ i = N
  BY <1>1, <1>2
<1>4. \A i \in DOMAIN queue : queue[i].tok \in Int
  BY <1>1
<1>5. ASSUME NEW i \in DOMAIN queue', Waiting(i)'
      PROVE  /\ frame.newest < queue'[i].tok /\ queue'[i].tok <= posted'
             /\ \A j \in DOMAIN queue' :
                  Waiting(j)' /\ i < j => queue'[i].tok < queue'[j].tok
  <2>1. CASE i = N
    <3>1. \A j \in DOMAIN queue' : ~(i < j)
      BY <1>1, <1>2, <2>1
    <3>2. queue'[i] = r /\ r.dir = "A2B" /\ r.tok # Repeater /\ r.tok \in Int
      BY <1>1, <1>2, <1>5, <2>1 DEF Waiting
    <3>3. frame.newest < r.tok
      BY <1>1, <3>2 DEF OrderInv
    <3> QED BY <3>1, <3>2, <3>3
  <2>2. CASE i \in DOMAIN queue
    <3>1. Waiting(i) /\ queue'[i] = queue[i]
      BY <1>2, <1>5, <2>2 DEF Waiting
    <3>2. /\ frame.newest < queue[i].tok /\ queue[i].tok <= posted
          /\ \A j \in DOMAIN queue :
               Waiting(j) /\ i < j => queue[i].tok < queue[j].tok
      BY <2>2, <3>1 DEF OrderInv
    <3>3. queue[i].tok <= posted'
      BY <1>1, <1>4, <2>2, <3>2
    <3>4. ASSUME NEW j \in DOMAIN queue', Waiting(j)', i < j
          PROVE  queue[i].tok < queue'[j].tok
      <4>1. CASE j \in DOMAIN queue
        BY <1>2, <3>2, <3>4, <4>1 DEF Waiting
      <4>2. CASE j = N
        <5>1. queue'[j] = r /\ posted < r.tok /\ r.tok \in Int
          BY <1>1, <1>2, <3>4, <4>2 DEF Waiting
        <5> QED BY <1>1, <1>4, <2>2, <3>2, <5>1
      <4> QED BY <1>3, <4>1, <4>2
    <3> QED BY <3>1, <3>2, <3>3, <3>4
  <2> QED BY <1>3, <2>1, <2>2
<1>6. frame.newest <= posted'
  BY <1>1 DEF OrderInv
<1> QED BY <1>5, <1>6 DEF OrderInv

LEMMA NewestIsMail ==
  ASSUME TypeOK, OrderInv
  PROVE  /\ frame.newest \in Token /\ frame.newest <= posted
         /\ \A i \in DOMAIN queue : Waiting(i) => frame.newest < queue[i].tok
  BY DEF TypeOK, OrderInv

(* A handler that leaves the newest original as it is.                     *)
LEMMA OrderSameFrame ==
  ASSUME TypeOK, OrderInv, queue # <<>>, UNCHANGED posted,
         frame'.newest = frame.newest,
         \/ queue' = Tail(queue)
         \/ \E r \in Replies : queue' = Append(Tail(queue), r)
  PROVE  OrderInv'
  BY NewestIsMail, OrderAfterHead

LEMMA FrameNewest ==
  ASSUME NEW t, NEW m, NEW id, NEW repeating \in BOOLEAN,
         AsyncWrite(t, m, id, repeating)
  PROVE  /\ queue' = Tail(queue)
         /\ frame' = [mail |-> m, id |-> id, repeated |-> repeating,
                      newest |-> frame'.newest]
         /\ repeating => frame'.newest = frame.newest
         /\ ~repeating => frame'.newest = m
  BY DEF AsyncWrite

(* The first mail of the queue is older than the others that wait.         *)
LEMMA FirstIsOldest ==
  ASSUME TypeOK, OrderInv, Runs("A2B", Mail)
  PROVE  /\ frame.newest < Head(queue).tok /\ Head(queue).tok <= posted
         /\ \A i \in DOMAIN queue :
              Waiting(i) /\ i # 1 => Head(queue).tok < queue[i].tok
<1>1. /\ queue \in Seq(Handlers) /\ Len(queue) \in Nat /\ Len(queue) > 0
      /\ DOMAIN queue = 1..Len(queue) /\ Head(queue) = queue[1]
      /\ 1 \in DOMAIN queue
  BY DEF TypeOK, Handlers, Runs
<1>2. Waiting(1)
  BY <1>1, MaxMailsAssumption DEF Waiting, Runs
<1>3. \A i \in DOMAIN queue : i # 1 => 1 < i
  BY <1>1
<1> QED BY <1>1, <1>2, <1>3 DEF OrderInv

LEMMA SendData2SerialOrder ==
  ASSUME TypeOK, OrderInv, queue # <<>>, NEW t \in Token, NEW m \in Mail,
         NEW id, NEW repeating \in BOOLEAN, NEW needRepeat,
         ~repeating => /\ m <= posted
                       /\ \A i \in DOMAIN queue :
                            Waiting(i) /\ i # 1 => m < queue[i].tok,
         SendData2Serial(t, m, id, repeating, needRepeat), UNCHANGED mailVars
  PROVE  OrderInv'
<1>1. UNCHANGED posted
  BY DEF mailVars
<1>2. CASE OpenFails(t) \/ Refuse(t, m)
  <2>1. PICK ok, oe \in BOOLEAN :
               queue' = Append(Tail(queue), Reply(t, ok, oe, NoMail))
    BY <1>2 DEF OpenFails, Refuse, SendMail
  <2>2. Reply(t, ok, oe, NoMail) \in Replies
    BY ReplyType
  <2>3. UNCHANGED frame
    BY <1>2 DEF OpenFails, Refuse
  <2> QED BY <1>1, <2>1, <2>2, <2>3, OrderSameFrame
<1>3. CASE SendFrame(t, m, id, repeating, needRepeat)
  <2>1. PICK i : AsyncWrite(t, m, i, repeating)
    BY <1>3 DEF SendFrame
  <2>2. CASE repeating
    BY <1>1, <2>1, <2>2, FrameNewest, OrderSameFrame
  <2>3. CASE ~repeating
    BY <1>1, <2>1, <2>3, FrameNewest, OrderAfterHead
  <2> QED BY <2>2, <2>3
<1> QED BY <1>2, <1>3 DEF SendData2Serial

LEMMA NextOrderInv == TypeOK /\ OrderInv /\ [Next]_vars => OrderInv'
<1> SUFFICES ASSUME TypeOK, OrderInv, [Next]_vars PROVE OrderInv'
  OBVIOUS
<1>0. posted \in Nat
  BY MaxMailsAssumption DEF TypeOK
<1>1. ASSUME NEW c \in Cmds, PostMail(c) PROVE OrderInv'
  <2> DEFINE r == Request(posted + 1)
  <2>1. posted + 1 \in Mail /\ posted' = posted + 1
    BY <1>0, <1>1, MaxMailsAssumption DEF PostMail
  <2>2. r \in Handlers /\ r.tok = posted + 1
    BY <2>1 DEF Requests, Request, Handlers
  <2>3. queue' = Append(queue, r) /\ UNCHANGED frame
    BY <1>1 DEF PostMail
  <2>4. posted' \in Nat /\ posted <= posted' /\ posted < r.tok /\ r.tok <= posted'
    BY <1>0, <2>1, <2>2
  <2> HIDE DEF r
  <2> QED BY <2>2, <2>3, <2>4, OrderAfterPost
<1>2. CASE ReceiveMailGetAirplaneState
  <2> DEFINE r == Reply(Head(queue).tok, TRUE, FALSE, aprilTagCmdData)
  <2>1. queue # <<>> /\ Head(queue).tok \in Token
    BY <1>2, RunsHead DEF ReceiveMailGetAirplaneState
  <2>2. r \in Replies
    BY <2>1, ReplyType DEF TypeOK
  <2> QED BY <1>2, <2>1, <2>2, OrderSameFrame
          DEF ReceiveMailGetAirplaneState, SendMail, mailVars
<1>3. CASE ReceiveMail
  <2>1. /\ queue # <<>> /\ Head(queue).tok \in Mail
        /\ Runs("A2B", Mail)
    BY <1>3, RunsHead DEF ReceiveMail
  <2> QED BY <1>3, <2>1, FirstIsOldest, SendData2SerialOrder DEF ReceiveMail
<1>4. CASE RepeatNothing
  <2>1. queue # <<>> /\ Reply(Repeater, FALSE, TRUE, NoMail) \in Replies
    BY <1>4, ReplyType DEF RepeatNothing, Runs
  <2> QED BY <1>4, <2>1, OrderSameFrame DEF RepeatNothing, SendMail, mailVars
<1>5. CASE ReceiveMailRepeat
  <2>1. queue # <<>> /\ record \in Mail /\ Repeater \in Token
    BY <1>5 DEF ReceiveMailRepeat, Runs, TypeOK
  <2> QED BY <1>5, <2>1, SendData2SerialOrder DEF ReceiveMailRepeat
<1>6. CASE RunAnswer \/ RunRepeaterAnswer
  BY <1>6, OrderSameFrame DEF RunAnswer, RunRepeaterAnswer, Runs, mailVars
<1>7. ASSUME NEW w \in writing, WriteDone(w) PROVE OrderInv'
  <2>1. PICK ok \in BOOLEAN :
               queue' = Append(queue, Reply(w.tok, ok, FALSE, NoMail))
    BY <1>7 DEF WriteDone
  <2>2. w.tok \in Token
    BY DEF TypeOK, Writes, Write
  <2>3. /\ Reply(w.tok, ok, FALSE, NoMail) \in Handlers
        /\ Reply(w.tok, ok, FALSE, NoMail).dir # "A2B"
    BY <2>2, ReplyType DEF Reply
  <2>4. UNCHANGED <<frame, posted>>
    BY <1>7 DEF WriteDone, mailVars
  <2>5. posted' \in Nat /\ posted <= posted'
    BY <1>0, <2>4
  <2> QED BY <2>1, <2>3, <2>4, <2>5, OrderAfterPost
<1>8. CASE PackageRepeater
  <2>1. UNCHANGED <<frame, posted>>
    BY <1>8 DEF PackageRepeater, mailVars
  <2>2. CASE queue' = Append(queue, Request(Repeater))
    <3>1. Request(Repeater) \in Handlers /\ Request(Repeater).tok = Repeater
      BY DEF Requests, Request, Handlers
    <3> QED BY <1>0, <2>1, <2>2, <3>1, OrderAfterPost
  <2>3. CASE UNCHANGED queue
    BY <2>1, <2>3 DEF OrderInv, Waiting
  <2> QED BY <1>8, <2>2, <2>3 DEF PackageRepeater
<1>9. CASE ReaderStops \/ UNCHANGED vars
  BY <1>9 DEF ReaderStops, vars, mailVars, OrderInv, Waiting
<1> QED
  BY <1>1, <1>2, <1>3, <1>4, <1>5, <1>6, <1>7, <1>8, <1>9
  DEF Next, Step, RunHandler

LEMMA IdWraps == \A id \in 1..MaxId : NextId(id) = (id % MaxId) + 1
<1> SUFFICES ASSUME NEW id \in 1..MaxId PROVE NextId(id) = (id % MaxId) + 1
  OBVIOUS
<1>1. CASE id = MaxId
  BY <1>1, MaxIdAssumption DEF NextId
<1>2. CASE id # MaxId
  BY <1>2, MaxIdAssumption DEF NextId
<1> QED BY <1>1, <1>2

(* A frame is a step of the link, everything else leaves the link alone.   *)
LEMMA SendData2SerialLink ==
  ASSUME TypeOK, OrderInv, NEW t \in Token, NEW m \in Mail,
         NEW id \in 0..MaxId, NEW repeating \in BOOLEAN, NEW needRepeat \in BOOLEAN,
         ~repeating => id = 0 /\ frame.newest < m,
         repeating => ~needRepeat /\ id = packageId /\ m = record,
         SendData2Serial(t, m, id, repeating, needRepeat)
  PROVE  [Link!LinkNext]_(Link!linkVars)
<1>1. CASE OpenFails(t) \/ Refuse(t, m)
  BY <1>1 DEF OpenFails, Refuse, recordVars, Link!linkVars
<1>2. CASE SendFrame(t, m, id, repeating, needRepeat)
  <2> DEFINE i == IF needRepeat THEN packageId' ELSE id
  <2>1. AsyncWrite(t, m, i, repeating)
    BY <1>2 DEF SendFrame
  <2>2. CASE repeating
    <3>1. frame' = [mail |-> record, id |-> packageId, repeated |-> TRUE,
                    newest |-> frame.newest]
      BY <2>1, <2>2 DEF AsyncWrite
    <3>2. UNCHANGED recordVars /\ record # 0
      BY <1>2, <2>2 DEF SendFrame
    <3>3. Link!Repeat
      BY <3>1, <3>2 DEF Link!Repeat, recordVars
    <3> QED BY <3>3 DEF Link!LinkNext
  <2>3. CASE ~repeating
    <3>1. frame' = [mail |-> m, id |-> i, repeated |-> FALSE, newest |-> m]
      BY <2>1, <2>3 DEF AsyncWrite
    <3>2. m > frame.newest
      BY <2>3 DEF TypeOK
    <3>3. CASE needRepeat
      <4>1. record' = m /\ packageId' = (packageId % MaxId) + 1
        BY <1>2, <3>3, IdWraps DEF SendFrame, SetNewMail, TypeOK
      <4>2. Link!Command(m)
        BY <3>1, <3>2, <3>3, <4>1 DEF Link!Command, Link!Original
      <4> QED BY <4>2 DEF Link!LinkNext
    <3>4. CASE ~needRepeat
      <4>1. UNCHANGED recordVars
        BY <1>2, <3>4 DEF SendFrame
      <4>2. Link!Unrecorded(m)
        BY <2>3, <3>1, <3>2, <3>4, <4>1
        DEF Link!Unrecorded, Link!Original, recordVars
      <4> QED BY <4>2 DEF Link!LinkNext
    <3> QED BY <3>3, <3>4
  <2> QED BY <2>2, <2>3
<1> QED BY <1>1, <1>2 DEF SendData2Serial

LEMMA NextLink ==
  TypeOK /\ OrderInv /\ [Next]_vars => [Link!LinkNext]_(Link!linkVars)
<1> SUFFICES ASSUME TypeOK, OrderInv, [Next]_vars
             PROVE  [Link!LinkNext]_(Link!linkVars)
  OBVIOUS
<1>1. CASE ReceiveMail
  <2> DEFINE m == Head(queue).tok
             needRepeat == cmd[m] \in NeedRepeat
  <2>1. Runs("A2B", Mail) /\ m \in Mail /\ m \in Token
    BY <1>1, RunsHead DEF ReceiveMail
  <2>2. frame.newest < m
    BY <2>1, FirstIsOldest
  <2>3. SendData2Serial(m, m, 0, FALSE, needRepeat)
    BY <1>1 DEF ReceiveMail
  <2>4. needRepeat \in BOOLEAN /\ 0 \in 0..MaxId
    BY MaxIdAssumption
  <2> HIDE DEF m, needRepeat
  <2> QED BY <2>1, <2>2, <2>3, <2>4, SendData2SerialLink
<1>2. CASE ReceiveMailRepeat
  <2>1. record \in Mail /\ packageId \in 0..MaxId /\ Repeater \in Token
    BY <1>2 DEF ReceiveMailRepeat, TypeOK
  <2> QED BY <1>2, <2>1, SendData2SerialLink DEF ReceiveMailRepeat
<1>3. CASE UNCHANGED <<recordVars, frame>>
  BY <1>3 DEF recordVars, Link!linkVars
<1>4. ASSUME NEW c \in Cmds, PostMail(c) PROVE UNCHANGED <<recordVars, frame>>
  BY <1>4 DEF PostMail
<1>5. ASSUME NEW w \in writing, WriteDone(w)
      PROVE  UNCHANGED <<recordVars, frame>>
  BY <1>5 DEF WriteDone
<1> QED
  BY <1>1, <1>2, <1>3, <1>4, <1>5
  DEF Next, Step, ReaderStops, RunHandler, ReceiveMailGetAirplaneState,
      RepeatNothing, RunAnswer, RunRepeaterAnswer, PackageRepeater, vars

LEMMA InitOrderInv == Init => OrderInv
  BY MaxMailsAssumption DEF Init, OrderInv

LEMMA InitLink == Init => Link!LinkInit
  BY DEF Init, Link!LinkInit

(* The controller implements SerialLink: originals reach the line in the   *)
(* order in which they were posted, each recordable one under the next id, *)
(* and every repetition is the latest of them under its own id.            *)
THEOREM ImplementsLink == Spec => LinkSpec
  BY InitTypeOK, NextTypeOK, InitOrderInv, NextOrderInv, InitLink, NextLink, PTL
  DEF Spec, LinkSpec, Link!LinkSpec

-----------------------------------------------------------------------------
(* What was handled, and what was accepted.  A mail is past its handler    *)
(* when its frame is being written or it has an answer; it is ready when   *)
(* besides the port was open: the answer says so.                          *)
Answers(m, any) == {r \in Replies : r.tok = m /\ (any \/ ~r.openError)}

Past(m, any) ==
  \/ Flying(m)
  \/ Some(queue, Answers(m, any))
  \/ AtRest(m) /\ (any \/ ~answer[m].openError)

Ready(m) == Past(m, FALSE)
Done(m)  == Past(m, TRUE)

LEMMA AcceptedMeans ==
  ASSUME TypeOK, NEW m \in Mail
  PROVE  Accepted(m) <=> m <= posted /\ Sendable(cmd[m]) /\ Ready(m)
<1>1. InFlight(m) # {} <=> Flying(m)
  BY DEF InFlight, Flying
<1>2. \A i \in DOMAIN queue :
        queue[i].dir = "B2A" <=> queue[i] \in Replies
  <2>1. \A i \in DOMAIN queue : queue[i] \in Requests \cup Replies
    BY DEF TypeOK
  <2>2. /\ \A r \in Requests : r.dir = "A2B"
        /\ \A r \in Replies : r.dir = "B2A"
    BY DEF Requests, Request, Replies, Reply
  <2> QED BY <2>1, <2>2
<1>3. (\E i \in Queued(m) : queue[i].dir = "B2A" /\ ~queue[i].openError)
        <=> Some(queue, Answers(m, FALSE))
  BY <1>2 DEF Queued, Some, Answers
<1> QED BY <1>1, <1>3 DEF Accepted, Ready, Past

LEMMA OnceIsSingle ==
  ASSUME HolderInv, NEW m \in Mail, NEW any \in BOOLEAN
  PROVE  Single(queue, Answers(m, any)) /\ Once(queue, m)
<1>1. Once(queue, m)
  BY DEF HolderInv, Held
<1> QED BY <1>1 DEF Once, Single, Answers

(* A handler of another mail.                                              *)
LEMMA OtherHandler ==
  ASSUME TypeOK, HolderInv, NEW m \in Mail, NEW any \in BOOLEAN,
         queue # <<>>, Head(queue).tok # m,
         \/ queue' = Tail(queue)
         \/ \E r \in Handlers : r.tok # m /\ queue' = Append(Tail(queue), r),
         Flying(m)' <=> Flying(m), answer'[m] = answer[m]
  PROVE  Past(m, any)' <=> Past(m, any)
<1>1. queue \in Seq(Handlers) /\ Single(queue, Answers(m, any))
  BY OnceIsSingle DEF TypeOK, Handlers
<1>2. /\ Tail(queue) \in Seq(Handlers)
      /\ Some(Tail(queue), Answers(m, any))
           <=> /\ Some(queue, Answers(m, any))
               /\ Head(queue) \notin Answers(m, any)
  BY <1>1, TailEntries
<1>3. Head(queue) \notin Answers(m, any)
  BY DEF Answers
<1>4. Some(queue', Answers(m, any)) <=> Some(Tail(queue), Answers(m, any))
  <2>1. ASSUME NEW r \in Handlers, r.tok # m, queue' = Append(Tail(queue), r)
        PROVE  Some(queue', Answers(m, any))
                 <=> Some(Tail(queue), Answers(m, any))
    <3>1. r \notin Answers(m, any)
      BY <2>1 DEF Answers
    <3> QED BY <1>2, <2>1, <3>1, AppendSome
  <2> QED BY <2>1
<1>5. Answers(m, any)' = Answers(m, any)
  BY DEF Answers
<1>6. AtRest(m)' <=> AtRest(m)
  BY MaxMailsAssumption DEF AtRest
<1> QED BY <1>2, <1>3, <1>4, <1>5, <1>6 DEF Past

(* Something else than an answer of the mail is posted.                   *)
LEMMA OtherPost ==
  ASSUME TypeOK, NEW m \in Mail, NEW any \in BOOLEAN,
         NEW r \in Handlers, r \notin Answers(m, any),
         queue' = Append(queue, r),
         Flying(m)' <=> Flying(m), answer'[m] = answer[m]
  PROVE  Past(m, any)' <=> Past(m, any)
<1>1. queue \in Seq(Handlers)
  BY DEF TypeOK, Handlers
<1>2. Some(queue', Answers(m, any)) <=> Some(queue, Answers(m, any))
  BY <1>1, AppendSome
<1>3. Answers(m, any)' = Answers(m, any)
  BY DEF Answers
<1>4. AtRest(m)' <=> AtRest(m)
  BY MaxMailsAssumption DEF AtRest
<1> QED BY <1>2, <1>3, <1>4 DEF Past

LEMMA RequestIsNoAnswer ==
  \A t \in Token, m \in Mail, any \in BOOLEAN :
    Request(t) \in Handlers /\ Request(t) \notin Answers(m, any)
<1>1. \A t \in Token : Request(t) \in Handlers /\ Request(t).dir = "A2B"
  BY DEF Handlers, Requests, Request
<1>2. \A r \in Replies : r.dir = "B2A"
  BY DEF Replies, Reply
<1> QED BY <1>1, <1>2 DEF Answers

LEMMA SendData2SerialPast ==
  ASSUME TypeOK, HolderInv, NEW m \in Mail, NEW any \in BOOLEAN,
         queue # <<>>, Head(queue).tok \in Token \ {m},
         NEW b, NEW id, NEW repeating, NEW needRepeat,
         SendData2Serial(Head(queue).tok, b, id, repeating, needRepeat),
         UNCHANGED mailVars
  PROVE  Past(m, any)' <=> Past(m, any)
<1> DEFINE h == Head(queue).tok
<1>1. answer' = answer
  BY DEF mailVars
<1>2. CASE OpenFails(h) \/ Refuse(h, b)
  <2>1. PICK ok, oe \in BOOLEAN :
               queue' = Append(Tail(queue), Reply(h, ok, oe, NoMail))
    BY <1>2 DEF OpenFails, Refuse, SendMail
  <2>2. /\ Reply(h, ok, oe, NoMail) \in Handlers
        /\ Reply(h, ok, oe, NoMail).tok = h
    BY ReplyType DEF Reply
  <2>3. Flying(m)' <=> Flying(m)
    BY <1>2 DEF OpenFails, Refuse, Flying
  <2> QED BY <1>1, <2>1, <2>2, <2>3, OtherHandler
<1>3. CASE SendFrame(h, b, id, repeating, needRepeat)
  <2>1. PICK i : AsyncWrite(h, b, i, repeating)
    BY <1>3 DEF SendFrame
  <2>2. Write(h, b, i).tok = h
    BY DEF Write
  <2>3. Flying(m)' <=> Flying(m)
    BY <2>1, <2>2 DEF AsyncWrite, Flying
  <2> QED BY <1>1, <2>1, <2>3, OtherHandler DEF AsyncWrite
<1> QED BY <1>2, <1>3 DEF SendData2Serial

Handles(m) ==
  (ReceiveMail \/ ReceiveMailGetAirplaneState) /\ Head(queue).tok = m

(* Only the handler of a mail takes the mail past it.           *)
LEMMA NextPast ==
  ASSUME TypeOK, HolderInv, [Next]_vars, NEW m \in Mail, NEW any \in BOOLEAN, ~Handles(m)
  PROVE  Past(m, any)' <=> Past(m, any)
<1>0. m # Repeater /\ m \in Token
  BY MaxMailsAssumption
<1>1. ASSUME NEW c \in Cmds, PostMail(c) PROVE Past(m, any)' <=> Past(m, any)
  <2>1. posted + 1 \in Token
    BY <1>1, MaxMailsAssumption DEF PostMail, TypeOK
  <2>2. /\ queue' = Append(queue, Request(posted + 1))
        /\ UNCHANGED <<writing, answer>>
    BY <1>1 DEF PostMail
  <2>3. Flying(m)' <=> Flying(m)
    BY <2>2 DEF Flying
  <2> QED BY <2>1, <2>2, <2>3, RequestIsNoAnswer, OtherPost
<1>2. CASE ReceiveMailGetAirplaneState
  <2>1. queue # <<>> /\ Head(queue).tok \in Token \ {m}
    BY <1>2, RunsHead DEF ReceiveMailGetAirplaneState, Handles
  <2> DEFINE r == Reply(Head(queue).tok, TRUE, FALSE, aprilTagCmdData)
  <2>2. r \in Handlers /\ r.tok = Head(queue).tok
    BY <2>1, ReplyType DEF Reply, TypeOK
  <2>3. queue' = Append(Tail(queue), r) /\ UNCHANGED <<writing, answer>>
    BY <1>2 DEF ReceiveMailGetAirplaneState, SendMail, mailVars
  <2>4. Flying(m)' <=> Flying(m)
    BY <2>3 DEF Flying
  <2> QED BY <2>1, <2>2, <2>3, <2>4, OtherHandler
<1>3. CASE ReceiveMail
  <2>1. queue # <<>> /\ Head(queue).tok \in Token \ {m}
    BY <1>3, RunsHead DEF ReceiveMail, Handles
  <2> QED BY <1>3, <2>1, SendData2SerialPast DEF ReceiveMail
<1>4. CASE RepeatNothing
  <2>1. queue # <<>> /\ Head(queue).tok = Repeater
    BY <1>4, RunsHead DEF RepeatNothing
  <2>2. /\ Reply(Repeater, FALSE, TRUE, NoMail) \in Handlers
        /\ Reply(Repeater, FALSE, TRUE, NoMail).tok = Repeater
    BY ReplyType DEF Reply
  <2>3. /\ queue' = Append(Tail(queue), Reply(Repeater, FALSE, TRUE, NoMail))
        /\ UNCHANGED <<writing, answer>>
    BY <1>4 DEF RepeatNothing, SendMail, mailVars
  <2>4. Flying(m)' <=> Flying(m)
    BY <2>3 DEF Flying
  <2> QED BY <1>0, <2>1, <2>2, <2>3, <2>4, OtherHandler
<1>5. CASE ReceiveMailRepeat
  <2>1. queue # <<>> /\ Head(queue).tok = Repeater /\ Repeater \in Token
    BY <1>5, RunsHead DEF ReceiveMailRepeat
  <2>2. Head(queue).tok \in Token \ {m}
    BY <1>0, <2>1
  <2>3. /\ SendData2Serial(Head(queue).tok, record, packageId, TRUE, FALSE)
        /\ UNCHANGED mailVars
    BY <1>5, <2>1 DEF ReceiveMailRepeat
  <2> QED BY <2>1, <2>2, <2>3, SendData2SerialPast
<1>6. CASE RunAnswer
  <2> DEFINE h == Head(queue).tok
  <2>1. /\ queue # <<>> /\ h \in Mail /\ h \in Token /\ Head(queue) \in Replies
        /\ queue \in Seq(Handlers)
    BY <1>6, RunsHead, HeadIsHandler DEF RunAnswer, TypeOK, Handlers
  <2>2. /\ queue' = Tail(queue) /\ answer' = [answer EXCEPT ![h] = Head(queue)]
        /\ UNCHANGED writing
    BY <1>6 DEF RunAnswer
  <2>3. Flying(m)' <=> Flying(m)
    BY <2>2 DEF Flying
  <2>4. CASE h # m
    <3>1. answer'[m] = answer[m]
      BY <2>2, <2>4 DEF TypeOK
    <3> QED BY <2>1, <2>2, <2>3, <2>4, <3>1, OtherHandler
  <2>5. CASE h = m
    <3>1. ~Flying(m) /\ ~AtRest(m) /\ ~Has(Tail(queue), m)
      BY <2>1, <2>5, HeldByHead
    <3>2. /\ Some(Tail(queue), Answers(m, any))
               <=> /\ Some(queue, Answers(m, any))
                   /\ Head(queue) \notin Answers(m, any)
          /\ Head(queue) \in Answers(m, any) => Some(queue, Answers(m, any))
      BY <2>1, OnceIsSingle, TailEntries
    <3>3. ~Some(Tail(queue), Answers(m, any))
      BY <3>1 DEF Some, Has, Answers
    <3>4. answer'[m] = Head(queue)
      BY <2>2, <2>5 DEF TypeOK
    <3>5. Head(queue).dir = "B2A" /\ NoAnswer.dir = "none"
      BY <1>6 DEF RunAnswer, Runs, NoAnswer
    <3>6. AtRest(m)'
      BY <1>0, <3>4, <3>5 DEF AtRest
    <3>7. Head(queue) \in Answers(m, any) <=> (any \/ ~answer'[m].openError)
      BY <2>1, <2>5, <3>4 DEF Answers
    <3>8. Answers(m, any)' = Answers(m, any)
      BY DEF Answers
    <3> QED BY <2>2, <2>3, <3>1, <3>2, <3>3, <3>6, <3>7, <3>8 DEF Past
  <2> QED BY <2>4, <2>5
<1>7. CASE RunRepeaterAnswer
  <2>1. queue # <<>> /\ Head(queue).tok = Repeater
    BY <1>7, RunsHead DEF RunRepeaterAnswer
  <2>2. queue' = Tail(queue) /\ UNCHANGED <<writing, answer>>
    BY <1>7 DEF RunRepeaterAnswer, mailVars
  <2>3. Flying(m)' <=> Flying(m)
    BY <2>2 DEF Flying
  <2> QED BY <1>0, <2>1, <2>2, <2>3, OtherHandler
<1>8. ASSUME NEW w \in writing, WriteDone(w)
      PROVE  Past(m, any)' <=> Past(m, any)
  <2>1. PICK ok \in BOOLEAN :
               queue' = Append(queue, Reply(w.tok, ok, FALSE, NoMail))
    BY <1>8 DEF WriteDone
  <2> DEFINE r == Reply(w.tok, ok, FALSE, NoMail)
  <2>2. w.tok \in Token
    BY DEF TypeOK, Writes, Write
  <2>3. /\ r \in Handlers /\ r \in Replies /\ r.tok = w.tok /\ ~r.openError
    BY <2>2, ReplyType DEF Reply
  <2>4. writing' = writing \ {w} /\ answer' = answer /\ queue \in Seq(Handlers)
    BY <1>8 DEF WriteDone, mailVars, TypeOK, Handlers
  <2>5. CASE w.tok # m
    <3>1. Flying(m)' <=> Flying(m)
      BY <2>4, <2>5 DEF Flying
    <3>2. r \notin Answers(m, any)
      BY <2>3, <2>5 DEF Answers
    <3> QED BY <2>1, <2>3, <2>4, <3>1, <3>2, OtherPost
  <2>6. CASE w.tok = m
    <3>1. Flying(m)
      BY <2>6 DEF Flying
    <3>2. r \in Answers(m, any)
      BY <2>3, <2>6 DEF Answers
    <3> HIDE DEF r
    <3>3. Some(Append(queue, r), Answers(m, any))
      BY <2>3, <2>4, <3>2, AppendSome
    <3>4. Answers(m, any)' = Answers(m, any)
      BY DEF Answers
    <3>5. queue' = Append(queue, r)
      BY <2>1 DEF r
    <3> QED BY <3>1, <3>3, <3>4, <3>5 DEF Past
  <2> QED BY <2>5, <2>6
<1>9. CASE PackageRepeater
  <2>1. UNCHANGED <<writing, answer>>
    BY <1>9 DEF PackageRepeater, mailVars
  <2>2. Flying(m)' <=> Flying(m)
    BY <2>1 DEF Flying
  <2>3. CASE queue' = Append(queue, Request(Repeater))
    BY <2>1, <2>2, <2>3, RequestIsNoAnswer, OtherPost
  <2>4. CASE UNCHANGED queue
    BY <1>0, <2>1, <2>2, <2>4 DEF Past, Some, Answers, AtRest
  <2> QED BY <1>9, <2>3, <2>4 DEF PackageRepeater
<1>10. CASE ReaderStops \/ UNCHANGED vars
  BY <1>0, <1>10 DEF ReaderStops, vars, mailVars, Past, Some, Answers, AtRest,
                     Flying
<1> QED
  BY <1>1, <1>2, <1>3, <1>4, <1>5, <1>6, <1>7, <1>8, <1>9, <1>10
  DEF Next, Step, RunHandler

(* What is past its handler was posted, and its command stays.             *)
LEMMA NextPosted ==
  ASSUME TypeOK, HolderInv, [Next]_vars, NEW m \in Mail, NEW any \in BOOLEAN
  PROVE  /\ Past(m, any) => m <= posted
         /\ m <= posted => m <= posted' /\ cmd'[m] = cmd[m]
         /\ Handles(m) => m <= posted
<1>0. posted \in Nat /\ m \in Int /\ m # Repeater /\ m \in Token
  BY MaxMailsAssumption DEF TypeOK
<1>1. ASSUME NEW c \in Cmds, PostMail(c)
      PROVE  m <= posted => m <= posted' /\ cmd'[m] = cmd[m]
  BY <1>0, <1>1 DEF PostMail, TypeOK
<1>2. \/ UNCHANGED <<posted, cmd>>
      \/ \E c \in Cmds : PostMail(c)
  BY DEF Next, Step, ReaderStops, RunHandler, ReceiveMailGetAirplaneState,
         ReceiveMail, RepeatNothing, ReceiveMailRepeat, RunAnswer,
         RunRepeaterAnswer, WriteDone, PackageRepeater, vars, mailVars
<1>3. ~(m <= posted) => ~Flying(m) /\ ~AtRest(m) /\ ~Has(queue, m)
  BY <1>0 DEF HolderInv, Held
<1>4. ~Has(queue, m) => ~Some(queue, Answers(m, any))
  BY DEF Has, Some, Answers
<1>5. Handles(m) => m <= posted
  <2>1. SUFFICES ASSUME Handles(m) PROVE m <= posted
    OBVIOUS
  <2>2. queue # <<>> /\ Head(queue).tok = m
    BY <2>1 DEF Handles, ReceiveMail, ReceiveMailGetAirplaneState, Runs
  <2> QED BY <1>0, <2>2, HeldByHead
<1> QED BY <1>1, <1>2, <1>3, <1>4, <1>5 DEF Past

LEMMA BeforeHandler ==
  ASSUME TypeOK, HolderInv, NEW m \in Mail, Handles(m), NEW any \in BOOLEAN
  PROVE  /\ Runs("A2B", Mail) /\ queue # <<>> /\ m \in Token /\ m <= posted
         /\ ~Past(m, any)
<1>1. Runs("A2B", Mail) /\ Head(queue).tok = m
  BY DEF Handles, ReceiveMail, ReceiveMailGetAirplaneState
<1>2. queue # <<>> /\ m \in Token
  BY <1>1 DEF Runs
<1>3. ~Flying(m) /\ ~AtRest(m) /\ m <= posted /\ ~Has(Tail(queue), m)
  BY <1>1, <1>2, HeldByHead
<1> DEFINE A == Answers(m, any)
<1>4. Some(Tail(queue), A) <=> Some(queue, A) /\ Head(queue) \notin A
  <2>1. Single(queue, A) /\ queue \in Seq(Handlers)
    BY <1>1, <1>2, OnceIsSingle, HeldByHead
  <2> HIDE DEF A
  <2> QED BY <1>2, <2>1, TailEntries
<1>5. ~Some(Tail(queue), A)
  BY <1>3 DEF Some, Has, Answers
<1>6. Head(queue) \notin A
  <2>1. Head(queue).dir = "A2B"
    BY <1>1 DEF Runs
  <2>2. \A r \in Replies : r.dir = "B2A"
    BY DEF Replies, Reply
  <2> QED BY <2>1, <2>2 DEF Answers
<1> QED BY <1>1, <1>2, <1>3, <1>4, <1>5, <1>6 DEF Past

(* The port could not be opened.                                           *)
LEMMA NotReady ==
  ASSUME TypeOK, HolderInv, NEW m \in Mail, Handles(m),
         NEW ok \in BOOLEAN, SendMail(Reply(m, ok, TRUE, NoMail)),
         UNCHANGED <<writing, mailVars>>
  PROVE  ~Ready(m)'
<1> DEFINE r == Reply(m, ok, TRUE, NoMail)
           A == Answers(m, FALSE)
<1>1. m \in Token /\ queue # <<>> /\ Head(queue).tok = m
  BY BeforeHandler DEF Handles
<1>2. /\ ~Flying(m) /\ ~AtRest(m)
      /\ ~Has(Tail(queue), m) /\ Tail(queue) \in Seq(Handlers)
  BY <1>1, HeldByHead
<1>3. r \in Handlers /\ r \notin A
  BY <1>1, ReplyType DEF Reply, Answers
<1>4. ~Some(Tail(queue), A)
  BY <1>2 DEF Some, Has, Answers
<1>5. queue' = Append(Tail(queue), r)
  BY DEF SendMail
<1>6. A' = A /\ Flying(m)' = Flying(m) /\ (AtRest(m)' <=> AtRest(m))
  BY DEF Answers, Flying, AtRest, mailVars
<1>7. ~Some(Append(Tail(queue), r), A)
  <2> HIDE DEF r, A
  <2> QED BY <1>2, <1>3, <1>4, AppendSome
<1> QED BY <1>2, <1>5, <1>6, <1>7 DEF Ready, Past

-----------------------------------------------------------------------------
(* The newest accepted command of a class: what the record holds of the    *)
(* recordable ones, and aprilTagCmdData of the tags.                       *)
Fits(m, K) == m <= posted /\ cmd[m] \in K /\ Sendable(cmd[m])

NewestOf(x, K) ==
  /\ x <= frame.newest
  /\ x # NoMail => Fits(x, K) /\ Ready(x)
  /\ \A m \in Mail : Fits(m, K) /\ Ready(m) => m <= x

(* The first handler sends the frame of a mail of the class.               *)
Sends(K) ==
  ReceiveMail /\ frame'.newest # frame.newest /\ cmd[Head(queue).tok] \in K

(* Steps that make no mail of the class ready.                             *)
LEMMA NewestStays ==
  ASSUME TypeOK, HolderInv, [Next]_vars, NEW K, NEW x \in Token, NewestOf(x, K),
         x <= frame'.newest,
         \A m \in Mail : Handles(m) /\ Fits(m, K) => ~Ready(m)'
  PROVE  NewestOf(x, K)'
<1>1. \A m \in Mail :
        /\ m <= posted => m <= posted' /\ cmd'[m] = cmd[m]
        /\ Ready(m) => m <= posted
        /\ Handles(m) => m <= posted
  BY NextPosted DEF Ready
<1>2. \A m \in Mail : ~Handles(m) => (Ready(m)' <=> Ready(m))
  BY NextPast DEF Ready
<1>3. \A m \in Mail : Handles(m) => ~Ready(m)
  BY BeforeHandler DEF Ready
<1>4. \A m \in Mail : m <= posted => (Fits(m, K)' <=> Fits(m, K))
  BY <1>1 DEF Fits
<1>5. x # NoMail => Fits(x, K)' /\ Ready(x)'
  <2>1. SUFFICES ASSUME x # NoMail PROVE Fits(x, K)' /\ Ready(x)'
    OBVIOUS
  <2>2. x \in Mail /\ Fits(x, K) /\ Ready(x) /\ x <= posted
    BY <2>1 DEF NewestOf, Fits
  <2> QED BY <1>2, <1>3, <1>4, <2>2
<1>6. ASSUME NEW m \in Mail, Fits(m, K)', Ready(m)' PROVE m <= x
  <2>1. m <= posted
    BY <1>1, <1>2, <1>6
  <2>2. Fits(m, K)
    BY <1>4, <1>6, <2>1
  <2>3. Ready(m)
    BY <1>2, <1>6, <2>2
  <2> QED BY <2>2, <2>3 DEF NewestOf
<1> QED BY <1>5, <1>6 DEF NewestOf

(* The frame of a mail of the class, newer than all that came before.      *)
LEMMA NewestSent ==
  ASSUME TypeOK, HolderInv, [Next]_vars, NEW K, NEW x \in Token, NewestOf(x, K),
         NEW h \in Mail, Handles(h), Fits(h, K), frame.newest < h,
         UNCHANGED <<posted, cmd>>, frame'.newest = h, Ready(h)'
  PROVE  NewestOf(h, K)'
<1>1. /\ h \in Int /\ x \in Int /\ frame.newest \in Int /\ x <= frame.newest
      /\ \A m \in Mail : m \in Int
  BY MaxMailsAssumption DEF TypeOK, NewestOf
<1>2. \A m \in Mail : Fits(m, K)' <=> Fits(m, K)
  BY DEF Fits
<1>3. ASSUME NEW m \in Mail, Fits(m, K)', Ready(m)' PROVE m <= h
  <2>1. CASE m = h
    BY <1>1, <2>1
  <2>2. CASE m # h
    <3>1. ~Handles(m)
      BY <2>2 DEF Handles
    <3>2. Fits(m, K) /\ Ready(m)
      BY <1>2, <1>3, <3>1, NextPast DEF Ready
    <3>3. m <= x
      BY <3>2 DEF NewestOf
    <3> QED BY <1>1, <3>3
  <2> QED BY <2>1, <2>2
<1>4. h <= frame'.newest
  BY <1>1
<1> QED BY <1>2, <1>3, <1>4 DEF NewestOf

LEMMA NextNewest ==
  ASSUME TypeOK, HolderInv, OrderInv, [Next]_vars,
         NEW K, "getAirplaneState" \notin K, NEW x \in Token, NewestOf(x, K),
         NEW y, y = IF Sends(K) THEN Head(queue).tok ELSE x
  PROVE  NewestOf(y, K)'
<1>0. /\ x \in Int /\ frame.newest \in Int /\ x <= frame.newest
      /\ \A m \in Mail : m \in Int
  BY MaxMailsAssumption DEF TypeOK, NewestOf
<1>1. CASE ReceiveMail
  <2>0. Runs("A2B", Mail) /\ queue # <<>> /\ Head(queue).tok \in Mail
    BY <1>1, RunsHead DEF ReceiveMail
  <2>1. PICK h \in Mail : h = Head(queue).tok
    BY <2>0
  <2>2. Handles(h) /\ \A m \in Mail : Handles(m) => m = h
    BY <1>1, <2>1 DEF Handles
  <2>3. frame.newest < h /\ h <= posted
    BY <2>0, <2>1, FirstIsOldest
  <2> DEFINE needRepeat == cmd[h] \in NeedRepeat
  <2>4. SendData2Serial(h, h, 0, FALSE, needRepeat) /\ UNCHANGED mailVars
    BY <1>1, <2>1 DEF ReceiveMail
  <2> HIDE DEF needRepeat
  <2>5. CASE OpenFails(h)
    <3>1. ~Ready(h)'
      BY <2>1, <2>2, <2>4, <2>5, NotReady DEF OpenFails
    <3>2. frame' = frame
      BY <2>5 DEF OpenFails
    <3> QED BY <1>0, <2>2, <3>1, <3>2, NewestStays DEF Sends
  <2>6. CASE Refuse(h, h)
    <3>1. ~Fits(h, K)
      BY <2>6 DEF Refuse, Fits
    <3>2. frame' = frame
      BY <2>6 DEF Refuse
    <3> QED BY <1>0, <2>2, <3>1, <3>2, NewestStays DEF Sends
  <2>7. CASE SendFrame(h, h, 0, FALSE, needRepeat)
    <3>1. PICK i : AsyncWrite(h, h, i, FALSE)
      BY <2>7 DEF SendFrame
    <3>2. frame'.newest = h
      BY <3>1, FrameNewest
    <3>3. frame'.newest # frame.newest
      BY <1>0, <2>3, <3>2
    <3>4. CASE cmd[h] \notin K
      <4>1. ~Fits(h, K) /\ y = x
        BY <2>1, <3>4 DEF Fits, Sends
      <4>2. x <= frame'.newest
        BY <1>0, <2>1, <2>3, <3>2
      <4> QED BY <2>2, <4>1, <4>2, NewestStays
    <3>5. CASE cmd[h] \in K
      <4>1. y = h
        BY <1>1, <2>1, <3>3, <3>5 DEF Sends
      <4>2. Fits(h, K)
        BY <2>3, <2>7, <3>5 DEF SendFrame, Fits
      <4>3. UNCHANGED <<posted, cmd>>
        BY <2>4 DEF mailVars
      <4>4. Ready(h)'
        <5>1. Write(h, h, i) \in writing' /\ Write(h, h, i).tok = h
          BY <3>1 DEF AsyncWrite, Write
        <5> QED BY <5>1 DEF Ready, Past, Flying
      <4> QED BY <2>2, <2>3, <3>2, <4>1, <4>2, <4>3, <4>4, NewestSent
    <3> QED BY <3>4, <3>5
  <2> QED BY <2>4, <2>5, <2>6, <2>7 DEF SendData2Serial
<1>2. CASE ~ReceiveMail
  <2>1. y = x
    BY <1>2 DEF Sends
  <2>2. frame'.newest = frame.newest
    <3>1. \/ UNCHANGED frame
          \/ \E i : AsyncWrite(Repeater, record, i, TRUE)
      BY <1>2 DEF Next, Step, ReaderStops, RunHandler, PostMail,
                  ReceiveMailGetAirplaneState, RepeatNothing,
                  ReceiveMailRepeat, SendData2Serial, OpenFails, Refuse,
                  SendFrame, RunAnswer, RunRepeaterAnswer, WriteDone,
                  PackageRepeater, vars
    <3> QED BY <3>1, FrameNewest
  <2>3. \A m \in Mail : Handles(m) => ~Fits(m, K)
    BY <1>2 DEF Handles, ReceiveMailGetAirplaneState, Fits
  <2> QED BY <1>0, <2>1, <2>2, <2>3, NewestStays
<1> QED BY <1>1, <1>2

LEMMA InitNewest == ASSUME Init, NEW K PROVE NewestOf(NoMail, K)
<1>1. frame.newest = NoMail /\ posted = 0
  BY DEF Init
<1>2. \A m \in Mail : ~(m <= 0)
  BY MaxMailsAssumption
<1> QED BY <1>1, <1>2 DEF NewestOf, Fits

(* The original that is sent is recorded, or its tag stored, by the class  *)
(* of its command; nothing else is.                                        *)
LEMMA NextRecords ==
  ASSUME TypeOK, OrderInv, [Next]_vars
  PROVE  /\ record' = IF Sends(NeedRepeat) THEN Head(queue).tok ELSE record
         /\ aprilTagCmdData' = IF Sends({"AprilTag"}) THEN Head(queue).tok
                                                      ELSE aprilTagCmdData
<1>1. CASE ReceiveMail
  <2>0. Runs("A2B", Mail) /\ queue # <<>> /\ Head(queue).tok \in Mail
    BY <1>1, RunsHead DEF ReceiveMail
  <2>1. PICK h \in Mail : h = Head(queue).tok
    BY <2>0
  <2>2. frame.newest < h /\ frame.newest \in Int /\ h \in Int
    BY <2>0, <2>1, FirstIsOldest, MaxMailsAssumption DEF TypeOK
  <2>3. SendData2Serial(h, h, 0, FALSE, cmd[h] \in NeedRepeat)
    BY <1>1, <2>1 DEF ReceiveMail
  <2>4. CASE OpenFails(h) \/ Refuse(h, h)
    BY <2>4 DEF OpenFails, Refuse, Sends, recordVars
  <2>5. CASE SendFrame(h, h, 0, FALSE, cmd[h] \in NeedRepeat)
    <3>1. PICK i : AsyncWrite(h, h, i, FALSE)
      BY <2>5 DEF SendFrame
    <3>2. frame'.newest # frame.newest
      <4>1. frame'.newest = h
        BY <3>1, FrameNewest
      <4> QED BY <2>2, <4>1
    <3>3. record' = IF cmd[h] \in NeedRepeat THEN h ELSE record
      BY <2>5 DEF SendFrame, SetNewMail, recordVars
    <3>4. aprilTagCmdData' = IF cmd[h] = "AprilTag" THEN h ELSE aprilTagCmdData
      BY <2>5 DEF SendFrame
    <3> QED BY <1>1, <2>1, <3>2, <3>3, <3>4 DEF Sends
  <2> QED BY <2>3, <2>4, <2>5 DEF SendData2Serial
<1>2. CASE ~ReceiveMail
  BY <1>2 DEF Sends, Next, Step, ReaderStops, RunHandler, PostMail,
              ReceiveMailGetAirplaneState, RepeatNothing, ReceiveMailRepeat,
              SendData2Serial, OpenFails, Refuse, SendFrame, RunAnswer,
              RunRepeaterAnswer, WriteDone, PackageRepeater, vars, recordVars
<1> QED BY <1>1, <1>2

RecInv == NewestOf(record, NeedRepeat)

LEMMA RecInvMeans == TypeOK /\ RecInv => RecordIsNewest
<1> SUFFICES ASSUME TypeOK, RecInv PROVE RecordIsNewest
  OBVIOUS
<1>1. record # NoMail => record \in Mail
  BY DEF TypeOK
<1> QED BY <1>1, AcceptedMeans DEF RecInv, NewestOf, RecordIsNewest, Fits

LEMMA InitRecInv == Init => RecInv
  BY InitNewest DEF Init, RecInv

LEMMA NextRecInv ==
  TypeOK /\ HolderInv /\ OrderInv /\ RecInv /\ [Next]_vars => RecInv'
<1> SUFFICES ASSUME TypeOK, HolderInv, OrderInv, RecInv, [Next]_vars PROVE RecInv'
  OBVIOUS
<1>1. PICK x \in Token : x = record
  BY DEF TypeOK
<1>2. PICK y : y = record'
  OBVIOUS
<1>3. "getAirplaneState" \notin NeedRepeat
  BY DEF NeedRepeat, MoveClass, PlainClass
<1>4. NewestOf(x, NeedRepeat)
  BY <1>1 DEF RecInv
<1>5. NewestOf(y, NeedRepeat)'
  BY <1>1, <1>2, <1>3, <1>4, NextRecords, NextNewest
<1> QED BY <1>2, <1>5 DEF RecInv, NewestOf

(* What is repeated is the newest recordable command that reached the      *)
(* port, whatever waits, is written or is answered besides.                *)
THEOREM RecordedIsNewest == Spec => []RecordIsNewest
  BY InitTypeOK, NextTypeOK, InitHolderInv, NextHolderInv, InitOrderInv,
     NextOrderInv, InitRecInv, NextRecInv, RecInvMeans, PTL DEF Spec

-----------------------------------------------------------------------------
(* Ids again: how far apart two commands in flight are.  Gap(i, j) is how  *)
(* often the counter steps from id i to id j, a whole round if they are    *)
(* the same; a command was recorded for every step of it.                  *)
Gap(i, j) == IF i < j THEN j - i ELSE j - i + MaxId

GapInv ==
  /\ \A w \in writing : w.id # 0 =>
       /\ w.mail <= record
       /\ w.mail = record => w.id = packageId
       /\ w.mail < record => record - w.mail >= Gap(w.id, packageId)
  /\ \A v, w \in writing :
       v.id # 0 /\ w.id # 0 /\ v.mail < w.mail =>
         w.mail - v.mail >= Gap(v.id, w.id)

LEMMA GapInvMeans == TypeOK /\ GapInv => IdReuse
<1> SUFFICES ASSUME TypeOK, GapInv, NEW v \in writing, NEW w \in writing,
                    v.id = w.id, v.id # 0, v.mail < w.mail
             PROVE  w.mail - v.mail >= MaxId
  BY DEF IdReuse
<1>1. w.mail - v.mail >= Gap(v.id, w.id)
  BY DEF GapInv
<1>2. v.id \in Int /\ MaxId \in Int
  BY MaxIdAssumption DEF TypeOK, Writes, Write
<1>3. Gap(v.id, w.id) = MaxId
  BY <1>2 DEF Gap
<1> QED BY <1>1, <1>3

LEMMA GapSteps ==
  ASSUME NEW i \in 1..MaxId, NEW p \in 1..MaxId
  PROVE  /\ Gap(i, NextId(p)) <= Gap(i, p) + 1
         /\ Gap(p, NextId(p)) = 1
         /\ Gap(i, p) \in Int /\ Gap(i, NextId(p)) \in Int
  BY MaxIdAssumption DEF Gap, NextId

LEMMA SendFrameGaps ==
  ASSUME TypeOK, GapInv, NEW t \in Token, NEW m \in Mail, NEW id \in 0..MaxId,
         NEW repeating, NEW needRepeat \in BOOLEAN,
         needRepeat => record < m,
         ~needRepeat => id = 0 \/ (id = packageId /\ m = record),
         SendFrame(t, m, id, repeating, needRepeat)
  PROVE  GapInv'
<1> DEFINE new == Write(t, m, IF needRepeat THEN packageId' ELSE id)
<1>1. /\ writing' = writing \cup {new}
      /\ new.mail = m /\ new.id = IF needRepeat THEN packageId' ELSE id
  BY DEF SendFrame, AsyncWrite, Write
<1> HIDE DEF new
<1>2. /\ record \in Int /\ packageId \in 1..MaxId /\ m \in Int
      /\ \A w \in writing : w.mail \in Int /\ w.id \in 0..MaxId
  BY MaxMailsAssumption DEF TypeOK, Writes, Write
<1>3. \A w \in writing : w.id # 0 => w.id \in 1..MaxId
  BY <1>2, MaxIdAssumption
<1>4. CASE ~needRepeat
  <2>1. record' = record /\ packageId' = packageId /\ new.id = id
    BY <1>1, <1>4 DEF SendFrame, recordVars
  <2>2. CASE id = 0
    BY <1>1, <2>1, <2>2 DEF GapInv, Gap
  <2>3. CASE id # 0
    <3>1. new.mail = record /\ new.id = packageId
      BY <1>1, <1>4, <2>1, <2>3
    <3>2. \A w \in writing : w.id # 0 =>
            /\ w.mail <= record
            /\ w.mail < record => record - w.mail >= Gap(w.id, packageId)
      BY DEF GapInv
    <3>3. \A w \in writing' : w.id # 0 =>
            /\ w.mail <= record
            /\ w.mail = record => w.id = packageId
            /\ w.mail < record => record - w.mail >= Gap(w.id, packageId)
      BY <1>1, <1>2, <3>1 DEF GapInv
    <3>4. ASSUME NEW v \in writing', NEW w \in writing',
                 v.id # 0, w.id # 0, v.mail < w.mail
          PROVE  w.mail - v.mail >= Gap(v.id, w.id)
      <4>1. CASE v \in writing /\ w \in writing
        BY <3>4, <4>1 DEF GapInv
      <4>2. CASE w = new
        BY <1>1, <1>2, <3>1, <3>3, <3>4, <4>2
      <4>3. CASE v = new
        BY <1>1, <1>2, <3>1, <3>2, <3>4, <4>3
      <4> QED BY <1>1, <4>1, <4>2, <4>3
    <3> QED BY <2>1, <3>3, <3>4 DEF GapInv, Gap
  <2> QED BY <2>2, <2>3
<1>5. CASE needRepeat
  <2>1. record' = m /\ packageId' = NextId(packageId) /\ record < m
        /\ new.id = packageId'
    BY <1>1, <1>5 DEF SendFrame, SetNewMail
  <2>2. packageId' \in 1..MaxId
    BY <1>2, <2>1, NextIdType
  <2>3. ASSUME NEW w \in writing, w.id # 0
        PROVE  w.mail < m /\ m - w.mail >= Gap(w.id, NextId(packageId))
    <3>1. /\ Gap(w.id, NextId(packageId)) <= Gap(w.id, packageId) + 1
          /\ Gap(packageId, NextId(packageId)) = 1
          /\ Gap(w.id, packageId) \in Int
          /\ Gap(w.id, NextId(packageId)) \in Int
      BY <1>2, <1>3, <2>3, GapSteps
    <3>2. /\ w.mail <= record
          /\ w.mail = record => w.id = packageId
          /\ w.mail < record => record - w.mail >= Gap(w.id, packageId)
      BY <2>3 DEF GapInv
    <3>3. CASE w.mail = record
      BY <1>2, <2>1, <3>1, <3>2, <3>3
    <3>4. CASE w.mail < record
      BY <1>2, <2>1, <3>1, <3>2, <3>4
    <3> QED BY <1>2, <3>2, <3>3, <3>4
  <2>4. \A w \in writing' : w.id # 0 =>
          /\ w.mail <= m
          /\ w.mail = m => w.id = packageId'
          /\ w.mail < m => m - w.mail >= Gap(w.id, packageId')
    <3>1. ASSUME NEW w \in writing, w.id # 0
          PROVE  /\ w.mail <= m
                 /\ w.mail = m => w.id = packageId'
                 /\ w.mail < m => m - w.mail >= Gap(w.id, packageId')
      <4>1. w.mail \in Int /\ w.mail < m /\ m - w.mail >= Gap(w.id, packageId')
        BY <1>2, <2>1, <2>3, <3>1
      <4> QED BY <1>2, <4>1
    <3>2. /\ new.mail <= m
          /\ new.mail = m => new.id = packageId'
          /\ ~(new.mail < m)
      BY <1>1, <1>2, <2>1
    <3> QED BY <1>1, <3>1, <3>2
  <2>5. ASSUME NEW v \in writing', NEW w \in writing',
               v.id # 0, w.id # 0, v.mail < w.mail
        PROVE  w.mail - v.mail >= Gap(v.id, w.id)
    <3>1. CASE v \in writing /\ w \in writing
      BY <2>5, <3>1 DEF GapInv
    <3>2. CASE w = new
      BY <1>1, <1>2, <2>1, <2>4, <2>5, <3>2
    <3>3. CASE v = new
      BY <1>1, <1>2, <2>4, <2>5, <3>3
    <3> QED BY <1>1, <3>1, <3>2, <3>3
  <2> QED BY <2>1, <2>4, <2>5 DEF GapInv, Gap
<1> QED BY <1>4, <1>5

LEMMA NextGapInv ==
  TypeOK /\ OrderInv /\ RecInv /\ GapInv /\ [Next]_vars => GapInv'
<1> SUFFICES ASSUME TypeOK, OrderInv, RecInv, GapInv, [Next]_vars PROVE GapInv'
  OBVIOUS
<1>1. CASE UNCHANGED recordVars /\ writing' \subseteq writing
  BY <1>1 DEF recordVars, GapInv, Gap
<1>2. CASE ReceiveMail
  <2>1. Runs("A2B", Mail) /\ Head(queue).tok \in Mail
    BY <1>2, RunsHead DEF ReceiveMail
  <2>2. PICK h \in Mail : h = Head(queue).tok
    BY <2>1
  <2> DEFINE needRepeat == cmd[h] \in NeedRepeat
  <2>3. SendData2Serial(h, h, 0, FALSE, needRepeat)
    BY <1>2, <2>2 DEF ReceiveMail
  <2>6. needRepeat \in BOOLEAN
    OBVIOUS
  <2> HIDE DEF needRepeat
  <2>4. record < h
    <3>1. frame.newest < h /\ record <= frame.newest
      BY <2>1, <2>2, FirstIsOldest DEF RecInv, NewestOf
    <3> QED BY <3>1, MaxMailsAssumption DEF TypeOK
  <2>5. CASE SendFrame(h, h, 0, FALSE, needRepeat)
    <3>1. h \in Token /\ 0 \in 0..MaxId
      BY MaxIdAssumption
    <3> QED BY <2>4, <2>5, <2>6, <3>1, SendFrameGaps
  <2> QED BY <1>1, <2>3, <2>5 DEF SendData2Serial, OpenFails, Refuse
<1>3. CASE ReceiveMailRepeat
  <2>1. record \in Mail /\ packageId \in 0..MaxId /\ Repeater \in Token
    BY <1>3 DEF ReceiveMailRepeat, TypeOK
  <2>2. SendData2Serial(Repeater, record, packageId, TRUE, FALSE)
    BY <1>3 DEF ReceiveMailRepeat
  <2>3. CASE SendFrame(Repeater, record, packageId, TRUE, FALSE)
    BY <2>1, <2>3, SendFrameGaps
  <2> QED BY <1>1, <2>2, <2>3 DEF SendData2Serial, OpenFails, Refuse
<1>4. \/ ReceiveMail \/ ReceiveMailRepeat
      \/ UNCHANGED recordVars /\ writing' \subseteq writing
  BY DEF Next, Step, ReaderStops, RunHandler, PostMail,
         ReceiveMailGetAirplaneState, RepeatNothing, RunAnswer,
         RunRepeaterAnswer, WriteDone, PackageRepeater, vars
<1> QED BY <1>1, <1>2, <1>3, <1>4

(* Two different commands that are being written under one id are a whole  *)
(* round of the counter apart, however long their writes take.             *)
THEOREM IdsAreApart == Spec => []IdReuse
<1>1. Init => GapInv
  BY DEF Init, GapInv
<1> QED
  BY <1>1, InitTypeOK, NextTypeOK, InitHolderInv, NextHolderInv, InitOrderInv,
     NextOrderInv, InitRecInv, NextRecInv, NextGapInv, GapInvMeans, PTL
  DEF Spec

-----------------------------------------------------------------------------
(* Tags.  A getAirplaneState that was handled has the newest accepted tag  *)
(* before it in its answer; that stays true because every older mail was   *)
(* handled before it, and what is past its handler is never accepted later.*)
Sees(g, t) ==
  /\ t # NoMail => t < g /\ cmd[t] = "AprilTag"
  /\ \A m \in Mail :
       t < m /\ m < g /\ cmd[m] = "AprilTag" => ~(Sendable(cmd[m]) /\ Ready(m))

Gets(m) == m \in Mail /\ cmd[m] = "getAirplaneState"

(* Answers that miss a tag.                                                *)
Blind == {r \in Replies : Gets(r.tok) /\ ~Sees(r.tok, r.tag)}

TagInv ==
  /\ NewestOf(aprilTagCmdData, {"AprilTag"})
  /\ \A a, b \in Mail : a < b /\ Done(b) => Done(a)
  /\ \A w \in writing : ~Gets(w.tok)
  /\ ~Some(queue, Blind)
  /\ \A g \in Mail : Gets(g) /\ AtRest(g) => Sees(g, answer[g].tag)

LEMMA TagInvMeans == TypeOK /\ TagInv => GetSeesNewestTag
<1> SUFFICES ASSUME TypeOK, TagInv,
                    NEW g \in Mail, AtRest(g), cmd[g] = "getAirplaneState"
             PROVE  /\ answer[g].tag # NoMail =>
                         answer[g].tag < g /\ cmd[answer[g].tag] = "AprilTag"
                    /\ \A m \in (answer[g].tag + 1)..(g - 1) :
                         cmd[m] = "AprilTag" => ~Accepted(m)
  BY DEF GetSeesNewestTag
<1>1. Sees(g, answer[g].tag)
  BY DEF TagInv, Gets
<1>2. PICK t \in Token : t = answer[g].tag
  <2>1. answer[g] \in Replies
    BY MaxMailsAssumption DEF TypeOK, AtRest
  <2> QED BY <2>1 DEF Replies, Reply
<1>3. \A m \in (t + 1)..(g - 1) : m \in Mail /\ t < m /\ m < g
  BY MaxMailsAssumption
<1> QED BY <1>1, <1>2, <1>3, AcceptedMeans DEF Sees

(* When a mail is handled, all older ones are done.                        *)
LEMMA OlderAreDone ==
  ASSUME TypeOK, HolderInv, OrderInv, NEW b \in Mail, Handles(b),
         NEW a \in Mail, a < b
  PROVE  Done(a)
<1>1. Runs("A2B", Mail) /\ Head(queue).tok = b /\ b <= posted
  BY BeforeHandler DEF Handles
<1>2. a <= posted /\ a \in Token /\ a \in Int /\ b \in Int
  BY <1>1, MaxMailsAssumption DEF TypeOK
<1>3. Has(queue, a) \/ Flying(a) \/ AtRest(a)
  BY <1>2 DEF HolderInv, Held
<1>4. CASE Has(queue, a)
  <2>1. PICK i \in DOMAIN queue : queue[i].tok = a
    BY <1>4 DEF Has
  <2>2. /\ queue[i] \in Requests \cup Replies
        /\ queue # <<>> /\ Head(queue) = queue[1]
    BY <1>1, <2>1 DEF TypeOK, Runs
  <2>3. i # 1
    BY <1>1, <1>2, <2>1, <2>2
  <2>4. queue[i].dir # "A2B"
    <3>1. SUFFICES ASSUME queue[i].dir = "A2B" PROVE FALSE
      OBVIOUS
    <3>2. Waiting(i)
      BY <2>1, <3>1, MaxMailsAssumption DEF Waiting
    <3>3. b < a
      BY <1>1, <2>1, <2>3, <3>2, FirstIsOldest
    <3> QED BY <1>2, <3>3
  <2>5. queue[i] \in Replies
    BY <2>2, <2>4 DEF Requests, Request
  <2>6. Some(queue, Answers(a, TRUE))
    BY <2>1, <2>5 DEF Some, Answers
  <2> QED BY <2>6 DEF Done, Past
<1> QED BY <1>3, <1>4 DEF Done, Past

LEMMA NextDone ==
  ASSUME TypeOK, HolderInv, OrderInv, [Next]_vars,
         \A a, b \in Mail : a < b /\ Done(b) => Done(a)
  PROVE  \A a, b \in Mail : a < b /\ Done(b)' => Done(a)'
<1> SUFFICES ASSUME NEW a \in Mail, NEW b \in Mail, a < b, Done(b)'
             PROVE  Done(a)'
  OBVIOUS
<1>1. Done(a)
  <2>1. CASE Handles(b)
    BY <2>1, OlderAreDone
  <2>2. CASE ~Handles(b)
    BY <2>2, NextPast DEF Done
  <2> QED BY <2>1, <2>2
<1>2. ~Handles(a)
  BY <1>1, BeforeHandler DEF Done
<1> QED BY <1>1, <1>2, NextPast DEF Done

(* What a mail that is done sees, it sees for good.                        *)
LEMMA SeesStays ==
  ASSUME TypeOK, HolderInv, [Next]_vars,
         \A a, b \in Mail : a < b /\ Done(b) => Done(a),
         NEW g \in Mail, Done(g), NEW t \in Token, Sees(g, t)
  PROVE  Sees(g, t)' /\ (Gets(g)' <=> Gets(g))
<1>1. g <= posted /\ posted \in Int /\ g \in Int /\ t \in Int
  <2>1. g <= posted
    BY NextPosted DEF Done
  <2>2. posted \in Int /\ g \in Int /\ t \in Int
    BY MaxMailsAssumption DEF TypeOK
  <2> QED BY <2>1, <2>2
<1>2. \A m \in Mail : m <= g => cmd'[m] = cmd[m]
  <2>1. \A m \in Mail : m <= g => m <= posted
    BY <1>1, MaxMailsAssumption
  <2> QED BY <2>1, NextPosted
<1>3. t # NoMail => t < g /\ cmd'[t] = "AprilTag"
  <2>1. SUFFICES ASSUME t # NoMail PROVE t < g /\ cmd'[t] = "AprilTag"
    OBVIOUS
  <2>2. t < g /\ cmd[t] = "AprilTag" /\ t \in Mail
    BY <2>1 DEF Sees
  <2>3. t <= g
    BY <1>1, <2>2
  <2> QED BY <1>2, <2>2, <2>3
<1>4. ASSUME NEW m \in Mail, t < m, m < g, cmd'[m] = "AprilTag"
      PROVE  ~(Sendable(cmd'[m]) /\ Ready(m)')
  <2>1. m <= g /\ cmd'[m] = cmd[m]
    BY <1>1, <1>2, <1>4
  <2>2. Done(m)
    BY <1>4
  <2>3. ~Handles(m)
    BY <2>2, BeforeHandler DEF Done
  <2>4. Ready(m)' <=> Ready(m)
    BY <2>3, NextPast DEF Ready
  <2>5. ~(Sendable(cmd[m]) /\ Ready(m))
    BY <1>4, <2>1 DEF Sees
  <2> QED BY <2>1, <2>4, <2>5
<1>5. g <= g
  BY <1>1
<1> QED BY <1>2, <1>3, <1>4, <1>5 DEF Sees, Gets

(* What was in the queue before the step misses no tag after it.           *)
LEMMA QueueStaysSeeing ==
  ASSUME TypeOK, HolderInv, [Next]_vars, TagInv
  PROVE  ~Some(queue, Blind')
<1> SUFFICES ASSUME NEW i \in DOMAIN queue, queue[i] \in Blind' PROVE FALSE
  BY DEF Some
<1>1. PICK r : r = queue[i]
  OBVIOUS
<1>2. PICK g \in Mail : g = r.tok
  BY <1>1 DEF Blind, Gets
<1>3. PICK t \in Token : t = r.tag
  BY <1>1 DEF Blind, Replies, Reply
<1>4. r \in Replies /\ Gets(g)' /\ ~Sees(g, t)'
  BY <1>1, <1>2, <1>3 DEF Blind, Gets, Sees
<1>5. Done(g)
  <2>1. Some(queue, Answers(g, TRUE))
    BY <1>1, <1>2, <1>4 DEF Some, Answers
  <2> QED BY <2>1 DEF Done, Past
<1>6. g <= posted /\ Gets(g)
  <2>1. g <= posted
    BY <1>5, NextPosted DEF Done
  <2> QED BY <1>4, <2>1, NextPosted DEF Gets
<1>7. Sees(g, t)
  <2>1. r \notin Blind
    BY <1>1 DEF TagInv, Some
  <2> QED BY <1>2, <1>3, <1>4, <1>6, <2>1 DEF Blind
<1> QED BY <1>4, <1>5, <1>7, SeesStays DEF TagInv

(* Running the first handler, and posting something that misses no tag.    *)
LEMMA NoBlind ==
  ASSUME NEW q \in Seq(Handlers), NEW R, ~Some(q, R)
  PROVE  /\ q # <<>> => ~Some(Tail(q), R) /\ Head(q) \notin R
         /\ \A r \in Handlers \ R :
              /\ ~Some(Append(q, r), R)
              /\ q # <<>> => ~Some(Append(Tail(q), r), R)
<1>1. Single(q, R)
  BY DEF Single, Some
<1>2. q # <<>> => /\ ~Some(Tail(q), R) /\ Head(q) \notin R
                  /\ Tail(q) \in Seq(Handlers)
  BY <1>1, TailEntries
<1> QED BY <1>2, AppendSome

LEMMA GetsStays ==
  ASSUME TypeOK, HolderInv, [Next]_vars, NEW t \in Token, t <= posted
  PROVE  Gets(t)' <=> Gets(t)
<1>1. CASE t \in Mail
  BY <1>1, NextPosted DEF Gets
<1>2. CASE t \notin Mail
  BY <1>2 DEF Gets
<1> QED BY <1>1, <1>2

LEMMA SendData2SerialSees ==
  ASSUME TypeOK, HolderInv, [Next]_vars, TagInv,
         NEW h \in Token, queue # <<>>, h = Head(queue).tok, ~Gets(h),
         NEW m, NEW id, NEW repeating, NEW needRepeat,
         SendData2Serial(h, m, id, repeating, needRepeat)
  PROVE  /\ ~Some(queue', Blind')
         /\ \A w \in writing' : w \in writing \/ w.tok = h
<1>1. h <= posted /\ ~Gets(h)' /\ queue \in Seq(Handlers)
  BY HeldByHead, GetsStays
<1>2. ~Some(queue, Blind')
  BY QueueStaysSeeing
<1>3. CASE OpenFails(h) \/ Refuse(h, m)
  <2>1. PICK ok, oe \in BOOLEAN :
               queue' = Append(Tail(queue), Reply(h, ok, oe, NoMail))
    BY <1>3 DEF OpenFails, Refuse, SendMail
  <2> DEFINE r == Reply(h, ok, oe, NoMail)
  <2>2. r \in Handlers /\ r.tok = h
    BY ReplyType DEF Reply
  <2>3. r \notin Blind'
    BY <1>1, <2>2 DEF Blind
  <2>4. ~Some(Append(Tail(queue), r), Blind')
    <3> HIDE DEF r
    <3> QED BY <1>1, <1>2, <2>2, <2>3, NoBlind
  <2>5. writing' = writing
    BY <1>3 DEF OpenFails, Refuse
  <2> QED BY <2>1, <2>4, <2>5
<1>4. CASE SendFrame(h, m, id, repeating, needRepeat)
  <2>1. PICK i : AsyncWrite(h, m, i, repeating)
    BY <1>4 DEF SendFrame
  <2>2. queue' = Tail(queue) /\ writing' = writing \cup {Write(h, m, i)}
    BY <2>1 DEF AsyncWrite
  <2>3. Write(h, m, i).tok = h
    BY DEF Write
  <2>4. ~Some(Tail(queue), Blind')
    BY <1>1, <1>2, NoBlind
  <2> QED BY <2>2, <2>3, <2>4
<1> QED BY <1>3, <1>4 DEF SendData2Serial

LEMMA GetSees ==
  ASSUME TypeOK, HolderInv, OrderInv, [Next]_vars, TagInv,
         NEW g \in Mail, Handles(g), NEW t \in Token, t = aprilTagCmdData
  PROVE  Sees(g, t)'
<1>1. /\ Runs("A2B", Mail) /\ Head(queue).tok = g /\ g <= posted
      /\ frame.newest < g
  BY BeforeHandler, FirstIsOldest DEF Handles
<1>2. /\ t <= frame.newest
      /\ t # NoMail => Fits(t, {"AprilTag"})
      /\ \A m \in Mail : Fits(m, {"AprilTag"}) /\ Ready(m) => m <= t
  BY DEF TagInv, NewestOf
<1>3. /\ posted \in Int /\ g \in Int /\ t \in Int /\ frame.newest \in Int
      /\ \A m \in Mail : m \in Int
  BY MaxMailsAssumption DEF TypeOK
<1>4. t # NoMail => t < g /\ cmd'[t] = "AprilTag"
  <2>1. t # NoMail => t \in Mail /\ t <= posted /\ cmd[t] = "AprilTag"
    BY <1>2 DEF Fits
  <2>2. t < g
    BY <1>1, <1>2, <1>3
  <2> QED BY <2>1, <2>2, NextPosted
<1>5. ASSUME NEW m \in Mail, t < m, m < g, cmd'[m] = "AprilTag"
      PROVE  ~(Sendable(cmd'[m]) /\ Ready(m)')
  <2>1. m <= posted
    BY <1>1, <1>3, <1>5
  <2>2. cmd'[m] = cmd[m]
    BY <2>1, NextPosted
  <2>3. ~Handles(m)
    BY <1>1, <1>3, <1>5 DEF Handles
  <2>4. Ready(m)' <=> Ready(m)
    BY <2>3, NextPast DEF Ready
  <2>5. ~(m <= t)
    BY <1>3, <1>5
  <2>6. ~(Fits(m, {"AprilTag"}) /\ Ready(m))
    BY <1>2, <2>5
  <2> QED BY <1>5, <2>1, <2>2, <2>4, <2>6 DEF Fits
<1> QED BY <1>4, <1>5 DEF Sees

LEMMA NextSees ==
  ASSUME TypeOK, HolderInv, OrderInv, [Next]_vars, TagInv
  PROVE  /\ ~Some(queue', Blind')
         /\ \A w \in writing' : w \in writing \/ ~Gets(w.tok)'
         /\ answer' = answer \/ RunAnswer
<1> DEFINE Goal == /\ ~Some(queue', Blind')
                   /\ \A w \in writing' : w \in writing \/ ~Gets(w.tok)'
                   /\ answer' = answer \/ RunAnswer
<1> SUFFICES Goal
  OBVIOUS
<1>0. queue \in Seq(Handlers) /\ ~Some(queue, Blind')
  BY QueueStaysSeeing DEF TypeOK, Handlers
<1>a. \A t \in Token : Request(t) \in Handlers \ Blind'
  <2>1. /\ \A t \in Token : Request(t) \in Handlers /\ Request(t).dir = "A2B"
        /\ \A r \in Replies : r.dir = "B2A"
    BY DEF Handlers, Requests, Replies, Request, Reply
  <2> QED BY <2>1 DEF Blind
<1>b. \A t, tag \in Token : \A ok, oe \in BOOLEAN :
        ~Gets(t)' => Reply(t, ok, oe, tag) \in Handlers \ Blind'
  <2>1. \A t, tag \in Token : \A ok, oe \in BOOLEAN :
          Reply(t, ok, oe, tag) \in Handlers /\ Reply(t, ok, oe, tag).tok = t
    BY ReplyType DEF Reply
  <2> QED BY <2>1 DEF Blind, Gets
<1>c. ~Gets(Repeater)' /\ ~Gets(Repeater) /\ Repeater \in Token
  BY MaxMailsAssumption DEF Gets
<1>1. ASSUME NEW c \in Cmds, PostMail(c) PROVE Goal
  <2>1. posted + 1 \in Token
    BY <1>1, MaxMailsAssumption DEF PostMail, TypeOK
  <2>2. /\ queue' = Append(queue, Request(posted + 1))
        /\ UNCHANGED <<writing, answer>>
    BY <1>1 DEF PostMail
  <2> QED BY <1>0, <1>a, <2>1, <2>2, NoBlind
<1>2. CASE ReceiveMailGetAirplaneState
  <2>1. queue # <<>> /\ Head(queue).tok \in Mail
    BY <1>2, RunsHead DEF ReceiveMailGetAirplaneState
  <2>2. PICK g \in Mail : g = Head(queue).tok
    BY <2>1
  <2>3. PICK t \in Token : t = aprilTagCmdData
    BY DEF TypeOK
  <2>4. Sees(g, t)'
    BY <1>2, <2>2, <2>3, GetSees DEF Handles
  <2>5. PICK r : r = Reply(g, TRUE, FALSE, t)
    OBVIOUS
  <2>6. r \in Handlers /\ r.tok = g /\ r.tag = t
    BY <2>5, ReplyType DEF Reply
  <2>7. r \notin Blind'
    BY <2>4, <2>6 DEF Blind, Sees
  <2>8. queue' = Append(Tail(queue), r) /\ UNCHANGED <<writing, answer>>
    BY <1>2, <2>2, <2>3, <2>5
    DEF ReceiveMailGetAirplaneState, SendMail, mailVars
  <2> QED BY <1>0, <2>1, <2>6, <2>7, <2>8, NoBlind
<1>3. CASE ReceiveMail
  <2>1. queue # <<>> /\ Head(queue).tok \in Mail
    BY <1>3, RunsHead DEF ReceiveMail
  <2>2. PICK h \in Token : h = Head(queue).tok
    BY <2>1
  <2>3. ~Gets(h) /\ answer' = answer
    BY <1>3, <2>2 DEF ReceiveMail, Gets, mailVars
  <2>4. ~Gets(h)'
    BY <2>1, <2>2, <2>3, HeldByHead, GetsStays
  <2>5. /\ ~Some(queue', Blind')
        /\ \A w \in writing' : w \in writing \/ w.tok = h
    BY <1>3, <2>1, <2>2, <2>3, SendData2SerialSees DEF ReceiveMail
  <2> QED BY <2>3, <2>4, <2>5 DEF Gets
<1>4. CASE RepeatNothing
  <2>1. queue # <<>>
    BY <1>4, RunsHead DEF RepeatNothing
  <2>2. /\ queue' = Append(Tail(queue), Reply(Repeater, FALSE, TRUE, NoMail))
        /\ UNCHANGED <<writing, answer>>
    BY <1>4 DEF RepeatNothing, SendMail, mailVars
  <2> QED BY <1>0, <1>b, <1>c, <2>1, <2>2, NoBlind
<1>5. CASE ReceiveMailRepeat
  <2>1. queue # <<>> /\ Head(queue).tok = Repeater
    BY <1>5, RunsHead DEF ReceiveMailRepeat
  <2>2. /\ SendData2Serial(Repeater, record, packageId, TRUE, FALSE)
        /\ answer' = answer
    BY <1>5 DEF ReceiveMailRepeat, mailVars
  <2>3. /\ ~Some(queue', Blind')
        /\ \A w \in writing' : w \in writing \/ w.tok = Repeater
    BY <1>c, <2>1, <2>2, SendData2SerialSees
  <2> QED BY <1>c, <2>2, <2>3 DEF Gets
<1>6. CASE RunAnswer
  <2>1. queue # <<>> /\ queue' = Tail(queue) /\ writing' = writing
    BY <1>6 DEF RunAnswer, Runs
  <2> QED BY <1>0, <1>6, <2>1, NoBlind
<1>7. CASE RunRepeaterAnswer
  <2>1. queue # <<>> /\ queue' = Tail(queue) /\ UNCHANGED <<writing, answer>>
    BY <1>7 DEF RunRepeaterAnswer, Runs, mailVars
  <2> QED BY <1>0, <2>1, NoBlind
<1>8. ASSUME NEW w \in writing, WriteDone(w) PROVE Goal
  <2>1. PICK t \in Token : t = w.tok
    BY DEF TypeOK, Writes, Write
  <2>2. PICK ok \in BOOLEAN :
               queue' = Append(queue, Reply(t, ok, FALSE, NoMail))
    BY <1>8, <2>1 DEF WriteDone
  <2>3. ~Gets(t) /\ t <= posted
    BY <2>1 DEF TagInv, HolderInv, Held, Flying
  <2>4. ~Gets(t)'
    BY <2>3, GetsStays
  <2>5. writing' = writing \ {w} /\ answer' = answer
    BY <1>8 DEF WriteDone, mailVars
  <2> QED BY <1>0, <1>b, <2>2, <2>4, <2>5, NoBlind
<1>9. CASE PackageRepeater
  <2>1. UNCHANGED <<writing, answer>>
    BY <1>9 DEF PackageRepeater, mailVars
  <2>2. CASE queue' = Append(queue, Request(Repeater))
    BY <1>0, <1>a, <1>c, <2>1, <2>2, NoBlind
  <2>3. CASE UNCHANGED queue
    BY <1>0, <2>1, <2>3
  <2> QED BY <1>9, <2>2, <2>3 DEF PackageRepeater
<1>10. CASE ReaderStops \/ UNCHANGED vars
  BY <1>0, <1>10 DEF ReaderStops, vars, mailVars
<1> QED
  BY <1>1, <1>2, <1>3, <1>4, <1>5, <1>6, <1>7, <1>8, <1>9, <1>10
  DEF Next, Step, RunHandler

LEMMA NextTagInv ==
  TypeOK /\ HolderInv /\ OrderInv /\ TagInv /\ [Next]_vars => TagInv'
<1> SUFFICES ASSUME TypeOK, HolderInv, OrderInv, TagInv, [Next]_vars
             PROVE  TagInv'
  OBVIOUS
<1>1. NewestOf(aprilTagCmdData, {"AprilTag"})'
  <2>1. PICK x \in Token : x = aprilTagCmdData
    BY DEF TypeOK
  <2>2. PICK y : y = aprilTagCmdData'
    OBVIOUS
  <2>3. NewestOf(x, {"AprilTag"})
    BY <2>1 DEF TagInv
  <2>4. NewestOf(y, {"AprilTag"})'
    BY <2>1, <2>2, <2>3, NextRecords, NextNewest
  <2> QED BY <2>2, <2>4 DEF NewestOf
<1>2. \A a, b \in Mail : a < b /\ Done(b)' => Done(a)'
  BY NextDone DEF TagInv
<1>3. ASSUME NEW w \in writing PROVE ~Gets(w.tok)'
  <2>1. PICK t \in Token : t = w.tok
    BY DEF TypeOK, Writes, Write
  <2>2. ~Gets(t) /\ t <= posted
    BY <2>1 DEF TagInv, HolderInv, Held, Flying
  <2>3. ~Gets(t)'
    BY <2>2, GetsStays
  <2> QED BY <2>1, <2>3 DEF Gets
<1>4. ASSUME NEW g \in Mail, Gets(g)', AtRest(g),
             NEW t \in Token, t = answer[g].tag
      PROVE  Sees(g, t)'
  <2>1. Done(g)
    BY <1>4 DEF Done, Past
  <2>2. g <= posted
    BY <2>1, NextPosted DEF Done
  <2>3. Gets(g)
    BY <1>4, <2>2, GetsStays
  <2>4. Sees(g, t)
    BY <1>4, <2>3 DEF TagInv
  <2> QED BY <2>1, <2>4, SeesStays DEF TagInv
<1>5. ASSUME NEW g \in Mail, Gets(g)', AtRest(g)'
      PROVE  Sees(g, answer[g].tag)'
  <2>1. PICK t \in Token : t = answer'[g].tag
    <3>1. answer'[g] \in Replies
      BY <1>5, NextTypeOK, MaxMailsAssumption DEF TypeOK, AtRest
    <3> QED BY <3>1 DEF Replies, Reply
  <2>2. CASE answer'[g] = answer[g]
    <3>1. AtRest(g)
      BY <1>5, <2>2, MaxMailsAssumption DEF AtRest
    <3>2. Sees(g, t)'
      BY <1>4, <1>5, <2>1, <2>2, <3>1
    <3> QED BY <2>1, <3>2 DEF Sees
  <2>3. CASE answer'[g] # answer[g]
    <3>1. RunAnswer
      BY <2>3, NextSees
    <3>2. /\ queue # <<>> /\ Head(queue) \in Replies
          /\ answer'[g] = Head(queue) /\ Head(queue).tok = g
      BY <2>3, <3>1, HeadIsHandler DEF RunAnswer, Runs, TypeOK
    <3>3. Head(queue) \notin Blind'
      BY <3>2, QueueStaysSeeing, NoBlind DEF TypeOK, Handlers
    <3>4. Sees(g, t)'
      BY <1>5, <2>1, <3>2, <3>3 DEF Blind, Sees, Gets
    <3> QED BY <2>1, <3>4 DEF Sees
  <2> QED BY <2>2, <2>3
<1>6. ~Some(queue, Blind)' /\ \A w \in writing' : ~Gets(w.tok)'
  BY <1>3, NextSees DEF Some
<1> QED BY <1>1, <1>2, <1>5, <1>6 DEF TagInv

LEMMA InitTagInv == Init => TagInv
<1> SUFFICES ASSUME Init PROVE TagInv
  OBVIOUS
<1>1. NewestOf(aprilTagCmdData, {"AprilTag"})
  BY InitNewest DEF Init
<1>2. \A m \in Mail : ~AtRest(m) /\ ~Flying(m)
  BY MaxMailsAssumption DEF Init, AtRest, Flying
<1>3. \A R : ~Some(queue, R)
  BY DEF Init, Some
<1>4. writing = {}
  BY DEF Init
<1> QED BY <1>1, <1>2, <1>3, <1>4 DEF TagInv, Done, Past

(* getAirplaneState is answered with the newest tag before it that could   *)
(* be sent, whatever is refused, fails or is answered in between.          *)
THEOREM TagIsNewest == Spec => []GetSeesNewestTag
  BY InitTypeOK, NextTypeOK, InitHolderInv, NextHolderInv, InitOrderInv,
     NextOrderInv, InitTagInv, NextTagInv, TagInvMeans, PTL DEF Spec
=============================================================================
