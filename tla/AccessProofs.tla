----------------------------- MODULE AccessProofs ---------------------------
(***************************************************************************)
(* Theorems about how a client reaches the terminal: MultiCast, by which   *)
(* it is found, for every set of hosts and every number of datagrams; and  *)
(* WebControl, by which it is set up, for every set of sessions, every set *)
(* of commands and every number of requests.                               *)
(***************************************************************************)
EXTENDS MultiCast, WebControl, QueueLemmas, FiniteSetTheorems, SequenceTheorems

-----------------------------------------------------------------------------
(* Discovery.  The inductive invariant.                                    *)
Bounded == Len(got) <= MaxDatagrams

(* A datagram is handled with the endpoint it came from still there.       *)
EndpointIsSenders ==
  listening = "received" =>
    Len(got) > 0 /\ receiver_endpoint_ = got[Len(got)].from

(* What was responded to has been handled.                                 *)
Handled(d) == d = Len(got) => listening # "received"
ResponsesAreToHandled ==
  \A i \in DOMAIN responded :
    responded[i].re \in 1..Len(got) /\ Handled(responded[i].re)

MInv == QueriesAreAnswered /\ Bounded /\ EndpointIsSenders /\ ResponsesAreToHandled

LEMMA InitMInv == MulticastInit => MInv
<1> SUFFICES ASSUME MulticastInit PROVE MInv
  OBVIOUS
<1>1. /\ Len(got) = 0 /\ DOMAIN got = {} /\ DOMAIN responded = {}
      /\ got \in Seq(Datagrams) /\ responded \in Seq(Response)
  BY DEF MulticastInit
<1>2. MulticastTypeOK
  BY <1>1 DEF MulticastInit, MulticastTypeOK
<1>3. QueriesAreAnswered
  BY <1>1, <1>2 DEF MulticastInit, QueriesAreAnswered
<1>4. Bounded
  BY <1>1, MaxDatagramsAssumption DEF Bounded
<1>5. EndpointIsSenders /\ ResponsesAreToHandled
  BY <1>1 DEF MulticastInit, EndpointIsSenders, ResponsesAreToHandled
<1> QED BY <1>3, <1>4, <1>5 DEF MInv

LEMMA ArriveStep ==
  ASSUME MInv, NEW datagram \in Datagrams, Arrive(datagram)
  PROVE  MInv'
<1> DEFINE n == Len(got)
<1>1. /\ got \in Seq(Datagrams) /\ responded \in Seq(Response) /\ n \in Nat
      /\ listening = "receiving" /\ listening' = "received" /\ n < MaxDatagrams
      /\ receiver_endpoint_' = datagram.from
      /\ UNCHANGED <<response_message_, noticing, multicastAlive, responded>>
  BY DEF MInv, QueriesAreAnswered, MulticastTypeOK, Arrive
<1>2. /\ got' \in Seq(Datagrams) /\ Len(got') = n + 1
      /\ DOMAIN got = 1..n /\ DOMAIN got' = 1..(n + 1)
      /\ got'[n + 1] = datagram
      /\ \A d \in 1..n : got'[d] = got[d]
  <2>1. got' = Append(got, datagram)
    BY DEF Arrive
  <2> QED BY <1>1, <2>1
<1> HIDE DEF n
<1>3. MulticastTypeOK'
  BY <1>1, <1>2 DEF MInv, QueriesAreAnswered, MulticastTypeOK, Datagrams
<1>4. \A d \in 1..n : Handled(d) /\ Handled(d)'
  BY <1>1, <1>2 DEF Handled
<1>5. \A i \in DOMAIN responded : responded[i].re \in 1..n
  BY DEF MInv, ResponsesAreToHandled, n
<1>6. ASSUME NEW d \in DOMAIN got', got'[d].content = "Query",
             d = Len(got') => listening' # "received"
      PROVE  Answered(d)'
  <2>1. d \in 1..n
    BY <1>1, <1>2, <1>6
  <2>2. Answered(d)
    BY <1>1, <1>2, <1>6, <2>1 DEF MInv, QueriesAreAnswered
  <2> QED BY <1>1, <2>2 DEF Answered
<1>7. ASSUME NEW i \in DOMAIN responded
      PROVE  LET d == responded[i].re IN
               /\ \A j \in 1..(i - 1) : responded[j].re < d
               /\ d \in DOMAIN got'
               /\ responded[i].to = got'[d].from
               /\ got'[d].content # "Notice"
               /\ got'[d].content = "Query" => responded[i].text = "Response"
  <2>1. responded[i].re \in 1..n /\ responded[i].re \in DOMAIN got'
    BY <1>1, <1>2, <1>5
  <2>2. got'[responded[i].re] = got[responded[i].re]
    BY <1>2, <2>1
  <2> QED BY <2>1, <2>2 DEF MInv, QueriesAreAnswered
<1>8. QueriesAreAnswered'
  BY <1>1, <1>3, <1>6, <1>7 DEF QueriesAreAnswered
<1>9. Bounded' /\ EndpointIsSenders'
  BY <1>1, <1>2, MaxDatagramsAssumption DEF Bounded, EndpointIsSenders
<1>10. ResponsesAreToHandled'
  BY <1>1, <1>2, <1>4, <1>5 DEF ResponsesAreToHandled
<1> QED BY <1>8, <1>9, <1>10 DEF MInv

LEMMA DoResponseStep == ASSUME MInv, DoResponse PROVE MInv'
<1> DEFINE n == Len(got)
           m == Len(responded)
           text == IF got[n].content = "Query" THEN "Response" ELSE response_message_
           r == [to |-> receiver_endpoint_, text |-> text, re |-> n]
<1>1. /\ MulticastTypeOK /\ got \in Seq(Datagrams) /\ responded \in Seq(Response)
      /\ n \in Nat /\ m \in Nat /\ n <= MaxDatagrams /\ n > 0
      /\ listening = "received" /\ listening' = "responding"
      /\ receiver_endpoint_ \in Hosts /\ receiver_endpoint_ = got[n].from
      /\ response_message_ \in {"nothing", "Response"}
      /\ response_message_' = text /\ responded' = Append(responded, r)
      /\ UNCHANGED <<receiver_endpoint_, noticing, multicastAlive, got>>
  BY DEF MInv, QueriesAreAnswered, MulticastTypeOK, DoResponse, Handles, EndpointIsSenders, Bounded
<1>2. text \in {"nothing", "Response"} /\ r \in Response
  BY <1>1, MaxDatagramsAssumption DEF Response
<1>3. /\ responded' \in Seq(Response)
      /\ DOMAIN responded = 1..m /\ DOMAIN responded' = 1..(m + 1)
      /\ responded'[m + 1] = r
      /\ \A i \in 1..m : responded'[i] = responded[i]
      /\ DOMAIN got = 1..n
  BY <1>1, <1>2
<1>4. r.to = receiver_endpoint_ /\ r.text = text /\ r.re = n
  OBVIOUS
<1> HIDE DEF r, text, n, m
<1>5. MulticastTypeOK'
  BY <1>1, <1>2, <1>3 DEF MulticastTypeOK
<1>6. \A d : Handled(d)'
  BY <1>1 DEF Handled
<1>7. \A i \in 1..m : responded[i].re \in 1..n /\ responded[i].re < n
  <2>1. SUFFICES ASSUME NEW i \in 1..m
                 PROVE  responded[i].re \in 1..n /\ responded[i].re < n
    OBVIOUS
  <2>2. responded[i].re \in 1..n /\ responded[i].re # n
    BY <1>1, <1>3 DEF MInv, ResponsesAreToHandled, Handled, n
  <2> QED BY <1>1, <2>2
<1>8. ASSUME NEW d \in DOMAIN got, got[d].content = "Query"
      PROVE  Answered(d)'
  <2>1. CASE d = n
    BY <1>1, <1>3, <1>4, <2>1 DEF Answered
  <2>2. CASE d # n
    <3>1. PICK i \in DOMAIN responded : responded[i].re = d
      BY <1>8, <2>2 DEF MInv, QueriesAreAnswered, Answered, n
    <3> QED BY <1>1, <1>3, <3>1 DEF Answered
  <2> QED BY <2>1, <2>2
<1>9. ASSUME NEW i \in DOMAIN responded'
       PROVE  LET d == responded'[i].re IN
                /\ \A j \in 1..(i - 1) : responded'[j].re < d
                /\ d \in DOMAIN got
                /\ responded'[i].to = got[d].from
                /\ got[d].content # "Notice"
                /\ got[d].content = "Query" => responded'[i].text = "Response"
  <2>1. CASE i = m + 1
    <3>1. 1..(i - 1) = 1..m
      BY <1>1, <2>1
    <3>2. \A j \in 1..(i - 1) : responded'[j].re < n
      BY <1>3, <1>7, <3>1
    <3>3. got[n].content # "Notice"
      BY DEF DoResponse, Handles, n
    <3>4. got[n].content = "Query" => text = "Response"
      BY DEF text
    <3> QED BY <1>1, <1>3, <1>4, <2>1, <3>2, <3>3, <3>4
  <2>2. CASE i # m + 1
    <3>1. i \in 1..m /\ i \in DOMAIN responded
      BY <1>1, <1>3, <2>2
    <3>2. \A j \in 1..(i - 1) : j \in 1..m
      BY <1>1, <3>1
    <3> QED BY <1>3, <3>1, <3>2 DEF MInv, QueriesAreAnswered
  <2> QED BY <2>1, <2>2
<1>10. QueriesAreAnswered'
  <2>1. Len(responded') = m + 1
    BY <1>1 DEF m
  <2> QED BY <1>1, <1>3, <1>4, <1>5, <1>8, <1>9, <2>1 DEF QueriesAreAnswered, n
<1>11. Bounded' /\ EndpointIsSenders'
  BY <1>1 DEF Bounded, EndpointIsSenders, n
<1>12. ResponsesAreToHandled'
  <2>1. SUFFICES ASSUME NEW i \in DOMAIN responded' PROVE responded'[i].re \in 1..n
    BY <1>1, <1>6 DEF ResponsesAreToHandled, n
  <2> QED BY <1>1, <1>3, <1>4, <1>7
<1> QED BY <1>10, <1>11, <1>12 DEF MInv

(* Every other step leaves the datagrams, the responses and the text.      *)
LEMMA OtherStep ==
  ASSUME MInv, MulticastTypeOK', UNCHANGED <<got, responded, receiver_endpoint_, response_message_>>,
         \/ listening' = listening
         \/ /\ listening' \notin {"received", "responding"}
            /\ listening = "received" => got[Len(got)].content # "Query"
  PROVE  MInv'
<1>1. \A d : Handled(d) => Handled(d)'
  BY DEF Handled
<1>2. QueriesAreAnswered'
  BY DEF MInv, QueriesAreAnswered, Answered
<1>3. Bounded' /\ EndpointIsSenders' /\ ResponsesAreToHandled'
  BY <1>1 DEF MInv, Bounded, EndpointIsSenders, ResponsesAreToHandled
<1> QED BY <1>2, <1>3 DEF MInv

LEMMA StepMInv == MInv /\ [MulticastNext]_multicastVars => MInv'
<1> SUFFICES ASSUME MInv, [MulticastNext]_multicastVars PROVE MInv'
  OBVIOUS
<1>1. MulticastTypeOK
  BY DEF MInv, QueriesAreAnswered
<1>2. ASSUME NEW datagram \in Datagrams, Arrive(datagram) PROVE MInv'
  BY <1>2, ArriveStep
<1>3. CASE ReceiveFails
  <2>1. MulticastTypeOK'
    BY <1>1, <1>3 DEF MulticastTypeOK, ReceiveFails
  <2> QED BY <1>3, <2>1, OtherStep DEF ReceiveFails
<1>4. CASE Ignore
  <2>1. MulticastTypeOK'
    BY <1>1, <1>4 DEF MulticastTypeOK, Ignore
  <2> QED BY <1>4, <2>1, OtherStep DEF Ignore, Handles
<1>5. CASE Throw
  <2>1. MulticastTypeOK'
    BY <1>1, <1>5 DEF MulticastTypeOK, Throw, listenVars
  <2> QED BY <1>5, <2>1, OtherStep DEF Throw, listenVars
<1>6. CASE DoResponse
  BY <1>6, DoResponseStep
<1>7. CASE ResponseDone
  <2>1. MulticastTypeOK'
    BY <1>1, <1>7 DEF MulticastTypeOK, ResponseDone, ResponseSent, ResponseFails
  <2> QED BY <1>7, <2>1, OtherStep DEF ResponseDone, ResponseSent, ResponseFails
<1>8. CASE NoticeDone \/ TimerExpires
  <2>1. MulticastTypeOK'
    BY <1>1, <1>8 DEF MulticastTypeOK, NoticeDone, NoticeSent, NoticeFails, TimerExpires, listenVars
  <2> QED BY <1>8, <2>1, OtherStep
            DEF NoticeDone, NoticeSent, NoticeFails, TimerExpires, listenVars
<1>9. CASE UNCHANGED multicastVars
  <2>1. MulticastTypeOK'
    BY <1>1, <1>9 DEF MulticastTypeOK, multicastVars, listenVars
  <2> QED BY <1>9, <2>1, OtherStep DEF multicastVars, listenVars
<1> QED BY <1>2, <1>3, <1>4, <1>5, <1>6, <1>7, <1>8, <1>9 DEF MulticastNext, HandleDatagram

(* Every query that was handled was responded to, once, in order, where it *)
(* came from, with the text of a response, and a notice never was.         *)
THEOREM QueriesAnswered == MulticastSpec => []QueriesAreAnswered
<1>1. MInv => QueriesAreAnswered
  BY DEF MInv
<1> QED BY <1>1, InitMInv, StepMInv, PTL DEF MulticastSpec

-----------------------------------------------------------------------------
(* The web control service.  The inductive invariant: what a session waits *)
(* for is in one place, and it waits exactly as long as that is there.     *)
MailsOf(s) == {m \in Mails : m.session = s}
LiveOf(s)  == {it \in Items : it.session = s /\ it.state # "gone"}

WaitsForOne(s) ==
  /\ Single(queue, MailsOf(s)) /\ Single(items, LiveOf(s))
  /\ ~(Some(queue, MailsOf(s)) /\ Some(items, LiveOf(s)))
  /\ stage[s] = "waiting" <=> Some(queue, MailsOf(s)) \/ Some(items, LiveOf(s))

(* A request is read when all earlier ones were responded to; only a       *)
(* request that ends the session or the thread has no response.            *)
Counted(s) ==
  /\ responses[s] \in {asked[s] - 1, asked[s]}
  /\ stage[s] = "writing" => responses[s] = asked[s]
  /\ stage[s] = "waiting" => responses[s] = asked[s] - 1
  /\ stage[s] \in {"none", "reading"} => responses[s] = asked[s] \/ ~threadAlive

PoolIsLive == \A i \in ceiPool_ : items[i].state # "gone"

WebInv == /\ TypeOK
          /\ \A s \in Sessions : WaitsForOne(s) /\ Counted(s)
          /\ PoolIsLive

LEMMA Kinds ==
  /\ \A s \in Sessions : \A m \in Mails : m \in MailsOf(s) <=> m.session = s
  /\ \A s \in Sessions : \A it \in Items :
       it \in LiveOf(s) <=> it.session = s /\ it.state # "gone"
  /\ \A m \in Mails : m.session \in Sessions
  /\ \A s \in Sessions : Answer(s) \in Mails
  /\ \A m \in Mails : m.to = "cmd" => m.cmd \in Cmds
BY DEF MailsOf, LiveOf, Mails, Items, Answer

LEMMA InitWebInv == Init => WebInv
<1> SUFFICES ASSUME Init PROVE WebInv
  OBVIOUS
<1>1. /\ queue \in Seq(Mails) /\ items \in Seq(Items)
      /\ DOMAIN queue = {} /\ DOMAIN items = {} /\ ceiPool_ = {}
  BY DEF Init
<1>2. TypeOK
  BY <1>1, WebControlAssumption DEF Init, TypeOK, Ids
<1>3. ASSUME NEW s \in Sessions PROVE WaitsForOne(s) /\ Counted(s)
  BY <1>1 DEF Init, WaitsForOne, Counted, Some, Single
<1> QED BY <1>1, <1>2, <1>3 DEF WebInv, PoolIsLive

(* A step that leaves the mails and the items alone, and takes session s   *)
(* from one stage that is not waiting to another.                          *)
LEMMA SessionStep ==
  ASSUME WebInv, TypeOK', NEW s \in Sessions, UNCHANGED <<queue, itemVars>>,
         stage[s] # "waiting", stage'[s] # "waiting", Counted(s)',
         \A t \in Sessions \ {s} :
           stage'[t] = stage[t] /\ asked'[t] = asked[t] /\ responses'[t] = responses[t],
         ~threadAlive' \/ threadAlive' = threadAlive
  PROVE  WebInv'
<1>1. ASSUME NEW t \in Sessions PROVE WaitsForOne(t)' /\ Counted(t)'
  <2>1. CASE t = s
    BY <2>1 DEF WebInv, WaitsForOne, itemVars
  <2>2. CASE t # s
    BY <2>2 DEF WebInv, WaitsForOne, Counted, itemVars
  <2> QED BY <2>1, <2>2
<1> QED BY <1>1 DEF WebInv, PoolIsLive, itemVars

LEMMA AcceptStep == ASSUME WebInv, NEW s \in Sessions, threadAlive, Accept(s) PROVE WebInv'
<1>1. TypeOK'
  BY DEF WebInv, TypeOK, Accept, Become, Ids, itemVars
<1>2. Counted(s)'
  BY DEF WebInv, TypeOK, Accept, Become, Counted
<1> QED BY <1>1, <1>2, SessionStep DEF WebInv, TypeOK, Accept, Become

LEMMA ReadEndsStep == ASSUME WebInv, NEW s \in Sessions, threadAlive, ReadEnds(s) PROVE WebInv'
<1>1. TypeOK'
  BY DEF WebInv, TypeOK, ReadEnds, Become, Ids, itemVars
<1>2. Counted(s)'
  BY DEF WebInv, TypeOK, ReadEnds, Become, Counted
<1> QED BY <1>1, <1>2, SessionStep DEF WebInv, TypeOK, ReadEnds, Become

LEMMA OnWriteStep == ASSUME WebInv, NEW s \in Sessions, threadAlive, OnWrite(s) PROVE WebInv'
<1>1. TypeOK'
  BY DEF WebInv, TypeOK, OnWrite, Become, Ids, itemVars
<1>2. Counted(s)'
  BY DEF WebInv, TypeOK, OnWrite, Become, Counted
<1> QED BY <1>1, <1>2, SessionStep DEF WebInv, TypeOK, OnWrite, Become

(* A request was read: the session read all earlier ones' responses.       *)
LEMMA ReadCounts ==
  ASSUME WebInv, NEW s \in Sessions, threadAlive, Read(s)
  PROVE  /\ asked' \in [Sessions -> 0..MaxRequests]
         /\ asked[s] \in Nat /\ asked'[s] = asked[s] + 1 /\ responses[s] = asked[s]
         /\ asked[s] + 1 \in 0..MaxRequests
         /\ \A t \in Sessions \ {s} : asked'[t] = asked[t]
         /\ stage[s] = "reading"
         /\ ~Some(queue, MailsOf(s)) /\ ~Some(items, LiveOf(s))
<1>1. asked \in [Sessions -> 0..MaxRequests] /\ MaxRequests \in Nat /\ asked[s] < MaxRequests
  BY WebControlAssumption DEF WebInv, TypeOK, Read
<1>2. asked[s] + 1 \in 0..MaxRequests
  BY <1>1
<1> QED BY <1>1, <1>2 DEF WebInv, Read, Counted, WaitsForOne

LEMMA OnReadStep == ASSUME WebInv, NEW s \in Sessions, threadAlive, OnRead(s) PROVE WebInv'
<1>1. CASE ReadAtOnce(s)
  <2>0. Read(s)
    BY <1>1 DEF ReadAtOnce
  <2>1. /\ responses \in [Sessions -> 0..MaxRequests]
        /\ responses' = [responses EXCEPT ![s] = @ + 1]
        /\ stage \in [Sessions -> {"none", "reading", "waiting", "writing", "gone"}]
        /\ stage' = [stage EXCEPT ![s] = "writing"]
        /\ UNCHANGED <<queue, itemVars, programFound, threadAlive>>
    BY <1>1 DEF WebInv, TypeOK, ReadAtOnce, Read, Send, Become
  <2>2. TypeOK'
    BY <2>0, <2>1, ReadCounts DEF WebInv, TypeOK, Ids, itemVars
  <2>3. Counted(s)'
    BY <2>0, <2>1, ReadCounts DEF Counted
  <2> QED BY <2>0, <2>1, <2>2, <2>3, ReadCounts, SessionStep
<1>2. CASE ReadUnknown(s)
  <2>0. Read(s)
    BY <1>2 DEF ReadUnknown
  <2>1. /\ stage \in [Sessions -> {"none", "reading", "waiting", "writing", "gone"}]
        /\ stage' = [stage EXCEPT ![s] = "gone"]
        /\ UNCHANGED <<responses, queue, itemVars, programFound, threadAlive>>
    BY <1>2 DEF WebInv, TypeOK, ReadUnknown, Read, Become
  <2>2. TypeOK'
    BY <2>0, <2>1, ReadCounts DEF WebInv, TypeOK, Ids, itemVars
  <2>3. Counted(s)'
    BY <2>0, <2>1, ReadCounts DEF Counted
  <2> QED BY <2>0, <2>1, <2>2, <2>3, ReadCounts, SessionStep
<1>3. CASE ReadNoUri(s)
  <2>0. Read(s)
    BY <1>3 DEF ReadNoUri
  <2>1. /\ threadAlive' = FALSE
        /\ UNCHANGED <<stage, responses, queue, itemVars, programFound>>
    BY <1>3 DEF ReadNoUri, Read
  <2>2. TypeOK'
    BY <2>0, <2>1, ReadCounts DEF WebInv, TypeOK, Ids, itemVars
  <2>3. Counted(s)'
    BY <2>0, <2>1, ReadCounts DEF Counted
  <2> QED BY <2>0, <2>1, <2>2, <2>3, ReadCounts, SessionStep
<1>4. ASSUME NEW cmd \in Cmds, NEW good \in SUBSET (CmdLookupTable[cmd] \cap Checked[cmd]),
             ReadCmd(s, cmd, good)
      PROVE  WebInv'
  <2> DEFINE m == Mail(s, cmd, good)
  <2>0. Read(s)
    BY <1>4 DEF ReadCmd
  <2>1. /\ stage \in [Sessions -> {"none", "reading", "waiting", "writing", "gone"}]
        /\ stage' = [stage EXCEPT ![s] = "waiting"]
        /\ queue \in Seq(Mails) /\ queue' = Append(queue, m)
        /\ UNCHANGED <<responses, items, ceiPool_, programFound, threadAlive>>
    BY <1>4 DEF WebInv, TypeOK, ReadCmd, Read, Become, itemVars
  <2>2. good \subseteq Fields
    BY WebControlAssumption DEF CmdLookupTable, WifiCmd, Fields
  <2>3. m \in Mails /\ m.session = s
    BY <2>2 DEF Mail, Mails
  <2> HIDE DEF m
  <2>4. ASSUME NEW t \in Sessions
        PROVE  /\ queue' \in Seq(Mails)
               /\ Single(queue, MailsOf(t))' 
               /\ Some(queue, MailsOf(t))' <=> Some(queue, MailsOf(t)) \/ t = s
    <3>1. Single(queue, MailsOf(t)) /\ (m \in MailsOf(t) <=> t = s)
      BY <2>3, Kinds DEF WebInv, WaitsForOne
    <3>2. m \in MailsOf(t) => ~Some(queue, MailsOf(t))
      BY <2>0, <3>1, ReadCounts
    <3>3. /\ Append(queue, m) \in Seq(Mails)
          /\ Single(Append(queue, m), MailsOf(t))
          /\ Some(Append(queue, m), MailsOf(t)) <=> Some(queue, MailsOf(t)) \/ m \in MailsOf(t)
      BY <2>1, <2>3, <3>1, <3>2, AppendEntries
    <3>4. MailsOf(t)' = MailsOf(t)
      BY DEF MailsOf
    <3> QED BY <2>1, <3>1, <3>3, <3>4 DEF Single, Some
  <2>5. TypeOK'
    BY <2>0, <2>1, <2>4, ReadCounts DEF WebInv, TypeOK, Ids
  <2>6. ASSUME NEW t \in Sessions PROVE WaitsForOne(t)' /\ Counted(t)'
    <3>1. LiveOf(t)' = LiveOf(t) /\ Some(items, LiveOf(t))' = Some(items, LiveOf(t))
          /\ Single(items, LiveOf(t))' = Single(items, LiveOf(t))
      BY <2>1 DEF LiveOf, Some, Single
    <3>2. CASE t = s
      BY <2>0, <2>1, <2>4, <3>1, <3>2, ReadCounts DEF WebInv, WaitsForOne, Counted
    <3>3. CASE t # s
      BY <2>0, <2>1, <2>4, <3>1, <3>3, ReadCounts DEF WebInv, WaitsForOne, Counted
    <3> QED BY <3>2, <3>3
  <2> QED BY <2>1, <2>5, <2>6 DEF WebInv, PoolIsLive
<1> QED BY <1>1, <1>2, <1>3, <1>4 DEF OnRead

-----------------------------------------------------------------------------
(* What receiving a mail, posting an answer and making an item do to what  *)
(* session t waits for.                                                    *)
LEMMA MailTaken ==
  ASSUME WebInv, queue # <<>>, NEW t \in Sessions
  PROVE  /\ mail \in Mails /\ Tail(queue) \in Seq(Mails)
         /\ Single(Tail(queue), MailsOf(t))
         /\ Some(Tail(queue), MailsOf(t)) <=> Some(queue, MailsOf(t)) /\ t # mail.session
         /\ stage[mail.session] = "waiting" /\ ~Some(items, LiveOf(mail.session))
<1>1. queue \in Seq(Mails) /\ \A u \in Sessions : Single(queue, MailsOf(u))
  BY DEF WebInv, TypeOK, WaitsForOne
<1>2. /\ Tail(queue) \in Seq(Mails) /\ Head(queue) \in Mails
      /\ Single(Tail(queue), MailsOf(t))
      /\ Some(Tail(queue), MailsOf(t)) <=> Some(queue, MailsOf(t)) /\ Head(queue) \notin MailsOf(t)
  BY <1>1, TailEntries
<1>3. mail.session \in Sessions /\ mail \in MailsOf(mail.session)
  BY <1>2, Kinds DEF mail
<1>4. Some(queue, MailsOf(mail.session))
  BY <1>1, <1>3, TailEntries DEF mail
<1> QED BY <1>2, <1>3, <1>4, Kinds DEF mail, WebInv, WaitsForOne

LEMMA AnswerPosted ==
  ASSUME NEW q \in Seq(Mails), NEW s \in Sessions, NEW t \in Sessions,
         Single(q, MailsOf(t)), s = t => ~Some(q, MailsOf(t))
  PROVE  /\ Append(q, Answer(s)) \in Seq(Mails)
         /\ Single(Append(q, Answer(s)), MailsOf(t))
         /\ Some(Append(q, Answer(s)), MailsOf(t)) <=> Some(q, MailsOf(t)) \/ t = s
<1>1. Answer(s) \in Mails /\ (Answer(s) \in MailsOf(t) <=> t = s)
  BY Kinds DEF Answer
<1> HIDE DEF Answer
<1> QED BY <1>1, AppendEntries

LEMMA ItemMade ==
  ASSUME WebInv, NEW it \in Items, it.state # "gone", NEW t \in Sessions,
         it.session = t => ~Some(items, LiveOf(t))
  PROVE  /\ Append(items, it) \in Seq(Items)
         /\ Single(Append(items, it), LiveOf(t))
         /\ Some(Append(items, it), LiveOf(t)) <=> Some(items, LiveOf(t)) \/ t = it.session
<1>1. /\ items \in Seq(Items) /\ Single(items, LiveOf(t))
      /\ it \in LiveOf(t) <=> t = it.session
  BY Kinds DEF WebInv, TypeOK, WaitsForOne
<1> QED BY <1>1, AppendEntries

(* The first mail is received, and what its session waits for is now       *)
(* another mail or an item.                                                *)
LEMMA PassedOn ==
  ASSUME WebInv, queue # <<>>, NEW s, s = mail.session,
         queue' \in Seq(Mails), items' \in Seq(Items),
         ceiPool_' \subseteq DOMAIN items', \A i \in ceiPool_' : items'[i].state # "gone",
         UNCHANGED <<sessionVars, programFound>>,
         threadAlive' \in BOOLEAN, threadAlive' => threadAlive,
         \A t \in Sessions :
           /\ Single(queue', MailsOf(t)) /\ Single(items', LiveOf(t))
           /\ t # s => (Some(queue', MailsOf(t)) <=> Some(queue, MailsOf(t)))
           /\ t # s => (Some(items', LiveOf(t)) <=> Some(items, LiveOf(t)))
           /\ t = s => (Some(queue', MailsOf(t)) <=> ~Some(items', LiveOf(t)))
  PROVE  WebInv'
<1>1. TypeOK'
  BY DEF WebInv, TypeOK, Ids, sessionVars
<1>2. ASSUME NEW t \in Sessions PROVE WaitsForOne(t)' /\ Counted(t)'
  <2>1. MailsOf(t)' = MailsOf(t) /\ LiveOf(t)' = LiveOf(t)
    BY DEF MailsOf, LiveOf
  <2>2. t = s => stage[t] = "waiting"
    BY MailTaken
  <2>3. /\ Single(queue, MailsOf(t))' /\ Single(items, LiveOf(t))'
        /\ Some(queue, MailsOf(t))' <=> Some(queue', MailsOf(t))
        /\ Some(items, LiveOf(t))' <=> Some(items', LiveOf(t))
    BY <2>1 DEF Single, Some
  <2>4. WaitsForOne(t)'
    BY <2>2, <2>3 DEF WebInv, WaitsForOne, sessionVars
  <2>5. Counted(t)'
    BY DEF WebInv, Counted, sessionVars
  <2> QED BY <2>4, <2>5
<1> QED BY <1>1, <1>2 DEF WebInv, PoolIsLive

LEMMA RefuseStep == ASSUME WebInv, threadAlive, Refuse PROVE WebInv'
<1> DEFINE s == mail.session
<1>1. /\ queue # <<>> /\ queue' = Append(Tail(queue), Answer(s))
      /\ UNCHANGED <<sessionVars, items, ceiPool_, programFound, threadAlive>>
  BY DEF Refuse, Takes, itemVars
<1>2. s \in Sessions
  BY <1>1, Kinds, MailTaken DEF mail, WebInv, TypeOK
<1>3. ASSUME NEW t \in Sessions
      PROVE  /\ queue' \in Seq(Mails) /\ Single(queue', MailsOf(t))
             /\ Some(queue', MailsOf(t)) <=> (Some(queue, MailsOf(t)) /\ t # s) \/ t = s
  BY <1>1, <1>2, MailTaken, AnswerPosted
<1>4. ~Some(items, LiveOf(s))
  BY <1>1, <1>2, MailTaken
<1> HIDE DEF s
<1>5. s = mail.session
  BY DEF s
<1> QED BY <1>1, <1>2, <1>3, <1>4, <1>5, PassedOn DEF WebInv, TypeOK, PoolIsLive, WaitsForOne, Ids

LEMMA StartStep ==
  ASSUME WebInv, threadAlive, Takes("cmd"), NEW state \in {"running", "leaked"},
         CreateCEI(state), queue' = Tail(queue), UNCHANGED <<sessionVars, programFound>>,
         threadAlive' \in BOOLEAN
  PROVE  WebInv'
<1> DEFINE s == mail.session
           it == Item(s, mail.cmd, state)
<1>1. /\ queue # <<>> /\ mail.to = "cmd" /\ items' = Append(items, it)
      /\ ceiPool_' = ceiPool_ \cup {Len(items) + 1}
      /\ items \in Seq(Items) /\ queue \in Seq(Mails) /\ ceiPool_ \subseteq DOMAIN items
  BY DEF Takes, mail, CreateCEI, WebInv, TypeOK, Ids
<1>2. mail \in Mails
  BY <1>1 DEF mail
<1>3. s \in Sessions /\ it \in Items /\ it.session = s /\ it.state # "gone"
  BY <1>1, <1>2, Kinds DEF Item, Items
<1>4. ~Some(items, LiveOf(s))
  BY <1>1, <1>3, MailTaken
<1>5. s = mail.session
  OBVIOUS
<1> HIDE DEF s, it
<1>6. ASSUME NEW t \in Sessions
      PROVE  /\ queue' \in Seq(Mails) /\ Single(queue', MailsOf(t))
             /\ Some(queue', MailsOf(t)) <=> Some(queue, MailsOf(t)) /\ t # s
             /\ items' \in Seq(Items) /\ Single(items', LiveOf(t))
             /\ Some(items', LiveOf(t)) <=> Some(items, LiveOf(t)) \/ t = s
  BY <1>1, <1>3, <1>4, <1>5, MailTaken, ItemMade
<1>7. ASSUME NEW i \in ceiPool_' PROVE i \in DOMAIN items' /\ items'[i].state # "gone"
  <2>1. CASE i = Len(items) + 1
    BY <1>1, <1>3, <2>1
  <2>2. CASE i \in ceiPool_
    BY <1>1, <2>2 DEF WebInv, PoolIsLive
  <2> QED BY <1>1, <2>1, <2>2
<1> QED BY <1>1, <1>3, <1>5, <1>6, <1>7, PassedOn

LEMMA RespondStep == ASSUME WebInv, threadAlive, Respond PROVE WebInv'
<1> DEFINE s == mail.session
<1>1. /\ queue # <<>> /\ queue \in Seq(Mails) /\ queue' = Tail(queue)
      /\ stage \in [Sessions -> {"none", "reading", "waiting", "writing", "gone"}]
      /\ stage' = [stage EXCEPT ![s] = "writing"]
      /\ asked \in [Sessions -> 0..MaxRequests]
      /\ responses \in [Sessions -> 0..MaxRequests]
      /\ responses' = [responses EXCEPT ![s] = @ + 1]
      /\ UNCHANGED <<asked, items, ceiPool_, programFound, threadAlive>>
  BY DEF Respond, Takes, Send, Become, itemVars, WebInv, TypeOK
<1>2. s \in Sessions
  BY <1>1, Kinds DEF mail
<1>3. s = mail.session
  OBVIOUS
<1> HIDE DEF s
<1>4. /\ stage[s] = "waiting" /\ ~Some(items, LiveOf(s))
      /\ responses[s] + 1 = asked[s]
  BY <1>1, <1>2, <1>3, MailTaken DEF WebInv, Counted
<1>5. TypeOK'
  BY <1>1, <1>2, <1>4, WebControlAssumption DEF WebInv, TypeOK, Ids
<1>6. ASSUME NEW t \in Sessions PROVE WaitsForOne(t)' /\ Counted(t)'
  <2>1. /\ MailsOf(t)' = MailsOf(t) /\ LiveOf(t)' = LiveOf(t)
    BY DEF MailsOf, LiveOf
  <2>2. /\ Single(queue, MailsOf(t))' /\ Single(items, LiveOf(t))'
        /\ Some(queue, MailsOf(t))' <=> Some(queue, MailsOf(t)) /\ t # s
        /\ Some(items, LiveOf(t))' <=> Some(items, LiveOf(t))
    BY <1>1, <1>3, <2>1, MailTaken DEF Single, Some, WebInv, WaitsForOne
  <2>3. CASE t = s
    BY <1>1, <1>2, <1>4, <2>2, <2>3 DEF WebInv, WaitsForOne, Counted
  <2>4. CASE t # s
    BY <1>1, <1>2, <2>2, <2>4 DEF WebInv, WaitsForOne, Counted
  <2> QED BY <2>3, <2>4
<1> QED BY <1>1, <1>5, <1>6 DEF WebInv, PoolIsLive

-----------------------------------------------------------------------------
(* An item's program ends, and its session waits for the answer.           *)
LEMMA OutputEndsStep ==
  ASSUME WebInv, threadAlive, NEW i \in Ids, OutputEnds(i)
  PROVE  WebInv'
<1> DEFINE s == items[i].session
           ended == [items[i] EXCEPT !.state = "gone"]
<1>1. /\ items \in Seq(Items) /\ queue \in Seq(Mails) /\ ceiPool_ \subseteq DOMAIN items
      /\ i \in DOMAIN items /\ items[i] \in Items /\ items[i].state = "running"
      /\ items' = [items EXCEPT ![i] = ended]
      /\ ceiPool_' = {j \in ceiPool_ \ {i} : items[j].state # "gone"}
      /\ queue' = Append(queue, Answer(s))
      /\ UNCHANGED <<sessionVars, programFound, threadAlive>>
  BY DEF OutputEnds, RemoveCEI, WebInv, TypeOK, Ids
<1>2. s \in Sessions /\ ended \in Items /\ ended.state = "gone"
  BY <1>1 DEF Items
<1>3. /\ DOMAIN items' = DOMAIN items /\ items' \in Seq(Items)
      /\ items'[i] = ended /\ \A j \in DOMAIN items \ {i} : items'[j] = items[j]
  BY <1>1, <1>2
<1>4. items[i] \in LiveOf(s) /\ \A t \in Sessions : ended \notin LiveOf(t)
  BY <1>1, <1>2, Kinds
<1>5. s = items[i].session /\ \A t \in Sessions : items[i] \in LiveOf(t) => t = s
  BY <1>1, Kinds
<1> HIDE DEF s, ended
<1>6. Some(items, LiveOf(s)) /\ Single(items, LiveOf(s)) /\ ~Some(queue, MailsOf(s))
  BY <1>1, <1>2, <1>4 DEF Some, WebInv, WaitsForOne
<1>7. ASSUME NEW t \in Sessions
      PROVE  /\ Single(items', LiveOf(t))
             /\ Some(items', LiveOf(t)) <=> Some(items, LiveOf(t)) /\ t # s
  <2>1. Single(items, LiveOf(t))
    BY DEF WebInv, WaitsForOne
  <2>2. Single(items', LiveOf(t))
    BY <1>3, <1>4, <2>1 DEF Single
  <2>3. CASE t = s
    BY <1>1, <1>3, <1>4, <2>1, <2>3 DEF Some, Single
  <2>4. CASE t # s
    <3>1. items[i] \notin LiveOf(t) /\ items'[i] \notin LiveOf(t)
      BY <1>3, <1>4, <1>5, <2>4
    <3>2. \A j \in DOMAIN items : items'[j] \in LiveOf(t) <=> items[j] \in LiveOf(t)
      BY <1>3, <3>1
    <3>3. Some(items', LiveOf(t)) <=> Some(items, LiveOf(t))
      BY <1>3, <3>2 DEF Some
    <3> QED BY <2>2, <2>4, <3>3
  <2> QED BY <2>2, <2>3, <2>4
<1>8. ASSUME NEW t \in Sessions
      PROVE  /\ queue' \in Seq(Mails) /\ Single(queue', MailsOf(t))
             /\ Some(queue', MailsOf(t)) <=> Some(queue, MailsOf(t)) \/ t = s
  <2>1. Single(queue, MailsOf(t))
    BY DEF WebInv, WaitsForOne
  <2> QED BY <1>1, <1>2, <1>6, <2>1, AnswerPosted
<1>9. TypeOK'
  BY <1>1, <1>2, <1>3, <1>8 DEF WebInv, TypeOK, Ids, sessionVars
<1>10. ASSUME NEW t \in Sessions PROVE WaitsForOne(t)' /\ Counted(t)'
  <2>1. MailsOf(t)' = MailsOf(t) /\ LiveOf(t)' = LiveOf(t)
    BY DEF MailsOf, LiveOf
  <2>2. /\ Single(queue, MailsOf(t))' /\ Single(items, LiveOf(t))'
        /\ Some(queue, MailsOf(t))' <=> Some(queue, MailsOf(t)) \/ t = s
        /\ Some(items, LiveOf(t))' <=> Some(items, LiveOf(t)) /\ t # s
    BY <1>7, <1>8, <2>1 DEF Single, Some
  <2> QED BY <1>1, <1>6, <2>2 DEF WebInv, WaitsForOne, Counted, sessionVars
<1> QED BY <1>1, <1>3, <1>9, <1>10 DEF WebInv, PoolIsLive

(* The end of the error output changes nothing that anyone waits for.      *)
LEMMA ErrorOutputEndsStep ==
  ASSUME WebInv, threadAlive, NEW i \in Ids, ErrorOutputEnds(i)
  PROVE  WebInv'
<1> DEFINE it == [items[i] EXCEPT !.errRead = FALSE]
<1>1. /\ items \in Seq(Items) /\ ceiPool_ \subseteq DOMAIN items
      /\ i \in DOMAIN items /\ items[i] \in Items
      /\ items' = [items EXCEPT ![i] = it]
      /\ UNCHANGED <<sessionVars, queue, ceiPool_, programFound>>
  BY DEF ErrorOutputEnds, WebInv, TypeOK, Ids
<1>0. threadAlive' \in BOOLEAN
  BY Zenon DEF ErrorOutputEnds, WebInv, TypeOK
<1>2. it \in Items /\ it.state = items[i].state /\ it.session = items[i].session
  BY <1>1 DEF Items
<1>3. /\ DOMAIN items' = DOMAIN items /\ items' \in Seq(Items)
      /\ items'[i] = it /\ \A j \in DOMAIN items \ {i} : items'[j] = items[j]
  BY <1>1, <1>2
<1>4. \A t \in Sessions : it \in LiveOf(t) <=> items[i] \in LiveOf(t)
  BY <1>1, <1>2, Kinds
<1> HIDE DEF it
<1>5. TypeOK'
  BY <1>0, <1>1, <1>3 DEF WebInv, TypeOK, Ids, sessionVars
<1>6. ASSUME NEW t \in Sessions PROVE WaitsForOne(t)' /\ Counted(t)'
  <2>1. MailsOf(t)' = MailsOf(t) /\ LiveOf(t)' = LiveOf(t)
    BY DEF MailsOf, LiveOf
  <2>2. \A j \in DOMAIN items : items'[j] \in LiveOf(t) <=> items[j] \in LiveOf(t)
    BY <1>3, <1>4
  <2>3. /\ Single(items, LiveOf(t))' <=> Single(items, LiveOf(t))
        /\ Some(items, LiveOf(t))' <=> Some(items, LiveOf(t))
        /\ Single(queue, MailsOf(t))' <=> Single(queue, MailsOf(t))
        /\ Some(queue, MailsOf(t))' <=> Some(queue, MailsOf(t))
    BY <1>1, <1>3, <2>1, <2>2 DEF Single, Some
  <2> QED BY <1>1, <2>3 DEF WebInv, WaitsForOne, Counted, sessionVars
<1> QED BY <1>1, <1>2, <1>3, <1>5, <1>6 DEF WebInv, PoolIsLive

LEMMA StepWebInv == WebInv /\ [Next]_vars => WebInv'
<1> SUFFICES ASSUME WebInv, [Next]_vars PROVE WebInv'
  OBVIOUS
<1>1. CASE UNCHANGED vars
  <2>1. TypeOK'
    BY <1>1 DEF WebInv, TypeOK, Ids, vars, sessionVars, itemVars
  <2>2. ASSUME NEW t \in Sessions PROVE WaitsForOne(t)' /\ Counted(t)'
    BY <1>1 DEF WebInv, WaitsForOne, Counted, vars, sessionVars, itemVars
  <2> QED BY <1>1, <2>1, <2>2 DEF WebInv, PoolIsLive, vars, itemVars
<1>2. CASE Next
  <2>1. threadAlive
    BY <1>2 DEF Next
  <2>2. ASSUME NEW s \in Sessions, Accept(s) \/ ReadEnds(s) \/ OnRead(s) \/ OnWrite(s)
        PROVE  WebInv'
    BY <2>1, <2>2, AcceptStep, ReadEndsStep, OnReadStep, OnWriteStep
  <2>3. CASE Refuse \/ Respond
    BY <2>1, <2>3, RefuseStep, RespondStep
  <2>4. CASE StartFindsNothing \/ StartThrows \/ Start
    BY <2>1, <2>4, StartStep DEF StartFindsNothing, StartThrows, Start
  <2>5. ASSUME NEW i \in Ids, OutputEnds(i) \/ ErrorOutputEnds(i) PROVE WebInv'
    BY <2>1, <2>5, OutputEndsStep, ErrorOutputEndsStep
  <2> QED BY <1>2, <2>2, <2>3, <2>4, <2>5 DEF Next, ReceiveMail
<1> QED BY <1>1, <1>2

-----------------------------------------------------------------------------
(* What a session waits for, one by one.                                   *)
LEMMA AwaitedAre ==
  ASSUME WebInv, NEW s \in Sessions, NEW p
  PROVE  p \in Awaited(s) <=>
           \/ \E j \in DOMAIN queue : queue[j] \in MailsOf(s) /\ p = <<"mail", j>>
           \/ \E j \in DOMAIN items : items[j] \in LiveOf(s) /\ p = <<"item", j>>
<1>1. /\ \A j \in DOMAIN queue : queue[j] \in MailsOf(s) <=> queue[j].session = s
      /\ \A j \in DOMAIN items :
           items[j] \in LiveOf(s) <=> items[j].session = s /\ items[j].state # "gone"
  BY Kinds DEF WebInv, TypeOK
<1> QED BY <1>1 DEF Awaited, Ids

(* However many connections there are: one answer is under way for each    *)
(* session that waits, and none for any other.                             *)
THEOREM OneAnswerEach == Spec => []OneAnswerUnderWay
<1>1. WebInv => OneAnswerUnderWay
  <2> SUFFICES ASSUME WebInv PROVE OneAnswerUnderWay
    OBVIOUS
  <2>1. ASSUME NEW s \in Sessions
        PROVE  Cardinality(Awaited(s)) = IF stage[s] = "waiting" THEN 1 ELSE 0
    <3>1. WaitsForOne(s)
      BY DEF WebInv
    <3>2. Awaited(s) # {} <=> stage[s] = "waiting"
      BY <3>1, AwaitedAre DEF WaitsForOne, Some
    <3>3. \A p \in Awaited(s), q \in Awaited(s) : p = q
      BY <3>1, AwaitedAre DEF WaitsForOne, Some, Single
    <3>4. CASE Awaited(s) = {}
      BY <3>2, <3>4, FS_EmptySet
    <3>5. CASE Awaited(s) # {}
      <4>1. PICK p \in Awaited(s) : TRUE
        BY <3>5
      <4>2. Awaited(s) = {p}
        BY <3>3, <4>1
      <4> QED BY <3>2, <3>5, <4>2, FS_Singleton
    <3> QED BY <3>4, <3>5
  <2> QED BY <2>1 DEF WebInv, Counted, OneAnswerUnderWay
<1> QED BY <1>1, InitWebInv, StepWebInv, PTL DEF Spec

(* The pool holds items of waiting sessions, one each at most.             *)
THEOREM PoolBounded == Spec => []PoolIsBounded
<1>1. WebInv => PoolIsBounded
  <2> SUFFICES ASSUME WebInv PROVE PoolIsBounded
    OBVIOUS
  <2>1. ASSUME NEW i \in ceiPool_
        PROVE  /\ i \in DOMAIN items /\ items[i].session \in Sessions
               /\ items[i] \in LiveOf(items[i].session)
               /\ stage[items[i].session] = "waiting"
    <3>1. i \in DOMAIN items /\ items[i] \in Items /\ items[i].state # "gone"
      BY DEF WebInv, TypeOK, Ids, PoolIsLive
    <3>2. items[i].session \in Sessions /\ items[i] \in LiveOf(items[i].session)
      BY <3>1 DEF Items, LiveOf
    <3> QED BY <3>1, <3>2 DEF WebInv, WaitsForOne, Some
  <2>2. ASSUME NEW i \in ceiPool_, NEW j \in ceiPool_, items[i].session = items[j].session
        PROVE  i = j
    <3>1. Single(items, LiveOf(items[i].session))
      BY <2>1 DEF WebInv, WaitsForOne
    <3> QED BY <2>1, <2>2, <3>1 DEF Single
  <2> QED BY <2>1, <2>2 DEF PoolIsBounded
<1> QED BY <1>1, InitWebInv, StepWebInv, PTL DEF Spec

-----------------------------------------------------------------------------
(* The sessions as their browsers see them.                                *)
LEMMA LinkMoves ==
  ASSUME TypeOK, NEW s \in Sessions, NEW st, Become(s, st)
  PROVE  \A t \in Sessions : Link(t)' = IF t # s THEN Link(t)
                                        ELSE CASE st = "none" -> "none"
                                               [] st = "gone" -> "over"
                                               [] OTHER       -> "open"
<1>1. \A t \in Sessions : stage'[t] = IF t = s THEN st ELSE stage[t]
  BY DEF TypeOK, Become
<1> QED BY <1>1 DEF Link

(* A session that begins a response to what it was asked for.              *)
LEMMA SendIsAnswer ==
  ASSUME WebInv, NEW s \in Sessions, stage[s] = "waiting", Send(s), UNCHANGED asked
  PROVE  Exchange!Answer(s)
<1>1. /\ asked \in [Sessions -> 0..MaxRequests] /\ responses \in [Sessions -> 0..MaxRequests]
      /\ TypeOK /\ MaxRequests \in Nat
  BY WebControlAssumption DEF WebInv, TypeOK
<1>2. Become(s, "writing") /\ responses' = [responses EXCEPT ![s] = @ + 1]
  BY DEF Send
<1>3. responses[s] = asked[s] - 1
  BY DEF WebInv, Counted
<1>4. responses[s] < asked[s]
  BY <1>1, <1>3
<1>5. \A t \in Sessions : Link(t)' = Link(t)
  BY <1>1, <1>2, LinkMoves DEF Link
<1>6. [t \in Sessions |-> Link(t)]' = [t \in Sessions |-> Link(t)]
  BY <1>5
<1>7. [t \in Sessions |-> Link(t)][s] = "open"
  BY DEF Link
<1> QED BY <1>2, <1>4, <1>6, <1>7 DEF Exchange!Answer, Exchange!Served, Exchange!Count

LEMMA OnReadExchange ==
  ASSUME WebInv, NEW s \in Sessions, threadAlive, OnRead(s)
  PROVE  Exchange!Take(s)
<1> DEFINE link == [t \in Sessions |-> Link(t)]
<1>1. Read(s)
  BY DEF OnRead, ReadAtOnce, ReadUnknown, ReadNoUri, ReadCmd
<1>2. TypeOK /\ asked[s] = responses[s] /\ stage[s] = "reading"
  BY <1>1, ReadCounts DEF WebInv
<1>3. asked' = [asked EXCEPT ![s] = @ + 1]
  BY <1>1 DEF Read
<1>4. link[s] = "open"
  BY <1>2 DEF Link
<1>5. ASSUME NEW st \in {"writing", "waiting"}, Become(s, st) PROVE link' = link
  <2>1. \A t \in Sessions : Link(t)' = Link(t)
    BY <1>2, <1>5, LinkMoves DEF Link
  <2> QED BY <2>1
<1>6. ASSUME Become(s, "gone") PROVE link' = [link EXCEPT ![s] = "over"]
  <2>1. \A t \in Sessions : Link(t)' = IF t = s THEN "over" ELSE Link(t)
    BY <1>2, <1>6, LinkMoves
  <2> QED BY <2>1
<1>7. CASE ReadAtOnce(s)
  <2>1. link' = link /\ responses' = [responses EXCEPT ![s] = @ + 1]
    BY <1>5, <1>7 DEF ReadAtOnce, Send
  <2> QED BY <1>2, <1>3, <1>4, <2>1 DEF Exchange!Take, Exchange!Served, Exchange!Count
<1>8. CASE ReadUnknown(s)
  <2>1. link' = [link EXCEPT ![s] = "over"] /\ responses' = responses
    BY <1>6, <1>8 DEF ReadUnknown
  <2> QED BY <1>2, <1>3, <1>4, <2>1 DEF Exchange!Take, Exchange!Served, Exchange!SetLink
<1>9. CASE ReadNoUri(s) \/ \E cmd \in Cmds :
             \E good \in SUBSET (CmdLookupTable[cmd] \cap Checked[cmd]) : ReadCmd(s, cmd, good)
  <2>1. responses' = responses
    BY <1>9 DEF ReadNoUri, ReadCmd
  <2>2. link' = link
    <3>1. CASE ReadNoUri(s)
      BY <3>1 DEF ReadNoUri, Link
    <3>2. CASE Become(s, "waiting")
      BY <1>5, <3>2
    <3> QED BY <1>9, <3>1, <3>2 DEF ReadCmd
  <2> QED BY <1>2, <1>3, <1>4, <2>1, <2>2 DEF Exchange!Take, Exchange!Served
<1> QED BY <1>7, <1>8, <1>9 DEF OnRead

LEMMA SessionExchange ==
  ASSUME WebInv, NEW s \in Sessions, threadAlive, Accept(s) \/ ReadEnds(s) \/ OnWrite(s)
  PROVE  Exchange!Connect(s) \/ Exchange!End(s) \/ UNCHANGED Exchange!exchangeVars
<1> DEFINE link == [t \in Sessions |-> Link(t)]
<1>1. TypeOK /\ UNCHANGED <<asked, responses>>
  BY DEF WebInv, Accept, ReadEnds, OnWrite
<1>2. stage[s] \in {"none", "reading", "writing"}
  BY DEF Accept, ReadEnds, OnWrite
<1>3. asked[s] = responses[s]
  BY <1>2 DEF WebInv, Counted
<1>4. ASSUME NEW st \in {"reading", "gone"}, Become(s, st)
      PROVE  link' = [link EXCEPT ![s] = IF st = "gone" THEN "over" ELSE "open"]
  <2>1. \A t \in Sessions : Link(t)' = IF t # s THEN Link(t)
                                        ELSE IF st = "gone" THEN "over" ELSE "open"
    BY <1>1, <1>4, LinkMoves
  <2> QED BY <2>1
<1>5. CASE Accept(s)
  <2>1. link[s] = "none" /\ link' = [link EXCEPT ![s] = "open"]
    BY <1>4, <1>5 DEF Accept, Link
  <2> QED BY <1>1, <2>1 DEF Exchange!Connect, Exchange!SetLink
<1>6. CASE ReadEnds(s) \/ OnWrite(s)
  <2>1. link[s] = "open"
    BY <1>6 DEF ReadEnds, OnWrite, Link
  <2>2. CASE Become(s, "gone")
    BY <1>1, <1>3, <1>4, <2>1, <2>2 DEF Exchange!End, Exchange!Served, Exchange!SetLink
  <2>3. CASE Become(s, "reading")
    <3>1. link' = [link EXCEPT ![s] = "open"]
      BY <1>4, <2>3
    <3>2. link' = link
      BY <2>1, <3>1
    <3> QED BY <1>1, <3>2 DEF Exchange!exchangeVars
  <2> QED BY <1>6, <2>2, <2>3 DEF ReadEnds, OnWrite
<1> QED BY <1>5, <1>6

LEMMA NextExchange ==
  WebInv /\ [Next]_vars => [Exchange!ExchangeNext]_(Exchange!exchangeVars)
<1> SUFFICES ASSUME WebInv, [Next]_vars
             PROVE  [Exchange!ExchangeNext]_(Exchange!exchangeVars)
  OBVIOUS
<1>1. CASE UNCHANGED sessionVars
  BY <1>1 DEF sessionVars, Link, Exchange!exchangeVars
<1>2. CASE Next
  <2>1. threadAlive
    BY <1>2 DEF Next
  <2>2. ASSUME NEW s \in Sessions, Accept(s) \/ ReadEnds(s) \/ OnWrite(s)
        PROVE  [Exchange!ExchangeNext]_(Exchange!exchangeVars)
    BY <2>1, <2>2, SessionExchange DEF Exchange!ExchangeNext
  <2>3. ASSUME NEW s \in Sessions, OnRead(s) PROVE Exchange!ExchangeNext
    BY <2>1, <2>3, OnReadExchange DEF Exchange!ExchangeNext
  <2>4. CASE Respond
    <3>1. /\ queue # <<>> /\ queue \in Seq(Mails) /\ mail = queue[1] /\ 1 \in DOMAIN queue
      BY <2>4 DEF WebInv, TypeOK, Respond, Takes, mail
    <3>2. mail.session \in Sessions /\ mail \in MailsOf(mail.session)
      BY <3>1, Kinds
    <3>3. stage[mail.session] = "waiting"
      BY <3>1, <3>2 DEF WebInv, WaitsForOne, Some
    <3>4. Send(mail.session) /\ UNCHANGED asked
      BY <2>4 DEF Respond
    <3> QED BY <3>2, <3>3, <3>4, SendIsAnswer DEF Exchange!ExchangeNext
  <2>5. ASSUME Refuse \/ StartFindsNothing \/ StartThrows \/ Start
               \/ \E i \in Ids : OutputEnds(i) \/ ErrorOutputEnds(i)
        PROVE  UNCHANGED sessionVars
    BY <2>5 DEF Refuse, StartFindsNothing, StartThrows, Start, OutputEnds,
                ErrorOutputEnds, sessionVars
  <2> QED BY <1>1, <1>2, <2>2, <2>3, <2>4, <2>5 DEF Next, ReceiveMail
<1> QED BY <1>1, <1>2 DEF vars, sessionVars

(* The service implements RequestResponse: every session is served one     *)
(* request after the other, and answered once for each, whatever programs  *)
(* run for whichever sessions.                                             *)
THEOREM SessionsExchange == Spec => ExchangeSpec
<1>1. Init => Exchange!ExchangeInit
  BY DEF Init, Link, Exchange!ExchangeInit
<1> QED BY <1>1, InitWebInv, StepWebInv, NextExchange, PTL
        DEF Spec, ExchangeSpec, Exchange!ExchangeSpec
=============================================================================
