------------------------ MODULE CommandServiceProofs ------------------------
(***************************************************************************)
(* Theorems about CommandService, for every set of endpoints and commands, *)
(* every number of datagrams and every size of the parser's storage.       *)
(***************************************************************************)
EXTENDS CommandService, QueueLemmas

USE DEF Datagram

-----------------------------------------------------------------------------
(* The inductive invariant.                                                *)
DatagramRecord == [from : Hosts, content : Content]
ReplyRecord    == [to : Hosts, re : Datagram]
Completions == {h \in Handlers : h.do \in {"process_message", "ignore"}}
Concerns(d) == {h \in Handlers : h.re = d}
Answers(d)  == {r \in ReplyRecord : r.re = d}

(* No more datagrams than the bound.                                       *)
GotBounded == Len(got) <= MaxDatagrams

(* The endpoint is somebody's as soon as anything was received.            *)
EndpointIsSet == got # <<>> => remote_endpoint_ \in Hosts

(* One receive is pending, or its completion waits.                        *)
OneReceive ==
  /\ Single(queue, Completions)
  /\ armed <=> ~Some(queue, Completions)

(* Every datagram received is in exactly one place, and once; a datagram   *)
(* that was not received is nowhere.                                       *)
OnePlace(d) ==
  /\ Single(queue, Concerns(d)) /\ Single(sent, Answers(d))
  /\ d <= Len(got) <=> \/ Some(queue, Concerns(d)) \/ Some(sent, Answers(d))
                       \/ d \in serial \/ d \in ignored
  /\ Some(queue, Concerns(d)) => ~Some(sent, Answers(d)) /\ d \notin serial /\ d \notin ignored
  /\ Some(sent, Answers(d)) => d \notin serial /\ d \notin ignored
  /\ d \in serial => d \notin ignored
Places == \A d \in Datagram : OnePlace(d)

IInv == TypeOK /\ GotBounded /\ EndpointIsSet /\ OneReceive /\ Places

LEMMA InitIInv == Init => IInv
<1> SUFFICES ASSUME Init PROVE IInv
  OBVIOUS
<1>1. TypeOK
  BY StorageSizeAssumption DEF Init, TypeOK, NothingKnown
<1>2. \A R : Single(queue, R) /\ ~Some(queue, R) /\ Single(sent, R) /\ ~Some(sent, R)
  BY DEF Init, Single, Some
<1>3. Len(got) = 0
  BY DEF Init
<1>4. Places
  BY <1>2, <1>3 DEF Init, Places, OnePlace
<1> QED BY <1>1, <1>2, <1>3, <1>4, MaxDatagramsAssumption
       DEF Init, IInv, GotBounded, EndpointIsSet, OneReceive

-----------------------------------------------------------------------------
(* The first handler of the queue.                                         *)
LEMMA HeadHandler ==
  ASSUME IInv, NEW do, Runs(do), queue' = Tail(queue)
  PROVE  /\ queue' \in Seq(Handlers) /\ Head(queue) \in Handlers
         /\ Head(queue).do = do
         /\ Single(queue', Completions)
         /\ Some(queue', Completions) <=> Some(queue, Completions) /\ Head(queue) \notin Completions
         /\ Head(queue) \in Completions => ~armed
         /\ \A d \in Datagram :
              /\ Single(queue', Concerns(d))
              /\ Some(queue', Concerns(d)) <=> Some(queue, Concerns(d)) /\ d # current
         /\ do # "ignore" => /\ current \in Datagram /\ current <= Len(got)
                             /\ Some(queue, Concerns(current))
                             /\ remote_endpoint_ \in Hosts
<1>1. queue \in Seq(Handlers) /\ queue # <<>> /\ Head(queue).do = do
  BY DEF IInv, TypeOK, Runs
<1>2. /\ queue' \in Seq(Handlers) /\ Head(queue) \in Handlers
      /\ Single(queue', Completions)
      /\ Some(queue', Completions) <=> Some(queue, Completions) /\ Head(queue) \notin Completions
      /\ Head(queue) \in Completions => Some(queue, Completions)
  BY <1>1, TailEntries DEF IInv, OneReceive
<1>3. ASSUME NEW d \in Datagram
      PROVE  /\ Single(queue', Concerns(d))
             /\ Some(queue', Concerns(d)) <=> Some(queue, Concerns(d)) /\ d # current
             /\ d = current => Some(queue, Concerns(d))
  <2>1. Head(queue) \in Concerns(d) <=> d = current
    BY <1>2 DEF Concerns, current
  <2> QED BY <1>1, <2>1, TailEntries DEF IInv, Places, OnePlace
<1>4. ASSUME do # "ignore"
      PROVE  /\ current \in Datagram /\ current <= Len(got)
             /\ Some(queue, Concerns(current)) /\ remote_endpoint_ \in Hosts
  <2>1. current \in Datagram
    BY <1>1, <1>2, <1>4 DEF Handlers, Received, Answered, ReceiveError, current
  <2>2. current <= Len(got) /\ Some(queue, Concerns(current))
    BY <1>3, <2>1 DEF IInv, Places, OnePlace
  <2>3. got # <<>>
    BY <2>1, <2>2
  <2> QED BY <2>1, <2>2, <2>3 DEF IInv, EndpointIsSet
<1> QED BY <1>1, <1>2, <1>3, <1>4 DEF IInv, OneReceive

(* The one send of an answer.                                              *)
LEMMA SendReply ==
  ASSUME IInv, current \in Datagram, remote_endpoint_ \in Hosts,
         Some(queue, Concerns(current)),
         sent' = Append(sent, Reply(current))
  PROVE  /\ sent' \in Seq(ReplyRecord)
         /\ \A d \in Datagram :
              /\ Single(sent', Answers(d))
              /\ Some(sent', Answers(d)) <=> Some(sent, Answers(d)) \/ d = current
<1>1. sent \in Seq(ReplyRecord) /\ Reply(current) \in ReplyRecord
  BY DEF IInv, TypeOK, ReplyRecord, Reply
<1>2. sent' \in Seq(ReplyRecord)
  BY <1>1
<1>3. ASSUME NEW d \in Datagram
      PROVE  /\ Single(sent', Answers(d))
             /\ Some(sent', Answers(d)) <=> Some(sent, Answers(d)) \/ d = current
  <2>1. Reply(current) \in Answers(d) <=> d = current
    BY <1>1 DEF Answers, Reply
  <2>2. Single(sent, Answers(d)) /\ (d = current => ~Some(sent, Answers(d)))
    BY DEF IInv, Places, OnePlace
  <2> QED BY <1>1, <2>1, <2>2, AppendEntries
<1> QED BY <1>2, <1>3

(* A handler posted behind the others.                                     *)
LEMMA PostHandler ==
  ASSUME IInv, NEW h \in Handlers, queue' = Append(queue, h),
         h \in Completions => armed,
         \A d \in Datagram : h.re = d => ~Some(queue, Concerns(d))
  PROVE  /\ queue' \in Seq(Handlers)
         /\ Single(queue', Completions)
         /\ Some(queue', Completions) <=> Some(queue, Completions) \/ h \in Completions
         /\ \A d \in Datagram :
              /\ Single(queue', Concerns(d))
              /\ Some(queue', Concerns(d)) <=> Some(queue, Concerns(d)) \/ h.re = d
<1>1. queue \in Seq(Handlers)
  BY DEF IInv, TypeOK
<1>2. /\ queue' \in Seq(Handlers) /\ Single(queue', Completions)
      /\ Some(queue', Completions) <=> Some(queue, Completions) \/ h \in Completions
  BY <1>1, AppendEntries DEF IInv, OneReceive
<1>3. ASSUME NEW d \in Datagram
      PROVE  /\ Single(queue', Concerns(d))
             /\ Some(queue', Concerns(d)) <=> Some(queue, Concerns(d)) \/ h.re = d
  <2>1. h \in Concerns(d) <=> h.re = d
    BY DEF Concerns
  <2> QED BY <1>1, <2>1, AppendEntries DEF IInv, Places, OnePlace
<1> QED BY <1>2, <1>3

-----------------------------------------------------------------------------
(* The filter's entries name the client they belong to.                    *)
LEMMA RememberDomain ==
  ASSUME NEW p \in Commands
  PROVE  /\ DOMAIN Remember(known, p) =
              IF HasClient(p) THEN DOMAIN known \cup {p.clientId} ELSE DOMAIN known
         /\ \A k \in DOMAIN known : Remember(known, p)[k] = known[k]
         /\ HasClient(p) /\ p.clientId \notin DOMAIN known =>
              Remember(known, p)[p.clientId] = Entry(p)
  BY DEF Remember

LEMMA EntryNamesClient ==
  ASSUME NEW p \in Commands PROVE Entry(p) = Package(p.clientId, p.packageId, p.cmdId)
  BY DEF Entry, CmdPackageIdentify

LEMMA RememberType ==
  ASSUME NEW p \in Commands, \A k \in DOMAIN known : known[k].clientId = k,
         known' = Remember(known, p)
  PROVE  \A k \in DOMAIN known' : known'[k].clientId = k
<1>1. Entry(p).clientId = p.clientId
  BY EntryNamesClient DEF Package
<1>2. SUFFICES ASSUME NEW k \in DOMAIN known' PROVE known'[k].clientId = k
  OBVIOUS
<1>3. CASE k \in DOMAIN known
  BY <1>3, RememberDomain
<1>4. CASE k \notin DOMAIN known
  <2>1. HasClient(p) /\ k = p.clientId
    BY <1>2, <1>4, RememberDomain
  <2> QED BY <1>1, <1>4, <2>1, RememberDomain
<1> QED BY <1>3, <1>4

-----------------------------------------------------------------------------
(* Each action preserves the inductive invariant.                          *)
LEMMA ArriveStep ==
  ASSUME IInv, NEW h \in Hosts, NEW c \in Content, Arrive(h, c)
  PROVE  IInv'
<1> DEFINE d0 == Len(got) + 1
<1>1. /\ got \in Seq(DatagramRecord) /\ Len(got) \in Nat /\ d0 \in Datagram
      /\ got' = Append(got, [from |-> h, content |-> c])
  BY MaxDatagramsAssumption DEF IInv, TypeOK, Arrive, DatagramRecord
<1>2. got' \in Seq(DatagramRecord) /\ Len(got') = d0 /\ got' # <<>>
  BY <1>1 DEF DatagramRecord
<1>3. Received(d0) \in Handlers /\ queue' = Append(queue, Received(d0))
  BY <1>1, <1>2 DEF Handlers, Arrive
<1>4. Received(d0).re = d0 /\ Received(d0) \in Completions
  BY <1>3 DEF Received, Completions
<1>5. \A d \in Datagram : Received(d0).re = d => ~Some(queue, Concerns(d))
  BY <1>1, <1>4 DEF IInv, Places, OnePlace
<1>6. /\ queue' \in Seq(Handlers)
      /\ Single(queue', Completions) /\ Some(queue', Completions)
      /\ \A d \in Datagram :
           /\ Single(queue', Concerns(d))
           /\ Some(queue', Concerns(d)) <=> Some(queue, Concerns(d)) \/ d = d0
  BY <1>3, <1>4, <1>5, PostHandler DEF Arrive
<1>7. TypeOK'
  BY <1>2, <1>6 DEF IInv, TypeOK, Arrive, DatagramRecord
<1>8. Places'
  <2>1. SUFFICES ASSUME NEW d \in Datagram PROVE OnePlace(d)'
    BY DEF Places
  <2>2. d <= Len(got') <=> d <= Len(got) \/ d = d0
    BY <1>1, <1>2
  <2>3. OnePlace(d) /\ ~(d0 <= Len(got)) /\ sent' = sent /\ serial' = serial
           /\ ignored' = ignored
    BY <1>1 DEF IInv, Places, Arrive
  <2> QED BY <1>6, <2>2, <2>3 DEF OnePlace
<1> QED BY <1>1, <1>2, <1>6, <1>7, <1>8 DEF IInv, GotBounded, EndpointIsSet, OneReceive, Arrive

LEMMA ReceiveFailsStep == ASSUME IInv, ReceiveFails PROVE IInv'
<1>1. ReceiveError \in Handlers /\ ReceiveError.re = 0 /\ ReceiveError \in Completions
  BY DEF Handlers, ReceiveError, Completions
<1>2. /\ queue' \in Seq(Handlers)
      /\ Single(queue', Completions) /\ Some(queue', Completions)
      /\ \A d \in Datagram : /\ Single(queue', Concerns(d))
                             /\ Some(queue', Concerns(d)) <=> Some(queue, Concerns(d))
  BY <1>1, PostHandler DEF ReceiveFails
<1>3. TypeOK'
  BY <1>2 DEF IInv, TypeOK, ReceiveFails
<1>4. Places'
  BY <1>2 DEF IInv, Places, OnePlace, ReceiveFails
<1> QED BY <1>2, <1>3, <1>4 DEF IInv, GotBounded, EndpointIsSet, OneReceive, ReceiveFails

LEMMA IgnoreErrorStep == ASSUME IInv, IgnoreError PROVE IInv'
<1>1. Runs("ignore") /\ queue' = Tail(queue)
  BY DEF IgnoreError
<1>2. /\ queue' \in Seq(Handlers) /\ Head(queue) \in Handlers
      /\ Head(queue).do = "ignore" /\ Single(queue', Completions)
      /\ Some(queue', Completions) <=> Some(queue, Completions) /\ Head(queue) \notin Completions
      /\ \A d \in Datagram :
           /\ Single(queue', Concerns(d))
           /\ Some(queue', Concerns(d)) <=> Some(queue, Concerns(d)) /\ d # current
  BY <1>1, HeadHandler
<1>3. Head(queue) \in Completions
  BY <1>2 DEF Completions
<1>4. ~(current \in Datagram)
  BY <1>2 DEF Handlers, Received, Answered, ReceiveError, current
<1>5. TypeOK'
  BY <1>2 DEF IInv, TypeOK, IgnoreError, NextReceive
<1>6. Places'
  BY <1>2, <1>4 DEF IInv, Places, OnePlace, IgnoreError, NextReceive
<1> QED BY <1>2, <1>3, <1>5, <1>6
       DEF IInv, GotBounded, EndpointIsSet, OneReceive, IgnoreError, NextReceive

(* A datagram that has been processed is answered at once ...              *)
LEMMA AnswerStep ==
  ASSUME IInv, Runs("process_message"), NextReceive,
         queue' = Tail(queue), sent' = Append(sent, Reply(current)),
         storage' \in 0..StorageSize, UNCHANGED <<known, serial, ignored>>
  PROVE  IInv'
<1>1. /\ queue' \in Seq(Handlers) /\ Head(queue) \in Handlers
      /\ Head(queue).do = "process_message" /\ Single(queue', Completions)
      /\ Some(queue', Completions) <=> Some(queue, Completions) /\ Head(queue) \notin Completions
      /\ \A d \in Datagram :
           /\ Single(queue', Concerns(d))
           /\ Some(queue', Concerns(d)) <=> Some(queue, Concerns(d)) /\ d # current
      /\ current \in Datagram /\ current <= Len(got) /\ Some(queue, Concerns(current))
      /\ remote_endpoint_ \in Hosts
  BY HeadHandler
<1>2. Head(queue) \in Completions
  BY <1>1 DEF Completions
<1>3. /\ sent' \in Seq(ReplyRecord)
      /\ \A d \in Datagram :
           /\ Single(sent', Answers(d))
           /\ Some(sent', Answers(d)) <=> Some(sent, Answers(d)) \/ d = current
  BY <1>1, SendReply
<1>4. TypeOK'
  BY <1>1, <1>3 DEF IInv, TypeOK, NextReceive, ReplyRecord
<1>5. Places'
  <2>1. SUFFICES ASSUME NEW d \in Datagram PROVE OnePlace(d)'
    BY DEF Places
  <2>2. OnePlace(d) /\ got' = got
    BY DEF IInv, Places, NextReceive
  <2> QED BY <1>1, <1>3, <2>1, <2>2 DEF OnePlace
<1> QED BY <1>1, <1>2, <1>4, <1>5 DEF IInv, GotBounded, EndpointIsSet, OneReceive, NextReceive

(* ... or goes to the serial controller, or is dropped.                    *)
LEMMA ProcessCommandStep == ASSUME IInv, ProcessCommand PROVE IInv'
<1>1. /\ Runs("process_message") /\ queue' = Tail(queue) /\ NextReceive
      /\ sent' = sent /\ storage > 0 /\ storage' = storage - 1
      /\ got[current].content # NotACommand
      /\ known' = Remember(known, got[current].content)
  BY DEF ProcessCommand
<1>2. /\ queue' \in Seq(Handlers) /\ Head(queue) \in Handlers
      /\ Head(queue).do = "process_message" /\ Single(queue', Completions)
      /\ Some(queue', Completions) <=> Some(queue, Completions) /\ Head(queue) \notin Completions
      /\ \A d \in Datagram :
           /\ Single(queue', Concerns(d))
           /\ Some(queue', Concerns(d)) <=> Some(queue, Concerns(d)) /\ d # current
      /\ current \in Datagram /\ current <= Len(got) /\ Some(queue, Concerns(current))
  BY <1>1, HeadHandler
<1>3. Head(queue) \in Completions
  BY <1>2 DEF Completions
<1>4. \/ serial' = serial \cup {current} /\ ignored' = ignored
      \/ serial' = serial /\ ignored' = ignored \cup {current}
  BY DEF ProcessCommand
<1>5. got[current].content \in Commands
  <2>1. got \in Seq(DatagramRecord)
    BY DEF IInv, TypeOK, DatagramRecord
  <2>2. got[current] \in DatagramRecord
    BY <1>2, <2>1
  <2> QED BY <1>1, <2>2 DEF DatagramRecord, Content
<1>6. \A k \in DOMAIN known' : known'[k].clientId = k
  BY <1>1, <1>5, RememberType DEF IInv, TypeOK
<1>7. storage' \in 0..StorageSize
  BY <1>1, StorageSizeAssumption DEF IInv, TypeOK
<1>8. TypeOK'
  BY <1>1, <1>2, <1>4, <1>6, <1>7 DEF IInv, TypeOK, NextReceive
<1>9. Places'
  <2>1. SUFFICES ASSUME NEW d \in Datagram PROVE OnePlace(d)'
    BY DEF Places
  <2>2. OnePlace(d) /\ got' = got
    BY <1>1 DEF IInv, Places, NextReceive
  <2> QED BY <1>1, <1>2, <1>4, <2>1, <2>2 DEF OnePlace
<1> QED BY <1>1, <1>2, <1>3, <1>8, <1>9 DEF IInv, GotBounded, EndpointIsSet, OneReceive, NextReceive

LEMMA SerialAnswersStep ==
  ASSUME IInv, NEW d0 \in serial, SerialAnswers(d0)
  PROVE  IInv'
<1>1. d0 \in Datagram /\ Answered(d0) \in Handlers /\ Answered(d0).re = d0
      /\ Answered(d0) \notin Completions
  BY DEF IInv, TypeOK, Handlers, Answered, Completions
<1>2. \A d \in Datagram : Answered(d0).re = d => ~Some(queue, Concerns(d))
  BY <1>1 DEF IInv, Places, OnePlace
<1>3. /\ queue' \in Seq(Handlers)
      /\ Single(queue', Completions)
      /\ Some(queue', Completions) <=> Some(queue, Completions)
      /\ \A d \in Datagram :
           /\ Single(queue', Concerns(d))
           /\ Some(queue', Concerns(d)) <=> Some(queue, Concerns(d)) \/ d = d0
  BY <1>1, <1>2, PostHandler DEF SerialAnswers
<1>4. TypeOK'
  BY <1>3 DEF IInv, TypeOK, SerialAnswers, netVars
<1>5. Places'
  <2>1. SUFFICES ASSUME NEW d \in Datagram PROVE OnePlace(d)'
    BY DEF Places
  <2>2. OnePlace(d) /\ sent' = sent /\ got' = got /\ ignored' = ignored
           /\ serial' = serial \ {d0}
    BY DEF IInv, Places, SerialAnswers, netVars
  <2> QED BY <1>3, <2>1, <2>2 DEF OnePlace
<1> QED BY <1>3, <1>4, <1>5 DEF IInv, GotBounded, EndpointIsSet, OneReceive, SerialAnswers, netVars

LEMMA ReceiveMailStep == ASSUME IInv, ReceiveMail PROVE IInv'
<1>1. /\ Runs("receiveMail") /\ queue' = Tail(queue)
      /\ sent' = Append(sent, Reply(current))
      /\ UNCHANGED <<netVars, storage, known, serial, ignored>>
  BY DEF ReceiveMail
<1>2. /\ queue' \in Seq(Handlers) /\ Head(queue) \in Handlers
      /\ Head(queue).do = "receiveMail" /\ Single(queue', Completions)
      /\ Some(queue', Completions) <=> Some(queue, Completions) /\ Head(queue) \notin Completions
      /\ \A d \in Datagram :
           /\ Single(queue', Concerns(d))
           /\ Some(queue', Concerns(d)) <=> Some(queue, Concerns(d)) /\ d # current
      /\ current \in Datagram /\ current <= Len(got) /\ Some(queue, Concerns(current))
      /\ remote_endpoint_ \in Hosts
  BY <1>1, HeadHandler
<1>3. Head(queue) \notin Completions
  BY <1>2 DEF Completions
<1>4. /\ sent' \in Seq(ReplyRecord)
      /\ \A d \in Datagram :
           /\ Single(sent', Answers(d))
           /\ Some(sent', Answers(d)) <=> Some(sent, Answers(d)) \/ d = current
  BY <1>1, <1>2, SendReply
<1>5. TypeOK'
  BY <1>1, <1>2, <1>4 DEF IInv, TypeOK, netVars, ReplyRecord
<1>6. Places'
  <2>1. SUFFICES ASSUME NEW d \in Datagram PROVE OnePlace(d)'
    BY DEF Places
  <2>2. OnePlace(d) /\ got' = got
    BY <1>1 DEF IInv, Places, netVars
  <2> QED BY <1>1, <1>2, <1>4, <2>1, <2>2 DEF OnePlace
<1> QED BY <1>1, <1>2, <1>3, <1>5, <1>6 DEF IInv, GotBounded, EndpointIsSet, OneReceive, netVars

LEMMA StepIInv == IInv /\ [Next]_vars => IInv'
<1> SUFFICES ASSUME IInv, [Next]_vars PROVE IInv'
  OBVIOUS
<1>1. ASSUME NEW h \in Hosts, NEW c \in Content, Arrive(h, c) PROVE IInv'
  BY <1>1, ArriveStep
<1>2. CASE ReceiveFails
  BY <1>2, ReceiveFailsStep
<1>3. CASE IgnoreError
  BY <1>3, IgnoreErrorStep
<1>4. CASE ProcessThrows
  <2>1. storage' \in 0..StorageSize
    BY <1>4 DEF ProcessThrows, IInv, TypeOK
  <2> QED BY <1>4, <2>1, AnswerStep DEF ProcessThrows
<1>5. CASE ProcessAtOnce
  <2>1. storage' \in 0..StorageSize
    BY <1>5, StorageSizeAssumption DEF ProcessAtOnce, IInv, TypeOK
  <2> QED BY <1>5, <2>1, AnswerStep DEF ProcessAtOnce
<1>6. CASE ProcessCommand
  BY <1>6, ProcessCommandStep
<1>7. ASSUME NEW d \in serial, SerialAnswers(d) PROVE IInv'
  BY <1>7, SerialAnswersStep
<1>8. CASE ReceiveMail
  BY <1>8, ReceiveMailStep
<1>9. CASE UNCHANGED vars
  BY <1>9 DEF IInv, TypeOK, GotBounded, EndpointIsSet, OneReceive, Places, OnePlace, vars, netVars
<1> QED BY <1>1, <1>2, <1>3, <1>4, <1>5, <1>6, <1>7, <1>8, <1>9 DEF Next, RunHandler

LEMMA IInvHolds == Spec => []IInv
  BY InitIInv, StepIInv, PTL DEF Spec

-----------------------------------------------------------------------------
(* The receive buffer.                                                     *)
LEMMA BufferFromOneReceive == IInv => BufferIsStable
<1> SUFFICES ASSUME IInv PROVE BufferIsStable
  OBVIOUS
<1> DEFINE W == Waits("process_message") \cup Waits("ignore")
<1>1. \A i \in DOMAIN queue : queue[i] \in Handlers
  BY DEF IInv, TypeOK
<1>2. \A i : i \in W <=> i \in DOMAIN queue /\ queue[i] \in Completions
  BY <1>1 DEF Waits, Completions
<1>3. armed <=> W = {}
  BY <1>2 DEF IInv, OneReceive, Some
<1>4. \A i, j \in W : i = j
  BY <1>2 DEF IInv, OneReceive, Single
<1> QED BY <1>3, <1>4 DEF BufferIsStable

(* The buffer a datagram was received into is not given to the next one    *)
(* before process_message has read it, and some receive or its completion  *)
(* is always there: the service is never left without one.                 *)
THEOREM BufferSafety == Spec => []BufferIsStable
  BY IInvHolds, BufferFromOneReceive, PTL

-----------------------------------------------------------------------------
(* One answer.                                                             *)
LEMMA OneReplyFromPlaces == IInv => OneReply
<1> SUFFICES ASSUME IInv, NEW d \in DOMAIN got
             PROVE  /\ \A i, j \in InQueue(d) : i = j
                    /\ \A i, j \in RepliesTo(d) : i = j
                    /\ LET places == <<InQueue(d) # {}, RepliesTo(d) # {},
                                       d \in serial, d \in ignored>>
                       IN \E i \in 1..4 : \A j \in 1..4 : places[j] <=> j = i
  BY DEF OneReply, IInv
<1> DEFINE places == <<InQueue(d) # {}, RepliesTo(d) # {}, d \in serial, d \in ignored>>
<1>1. queue \in Seq(Handlers) /\ sent \in Seq(ReplyRecord) /\ got \in Seq(DatagramRecord)
  BY DEF IInv, TypeOK, ReplyRecord, DatagramRecord
<1>2. /\ \A i : i \in InQueue(d) <=> i \in DOMAIN queue /\ queue[i] \in Concerns(d)
      /\ \A i : i \in RepliesTo(d) <=> i \in DOMAIN sent /\ sent[i] \in Answers(d)
  <2>1. /\ \A i \in DOMAIN queue : queue[i] \in Handlers
        /\ \A i \in DOMAIN sent : sent[i] \in ReplyRecord
    BY <1>1
  <2> QED BY <2>1 DEF InQueue, RepliesTo, Concerns, Answers
<1>3. OnePlace(d) /\ d <= Len(got)
  <2>1. d \in Nat \ {0} /\ d <= Len(got)
    BY <1>1
  <2>2. Len(got) <= MaxDatagrams
    BY DEF IInv, GotBounded
  <2>3. d \in Datagram
    BY <1>1, <2>1, <2>2, MaxDatagramsAssumption
  <2> QED BY <2>1, <2>3 DEF IInv, Places
<1>4. \A i, j \in InQueue(d) : i = j
  BY <1>2, <1>3 DEF OnePlace, Single
<1>5. \A i, j \in RepliesTo(d) : i = j
  BY <1>2, <1>3 DEF OnePlace, Single
<1>6. /\ InQueue(d) # {} <=> Some(queue, Concerns(d))
      /\ RepliesTo(d) # {} <=> Some(sent, Answers(d))
  BY <1>2 DEF Some
<1>7. /\ places[1] <=> InQueue(d) # {}
      /\ places[2] <=> RepliesTo(d) # {}
      /\ places[3] <=> d \in serial
      /\ places[4] <=> d \in ignored
  OBVIOUS
<1> HIDE DEF places
<1>8. \A j \in 1..4 : j = 1 \/ j = 2 \/ j = 3 \/ j = 4
  OBVIOUS
<1>9. \E i \in 1..4 : \A j \in 1..4 : places[j] <=> j = i
  <2>1. CASE Some(queue, Concerns(d))
    <3>1. places[1] /\ ~places[2] /\ ~places[3] /\ ~places[4]
      BY <1>3, <1>6, <1>7, <2>1 DEF OnePlace
    <3>2. \A j \in 1..4 : places[j] <=> j = 1
      BY <1>8, <3>1
    <3> QED BY <3>2
  <2>2. CASE Some(sent, Answers(d))
    <3>1. ~places[1] /\ places[2] /\ ~places[3] /\ ~places[4]
      BY <1>3, <1>6, <1>7, <2>2 DEF OnePlace
    <3>2. \A j \in 1..4 : places[j] <=> j = 2
      BY <1>8, <3>1
    <3> QED BY <3>2
  <2>3. CASE d \in serial
    <3>1. ~places[1] /\ ~places[2] /\ places[3] /\ ~places[4]
      BY <1>3, <1>6, <1>7, <2>3 DEF OnePlace
    <3>2. \A j \in 1..4 : places[j] <=> j = 3
      BY <1>8, <3>1
    <3> QED BY <3>2
  <2>4. CASE d \in ignored
    <3>1. ~places[1] /\ ~places[2] /\ ~places[3] /\ places[4]
      BY <1>3, <1>6, <1>7, <2>4 DEF OnePlace
    <3>2. \A j \in 1..4 : places[j] <=> j = 4
      BY <1>8, <3>1
    <3> QED BY <3>2
  <2> QED BY <1>3, <2>1, <2>2, <2>3, <2>4 DEF OnePlace
<1> QED BY <1>4, <1>5, <1>9 DEF places

(* Every variable keeps its type, and the storage is never overdrawn.      *)
(* Of every datagram received there is one handler, one answer, one mail   *)
(* with the serial controller or one decision to drop it, and never two of *)
(* these: nothing is lost, and nothing answered twice.                     *)
THEOREM RepliesOnce == Spec => []OneReply
  BY IInvHolds, OneReplyFromPlaces, PTL

-----------------------------------------------------------------------------
(* The filter.  Why an ignored command mirrors its client's first one: the *)
(* map holds exactly one entry for each client whose datagrams have been   *)
(* processed, made of the first of them.                                   *)
Pending(d)  == Some(queue, {Received(d)})
First(f, k) == ClientOf(f) = k /\ \A e \in 1..(f - 1) : ClientOf(e) # k

(* Datagrams are processed one by one, in the order they come in.          *)
OnlyLastPends == \A d \in Datagram : Pending(d) => d = Len(got)

KnownAreFirst ==
  \A k \in DOMAIN known :
    \E f \in 1..Len(got) :
      k > 0 /\ ~Pending(f) /\ First(f, k) /\ known[k] = Entry(got[f].content)

(* A message that found no storage is not remembered; it has no successors *)
(* that are.                                                               *)
AllAreKnown ==
  storage > 0 => \A e \in 1..Len(got) :
                   ClientOf(e) > 0 /\ ~Pending(e) => ClientOf(e) \in DOMAIN known

(* What is dropped is a command that names the command and the package of  *)
(* its client's first one the other way round.                             *)
MirrorsFirst ==
  \A d \in ignored :
    LET c == got[d].content
    IN c # NotACommand /\ \E f \in 1..(d - 1) :
         /\ ClientOf(f) = c.clientId /\ ClientOf(f) > 0
         /\ \A e \in 1..(f - 1) : ClientOf(e) # c.clientId
         /\ got[f].content = Package(c.clientId, c.packageId, c.cmdId)

FInv == OnlyLastPends /\ KnownAreFirst /\ AllAreKnown /\ MirrorsFirst

LEMMA InitFInv == Init => FInv
<1> SUFFICES ASSUME Init PROVE FInv
  OBVIOUS
<1>1. \A R : ~Some(queue, R)
  BY DEF Init, Some
<1>2. Len(got) = 0 /\ DOMAIN known = {} /\ ignored = {}
  BY DEF Init, NothingKnown
<1> QED BY <1>1, <1>2 DEF FInv, OnlyLastPends, KnownAreFirst, AllAreKnown,
                          MirrorsFirst, Pending

LEMMA DatagramFacts ==
  ASSUME IInv, NEW d \in 1..Len(got)
  PROVE  /\ d \in Datagram /\ got[d] \in DatagramRecord
         /\ ClientOf(d) \in Int
         /\ ClientOf(d) > 0 => /\ got[d].content \in Commands
                               /\ ClientOf(d) = got[d].content.clientId
<1>1. got \in Seq(DatagramRecord) /\ Len(got) \in Nat /\ Len(got) <= MaxDatagrams
  BY DEF IInv, TypeOK, GotBounded, DatagramRecord
<1>2. d \in Datagram /\ got[d] \in DatagramRecord
  BY <1>1, MaxDatagramsAssumption
<1>3. CASE got[d].content = NotACommand
  BY <1>2, <1>3 DEF ClientOf
<1>4. CASE got[d].content # NotACommand
  <2>1. got[d].content \in Commands
    BY <1>2, <1>4 DEF DatagramRecord, Content
  <2> QED BY <1>2, <1>4, <2>1, CommandsAssumption DEF ClientOf
<1> QED BY <1>2, <1>3, <1>4

(* A datagram that waits to be processed is the completion of a receive.   *)
LEMMA PendingIsCompletion ==
  ASSUME IInv, NEW d \in Datagram
  PROVE  /\ Received(d) \in Completions
         /\ Single(queue, {Received(d)})
         /\ Pending(d) => Some(queue, Completions) /\ ~armed
<1>1. Received(d) \in Completions
  BY DEF Received, Completions, Handlers
<1> QED BY <1>1 DEF IInv, OneReceive, Pending, Some, Single

LEMMA NonePending ==
  ASSUME IInv, armed, NEW d \in Datagram PROVE ~Pending(d)
  BY PendingIsCompletion

LEMMA NonePendingNext ==
  ASSUME IInv', armed', NEW d \in Datagram PROVE ~Pending(d)'
<1>1. Received(d) \in Completions
  BY DEF Received, Completions, Handlers
<1> QED BY <1>1 DEF IInv, OneReceive, Pending, Some

(* Steps that leave the datagrams that wait and the filter alone.          *)
LEMMA FilterUntouched ==
  ASSUME IInv, FInv, UNCHANGED <<got, known, ignored, storage>>,
         \A d \in Datagram : Pending(d)' <=> Pending(d)
  PROVE  FInv'
<1>1. \A d : ClientOf(d)' = ClientOf(d)
  BY DEF ClientOf
<1>2. \A d \in 1..Len(got) : Pending(d)' <=> Pending(d)
  BY DatagramFacts
<1>3. OnlyLastPends'
  BY DEF FInv, OnlyLastPends
<1>4. KnownAreFirst'
  <2>1. SUFFICES ASSUME NEW k \in DOMAIN known
        PROVE \E f \in 1..Len(got) :
                k > 0 /\ ~Pending(f)' /\ First(f, k)' /\ known[k] = Entry(got[f].content)
    BY DEF KnownAreFirst
  <2>2. PICK f \in 1..Len(got) :
          k > 0 /\ ~Pending(f) /\ First(f, k) /\ known[k] = Entry(got[f].content)
    BY DEF FInv, KnownAreFirst
  <2>3. First(f, k)'
    BY <1>1, <2>2 DEF First
  <2> QED BY <1>2, <2>2, <2>3
<1>5. AllAreKnown'
  BY <1>1, <1>2 DEF FInv, AllAreKnown
<1>6. MirrorsFirst'
  BY <1>1 DEF FInv, MirrorsFirst
<1> QED BY <1>3, <1>4, <1>5, <1>6 DEF FInv

LEMMA ArriveFilter ==
  ASSUME IInv, FInv, IInv', NEW h \in Hosts, NEW c \in Content, Arrive(h, c)
  PROVE  FInv'
<1> DEFINE d0 == Len(got) + 1
<1>1. /\ got \in Seq(DatagramRecord) /\ Len(got) \in Nat /\ d0 \in Datagram
      /\ got' = Append(got, [from |-> h, content |-> c])
      /\ armed /\ UNCHANGED <<known, storage, ignored>>
  BY MaxDatagramsAssumption DEF IInv, TypeOK, Arrive, DatagramRecord
<1>2. /\ Len(got') = d0
      /\ \A e \in 1..Len(got) : got'[e] = got[e]
  BY <1>1 DEF DatagramRecord
<1>3. \A e \in 1..Len(got) : ClientOf(e)' = ClientOf(e)
  BY <1>2 DEF ClientOf
<1>4. queue' = Append(queue, Received(d0))
  BY <1>1, <1>2 DEF Arrive
<1>5. \A d \in Datagram : Pending(d)' <=> d = d0
  <2>1. SUFFICES ASSUME NEW d \in Datagram PROVE Pending(d)' <=> d = d0
    OBVIOUS
  <2>2. queue \in Seq(Handlers) /\ Received(d0) \in Handlers
    BY <1>1 DEF IInv, TypeOK, Handlers
  <2>3. Single(queue, {Received(d)}) /\ ~Pending(d)
    BY <1>1, PendingIsCompletion, NonePending
  <2>4. Pending(d)' <=> Received(d0) \in {Received(d)}
    BY <1>4, <2>2, <2>3, AppendEntries DEF Pending
  <2> QED BY <2>4 DEF Received
<1>6. \A e \in 1..Len(got) : ~Pending(e) /\ ~Pending(e)'
  BY <1>1, <1>5, DatagramFacts, NonePending
<1>7. OnlyLastPends'
  BY <1>2, <1>5 DEF OnlyLastPends
<1>8. KnownAreFirst'
  <2>1. SUFFICES ASSUME NEW k \in DOMAIN known
        PROVE \E f \in 1..Len(got') :
                k > 0 /\ ~Pending(f)' /\ First(f, k)' /\ known[k] = Entry(got'[f].content)
    BY <1>1 DEF KnownAreFirst
  <2>2. PICK f \in 1..Len(got) :
          k > 0 /\ ~Pending(f) /\ First(f, k) /\ known[k] = Entry(got[f].content)
    BY DEF FInv, KnownAreFirst
  <2>3. f \in 1..Len(got') /\ 1..(f - 1) \subseteq 1..Len(got)
    BY <1>1, <1>2, <2>2
  <2>4. First(f, k)'
    BY <1>3, <2>2, <2>3 DEF First
  <2> QED BY <1>2, <1>6, <2>2, <2>3, <2>4
<1>9. AllAreKnown'
  <2>1. SUFFICES ASSUME storage > 0, NEW e \in 1..Len(got'),
                        ClientOf(e)' > 0, ~Pending(e)'
                 PROVE  ClientOf(e)' \in DOMAIN known
    BY <1>1 DEF AllAreKnown
  <2>2. e # d0 /\ e \in 1..Len(got)
    BY <1>1, <1>2, <1>5, <2>1
  <2> QED BY <1>3, <1>6, <2>1, <2>2 DEF FInv, AllAreKnown
<1>10. MirrorsFirst'
  <2>1. SUFFICES ASSUME NEW d \in ignored
        PROVE LET c1 == got'[d].content
              IN c1 # NotACommand /\ \E f \in 1..(d - 1) :
                   /\ ClientOf(f)' = c1.clientId /\ ClientOf(f)' > 0
                   /\ \A e \in 1..(f - 1) : ClientOf(e)' # c1.clientId
                   /\ got'[f].content = Package(c1.clientId, c1.packageId, c1.cmdId)
    BY <1>1 DEF MirrorsFirst
  <2>2. d \in 1..Len(got)
    BY <1>1 DEF IInv, TypeOK, Places, OnePlace
  <2>3. 1..(d - 1) \subseteq 1..Len(got)
    BY <1>1, <2>2
  <2>4. \A f \in 1..(d - 1) : 1..(f - 1) \subseteq 1..Len(got)
    BY <1>1, <2>2
  <2> QED BY <1>2, <1>3, <2>2, <2>3, <2>4 DEF FInv, MirrorsFirst
<1> QED BY <1>7, <1>8, <1>9, <1>10 DEF FInv

(* What process_message finds.                                             *)
LEMMA ProcessFacts ==
  ASSUME IInv, FInv, IInv', Runs("process_message"), queue' = Tail(queue), NextReceive
  PROVE  /\ current \in 1..Len(got) /\ current = Len(got) /\ got' = got
         /\ \A e \in 1..Len(got) : (Pending(e) <=> e = current) /\ ~Pending(e)'
         /\ OnlyLastPends'
<1>1. /\ queue \in Seq(Handlers) /\ queue # <<>> /\ Len(got) \in Nat
      /\ Head(queue).do = "process_message" /\ current \in Datagram
      /\ current <= Len(got) /\ Head(queue) \in Handlers
  BY HeadHandler DEF IInv, TypeOK, Runs
<1>2. Head(queue) = Received(current)
  BY <1>1 DEF Handlers, Received, Answered, ReceiveError, current
<1>3. Pending(current)
  BY <1>1, <1>2, TailEntries, PendingIsCompletion DEF Pending
<1>4. current = Len(got) /\ current \in 1..Len(got)
  BY <1>1, <1>3 DEF FInv, OnlyLastPends
<1>5. armed' /\ got' = got
  BY DEF NextReceive
<1>6. \A d \in Datagram : ~Pending(d)'
  BY <1>5, NonePendingNext
<1>7. \A e \in 1..Len(got) : Pending(e) <=> e = current
  BY <1>3, <1>4, DatagramFacts DEF FInv, OnlyLastPends
<1> QED BY <1>4, <1>5, <1>6, <1>7, DatagramFacts DEF OnlyLastPends

(* A datagram that is no command, or that finds no storage.                *)
LEMMA AnswerFilter ==
  ASSUME IInv, FInv, IInv', Runs("process_message"), queue' = Tail(queue), NextReceive,
         UNCHANGED <<known, ignored>>,
         storage' > 0 => storage > 0 /\ got[current].content = NotACommand
  PROVE  FInv'
<1>1. /\ current \in 1..Len(got) /\ got' = got
      /\ \A e \in 1..Len(got) : (Pending(e) <=> e = current) /\ ~Pending(e)'
      /\ OnlyLastPends'
  BY ProcessFacts
<1>2. \A d : ClientOf(d)' = ClientOf(d)
  BY <1>1 DEF ClientOf
<1>3. KnownAreFirst'
  <2>1. SUFFICES ASSUME NEW k \in DOMAIN known
        PROVE \E f \in 1..Len(got) :
                k > 0 /\ ~Pending(f)' /\ First(f, k)' /\ known[k] = Entry(got[f].content)
    BY <1>1 DEF KnownAreFirst
  <2>2. PICK f \in 1..Len(got) :
          k > 0 /\ ~Pending(f) /\ First(f, k) /\ known[k] = Entry(got[f].content)
    BY DEF FInv, KnownAreFirst
  <2>3. First(f, k)'
    BY <1>2, <2>2 DEF First
  <2> QED BY <1>1, <2>2, <2>3
<1>4. AllAreKnown'
  <2>1. SUFFICES ASSUME storage' > 0, NEW e \in 1..Len(got), ClientOf(e) > 0
                 PROVE  ClientOf(e) \in DOMAIN known
    BY <1>1, <1>2 DEF AllAreKnown
  <2>2. storage > 0 /\ ClientOf(current) = 0
    BY <2>1 DEF ClientOf
  <2>3. e # current
    BY <2>1, <2>2
  <2> QED BY <1>1, <2>1, <2>2, <2>3 DEF FInv, AllAreKnown
<1>5. MirrorsFirst'
  BY <1>1, <1>2 DEF FInv, MirrorsFirst
<1> QED BY <1>1, <1>3, <1>4, <1>5 DEF FInv

(* A command: it becomes its client's entry when there is none, and is     *)
(* dropped when it equals the entry.                                       *)
LEMMA CommandFilter == ASSUME IInv, FInv, IInv', ProcessCommand PROVE FInv'
<1> DEFINE p == got[current].content
<1>1. /\ Runs("process_message") /\ queue' = Tail(queue) /\ NextReceive
      /\ storage > 0 /\ p # NotACommand /\ known' = Remember(known, p)
      /\ \/ Ignored(known, p) /\ ignored' = ignored \cup {current}
         \/ ignored' = ignored
  BY DEF ProcessCommand
<1>2. /\ current \in 1..Len(got) /\ current = Len(got) /\ got' = got
      /\ \A e \in 1..Len(got) : (Pending(e) <=> e = current) /\ ~Pending(e)'
      /\ OnlyLastPends'
  BY <1>1, ProcessFacts
<1>3. \A d : ClientOf(d)' = ClientOf(d)
  BY <1>2 DEF ClientOf
<1>4. got[current] \in DatagramRecord
  BY <1>2, DatagramFacts
<1>5. /\ p \in Commands /\ ClientOf(current) = p.clientId
      /\ p = Package(p.clientId, p.cmdId, p.packageId) /\ p.clientId \in Int
  <2>1. p \in Commands
    BY <1>1, <1>4 DEF DatagramRecord, Content
  <2>2. p \in [clientId : Int, cmdId : Int, packageId : Int]
    BY <2>1, CommandsAssumption
  <2>3. p = Package(p.clientId, p.cmdId, p.packageId)
    BY <2>2 DEF Package
  <2> QED BY <1>1, <2>1, <2>2, <2>3 DEF ClientOf
<1> HIDE DEF p
<1>6. ASSUME HasClient(p), p.clientId \notin DOMAIN known
      PROVE  First(current, p.clientId)
  <2>1. SUFFICES ASSUME NEW e \in 1..(current - 1), ClientOf(e) = p.clientId
                 PROVE  FALSE
    BY <1>5 DEF First
  <2>2. e \in 1..Len(got) /\ ~Pending(e)
    BY <1>2
  <2>3. ClientOf(e) \in DOMAIN known
    BY <1>1, <1>6, <2>1, <2>2 DEF FInv, AllAreKnown, HasClient
  <2> QED BY <1>6, <2>1, <2>3
<1>7. DOMAIN known' = IF HasClient(p) THEN DOMAIN known \cup {p.clientId} ELSE DOMAIN known
  BY <1>1, <1>5, RememberDomain
<1>8. KnownAreFirst'
  <2>1. SUFFICES ASSUME NEW k \in DOMAIN known'
        PROVE \E f \in 1..Len(got) :
                k > 0 /\ ~Pending(f)' /\ First(f, k)' /\ known'[k] = Entry(got[f].content)
    BY <1>2 DEF KnownAreFirst
  <2>2. CASE k \in DOMAIN known
    <3>1. PICK f \in 1..Len(got) :
            k > 0 /\ ~Pending(f) /\ First(f, k) /\ known[k] = Entry(got[f].content)
      BY <2>2 DEF FInv, KnownAreFirst
    <3>2. First(f, k)'
      BY <1>3, <3>1 DEF First
    <3>3. known'[k] = known[k]
      BY <1>1, <1>5, <2>2, RememberDomain
    <3> QED BY <1>2, <3>1, <3>2, <3>3
  <2>3. CASE k \notin DOMAIN known
    <3>1. HasClient(p) /\ k = p.clientId
      BY <1>7, <2>1, <2>3
    <3>2. known'[k] = Entry(p)
      BY <1>1, <1>5, <2>3, <3>1, RememberDomain
    <3>3. PICK f \in 1..Len(got) : f = current
      BY <1>2
    <3>4. First(f, k)'
      <4>1. First(f, k)
        BY <1>6, <2>3, <3>1, <3>3
      <4> QED BY <1>3, <4>1 DEF First
    <3>5. k > 0 /\ Entry(p) = Entry(got[f].content)
      BY <3>1, <3>3 DEF HasClient, p
    <3> QED BY <1>2, <3>2, <3>4, <3>5
  <2> QED BY <2>2, <2>3
<1>9. AllAreKnown'
  <2>1. SUFFICES ASSUME NEW e \in 1..Len(got), ClientOf(e) > 0
                 PROVE  ClientOf(e) \in DOMAIN known'
    BY <1>2, <1>3 DEF AllAreKnown
  <2>2. CASE e = current
    BY <1>5, <1>7, <2>1, <2>2 DEF HasClient
  <2>3. CASE e # current
    BY <1>1, <1>2, <1>7, <2>1, <2>3 DEF FInv, AllAreKnown
  <2> QED BY <2>2, <2>3
<1>10. MirrorsFirst'
  <2>1. CASE ignored' = ignored
    BY <1>2, <1>3, <2>1 DEF FInv, MirrorsFirst
  <2>2. CASE Ignored(known, p) /\ ignored' = ignored \cup {current}
    <3>1. PICK f \in 1..Len(got) :
            /\ p.clientId > 0 /\ ~Pending(f) /\ First(f, p.clientId)
            /\ known[p.clientId] = Entry(got[f].content)
      BY <2>2 DEF FInv, KnownAreFirst, Ignored
    <3>2. f \in 1..(current - 1)
      BY <1>2, <3>1
    <3>3. /\ got[f].content \in Commands
          /\ got[f].content \in [clientId : Int, cmdId : Int, packageId : Int]
      BY <3>1, DatagramFacts, CommandsAssumption DEF First
    <3>4. p = Package(got[f].content.clientId, got[f].content.packageId,
                      got[f].content.cmdId)
      BY <2>2, <3>1, <3>3, EntryNamesClient DEF Ignored
    <3>5. got[f].content = Package(p.clientId, p.packageId, p.cmdId)
      BY <3>3, <3>4 DEF Package
    <3>6. /\ ClientOf(f) = p.clientId /\ ClientOf(f) > 0
          /\ \A e \in 1..(f - 1) : ClientOf(e) # p.clientId
      BY <3>1 DEF First
    <3>7. SUFFICES ASSUME NEW d \in ignored \cup {current}
          PROVE LET c == got[d].content
                IN c # NotACommand /\ \E g \in 1..(d - 1) :
                     /\ ClientOf(g) = c.clientId /\ ClientOf(g) > 0
                     /\ \A e \in 1..(g - 1) : ClientOf(e) # c.clientId
                     /\ got[g].content = Package(c.clientId, c.packageId, c.cmdId)
      BY <1>2, <1>3, <2>2 DEF MirrorsFirst
    <3>8. CASE d = current
      BY <1>1, <3>2, <3>5, <3>6, <3>8 DEF p
    <3>9. CASE d \in ignored
      BY <3>9 DEF FInv, MirrorsFirst
    <3> QED BY <3>7, <3>8, <3>9
  <2> QED BY <1>1, <2>1, <2>2
<1> QED BY <1>2, <1>8, <1>9, <1>10 DEF FInv

(* A handler that does not process a datagram leaves those that wait.      *)
LEMMA TailKeepsPending ==
  ASSUME IInv, NEW do, Runs(do), do # "process_message", queue' = Tail(queue),
         NEW d \in Datagram
  PROVE  Pending(d)' <=> Pending(d)
<1>1. queue \in Seq(Handlers) /\ queue # <<>> /\ Head(queue) # Received(d)
  BY DEF IInv, TypeOK, Runs, Received
<1> QED BY <1>1, PendingIsCompletion, TailEntries DEF Pending

LEMMA PostKeepsPending ==
  ASSUME IInv, NEW h \in Handlers, h.do # "process_message", queue' = Append(queue, h),
         NEW d \in Datagram
  PROVE  Pending(d)' <=> Pending(d)
<1>1. queue \in Seq(Handlers) /\ h \notin {Received(d)}
  BY DEF IInv, TypeOK, Received
<1> QED BY <1>1, PendingIsCompletion, AppendEntries DEF Pending

LEMMA StepFInv == IInv /\ FInv /\ IInv' /\ [Next]_vars => FInv'
<1> SUFFICES ASSUME IInv, FInv, IInv', [Next]_vars PROVE FInv'
  OBVIOUS
<1>1. ASSUME NEW h \in Hosts, NEW c \in Content, Arrive(h, c) PROVE FInv'
  BY <1>1, ArriveFilter
<1>2. CASE ReceiveFails
  <2>1. /\ ReceiveError \in Handlers /\ ReceiveError.do # "process_message"
        /\ queue' = Append(queue, ReceiveError)
    BY <1>2 DEF ReceiveFails, ReceiveError, Handlers
  <2> QED BY <1>2, <2>1, PostKeepsPending, FilterUntouched DEF ReceiveFails
<1>3. CASE IgnoreError
  <2>1. Runs("ignore") /\ queue' = Tail(queue)
    BY <1>3 DEF IgnoreError
  <2>2. \A d \in Datagram : Pending(d)' <=> Pending(d)
    BY <2>1, TailKeepsPending
  <2> QED BY <1>3, <2>2, FilterUntouched DEF IgnoreError, NextReceive
<1>4. CASE ProcessThrows
  <2>1. ~(storage' > 0)
    BY <1>4 DEF ProcessThrows
  <2> QED BY <1>4, <2>1, AnswerFilter DEF ProcessThrows
<1>5. CASE ProcessAtOnce
  BY <1>5, AnswerFilter DEF ProcessAtOnce
<1>6. CASE ProcessCommand
  BY <1>6, CommandFilter
<1>7. ASSUME NEW d0 \in serial, SerialAnswers(d0) PROVE FInv'
  <2>1. /\ Answered(d0) \in Handlers /\ Answered(d0).do # "process_message"
        /\ queue' = Append(queue, Answered(d0))
    BY <1>7 DEF SerialAnswers, Answered, Handlers, IInv, TypeOK
  <2>2. \A d \in Datagram : Pending(d)' <=> Pending(d)
    BY <2>1, PostKeepsPending
  <2> QED BY <1>7, <2>2, FilterUntouched DEF SerialAnswers, netVars
<1>8. CASE ReceiveMail
  <2>1. Runs("receiveMail") /\ queue' = Tail(queue)
    BY <1>8 DEF ReceiveMail
  <2>2. \A d \in Datagram : Pending(d)' <=> Pending(d)
    BY <2>1, TailKeepsPending
  <2> QED BY <1>8, <2>2, FilterUntouched DEF ReceiveMail, netVars
<1>9. CASE UNCHANGED vars
  BY <1>9, FilterUntouched DEF vars, netVars, Pending
<1> QED BY <1>1, <1>2, <1>3, <1>4, <1>5, <1>6, <1>7, <1>8, <1>9 DEF Next, RunHandler

(* The first package of a client is not dropped, because it has none to    *)
(* mirror; and what is dropped is a command, of the client it names.       *)
LEMMA FirstPasses == MirrorsFirst => DropsFollowPasses
<1> SUFFICES ASSUME MirrorsFirst, NEW d \in ignored
             PROVE  \E f \in 1..(d - 1) :
                      f \notin ignored /\ ClientOf(f) = ClientOf(d) /\ ClientOf(d) > 0
  BY DEF DropsFollowPasses
<1> DEFINE c == got[d].content
<1>1. PICK f \in 1..(d - 1) :
        /\ ClientOf(f) = c.clientId /\ ClientOf(f) > 0
        /\ \A e \in 1..(f - 1) : ClientOf(e) # c.clientId
        /\ got[f].content = Package(c.clientId, c.packageId, c.cmdId)
  BY DEF MirrorsFirst
<1>2. f \notin ignored
  <2>1. SUFFICES ASSUME f \in ignored PROVE FALSE
    OBVIOUS
  <2>2. PICK g \in 1..(f - 1) : ClientOf(g) = got[f].content.clientId
    BY <2>1 DEF MirrorsFirst
  <2>3. got[f].content.clientId = c.clientId
    BY <1>1 DEF Package
  <2> QED BY <1>1, <2>2, <2>3
<1>3. ClientOf(d) = c.clientId
  BY DEF MirrorsFirst, ClientOf
<1> QED BY <1>1, <1>2, <1>3

(* The filter never silences a client: what it drops comes after another   *)
(* package of the same client that it let through.                         *)
THEOREM NoClientIsSilenced == Spec => []DropsFollowPasses
<1>1. Init => FInv
  BY InitFInv
<1>2. IInv /\ FInv /\ IInv' /\ [Next]_vars => FInv'
  BY StepFInv
<1>3. FInv => DropsFollowPasses
  BY FirstPasses DEF FInv
<1> QED BY <1>1, <1>2, <1>3, IInvHolds, PTL DEF Spec
=============================================================================
