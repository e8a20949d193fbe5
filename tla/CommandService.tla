--------------------------- MODULE CommandService ---------------------------
(***************************************************************************)
(* The UDP command service.  One socket, one receive buffer and one        *)
(* variable for the endpoint of the sender; one receive at a time.  A      *)
(* datagram is answered at once (a ping, anything that is not a command),  *)
(* or its mail goes to the serial controller and is answered whenever that *)
(* is done with it.                                                        *)
(*                                                                         *)
(* The service shares the thread of ioc_cmd with the serial controller.    *)
(* When a datagram comes in, the socket's reactor fills the buffer and the *)
(* endpoint and posts the completion handler behind everything that waits  *)
(* already.  The network may lose, repeat and reorder datagrams, and       *)
(* clients may retry: any datagram may come in at any time.                *)
(***************************************************************************)
EXTENDS Integers, Sequences, PackageFilter

CONSTANTS
  Hosts,         \* the endpoints datagrams come from
  Commands,      \* the packages they carry that are commands
  MaxDatagrams,  \* bound: how many datagrams come in
  StorageSize    \* how many messages the parser's storage can hold

ASSUME MaxDatagramsAssumption == MaxDatagrams \in Nat
ASSUME StorageSizeAssumption  == StorageSize \in Nat
ASSUME CommandsAssumption ==
  Commands \subseteq [clientId : Int, cmdId : Int, packageId : Int]

NotACommand == [ping |-> TRUE]    \* is answered without the serial port
Content == Commands \cup {NotACommand}
Datagram == 1..MaxDatagrams

VARIABLES
  armed,            \* an async_receive_from is pending
  remote_endpoint_, \* who the service answers
  got,              \* the datagrams received, in order
  queue,            \* handlers posted to ioc_cmd and not run yet
  storage,          \* what is left of json_storage_
  known,            \* cmdPackageIdentify
  serial,           \* mails the serial controller has not answered
  sent,             \* replies given to async_send_to, in order
  ignored           \* history: datagrams the filter dropped

netVars == <<armed, remote_endpoint_, got>>
vars == <<netVars, queue, storage, known, serial, sent, ignored>>

Nobody == "nobody"
Received(d) == [do |-> "process_message", re |-> d]
Answered(d) == [do |-> "receiveMail", re |-> d]
ReceiveError == [do |-> "ignore", re |-> 0]
Handlers == {Received(d) : d \in Datagram} \cup {Answered(d) : d \in Datagram}
              \cup {ReceiveError}

Reply(d) == [to |-> remote_endpoint_, re |-> d]

-----------------------------------------------------------------------------
(* Mutant: the receive stays pending.                                      *)
ArriveStaysArmed(h, c) ==
  /\ armed /\ Len(got) < MaxDatagrams
  /\ got' = Append(got, [from |-> h, content |-> c])
  /\ remote_endpoint_' = h
  /\ queue' = Append(queue, Received(Len(got')))
  /\ UNCHANGED <<armed, storage, known, serial, sent, ignored>>
(* The reactor completes the receive.                                      *)
Arrive(h, c) ==
  /\ armed /\ Len(got) < MaxDatagrams
  /\ armed' = FALSE
  /\ got' = Append(got, [from |-> h, content |-> c])
  /\ remote_endpoint_' = h
  /\ queue' = Append(queue, Received(Len(got')))
  /\ UNCHANGED <<storage, known, serial, sent, ignored>>

ReceiveFails ==
  /\ armed
  /\ armed' = FALSE
  /\ queue' = Append(queue, ReceiveError)
  /\ UNCHANGED <<remote_endpoint_, got, storage, known, serial, sent, ignored>>

-----------------------------------------------------------------------------
Runs(do) == queue # <<>> /\ Head(queue).do = do
current == Head(queue).re
NextReceive == armed' = TRUE /\ UNCHANGED <<remote_endpoint_, got>>

(* Mutant: after an error nothing is received any more.                    *)
IgnoreErrorStops ==
  /\ Runs("ignore")
  /\ queue' = Tail(queue)
  /\ UNCHANGED <<netVars, storage, known, serial, sent, ignored>>

(* A failed receive is logged and the next one is started.                 *)
IgnoreError ==
  /\ Runs("ignore")
  /\ NextReceive
  /\ queue' = Tail(queue)
  /\ UNCHANGED <<storage, known, serial, sent, ignored>>

(* Mutant: the exception is swallowed.                                     *)
ProcessThrowsSilently ==
  /\ Runs("process_message") /\ storage = 0
  /\ queue' = Tail(queue)
  /\ NextReceive
  /\ UNCHANGED <<storage, known, serial, sent, ignored>>

(* Parsing takes memory that is never given back, here the same amount for *)
(* every message.  When there is none left the parser throws, and the      *)
(* exception's text is the answer.                                         *)
ProcessThrows ==
  /\ Runs("process_message") /\ storage = 0
  /\ sent' = Append(sent, Reply(current))
  /\ queue' = Tail(queue)
  /\ NextReceive
  /\ UNCHANGED <<storage, known, serial, ignored>>

(* A ping gets its pong, anything that is not a command an error message.  *)
ProcessAtOnce ==
  /\ Runs("process_message") /\ storage > 0
  /\ got[current].content = NotACommand
  /\ storage' = storage - 1
  /\ sent' = Append(sent, Reply(current))
  /\ queue' = Tail(queue)
  /\ NextReceive
  /\ UNCHANGED <<known, serial, ignored>>

(* Mutants: one client's entry serves for all of them; an old package is   *)
(* answered and goes on as well.                                           *)
ProcessCommandAnyClient ==
  /\ Runs("process_message") /\ storage > 0
  /\ got[current].content # NotACommand
  /\ storage' = storage - 1
  /\ LET p == got[current].content
     IN /\ IF \E k \in DOMAIN known : Ignored(known, [p EXCEPT !.clientId = k])
           THEN ignored' = ignored \cup {current} /\ UNCHANGED serial
           ELSE serial' = serial \cup {current} /\ UNCHANGED ignored
        /\ known' = Remember(known, p)
  /\ queue' = Tail(queue)
  /\ NextReceive
  /\ UNCHANGED sent
ProcessCommandAnswersOld ==
  /\ Runs("process_message") /\ storage > 0
  /\ got[current].content # NotACommand
  /\ storage' = storage - 1
  /\ LET p == got[current].content
     IN /\ IF Ignored(known, p) THEN sent' = Append(sent, Reply(current))
                                ELSE UNCHANGED sent
        /\ serial' = serial \cup {current}
        /\ known' = Remember(known, p)
  /\ queue' = Tail(queue)
  /\ NextReceive
  /\ UNCHANGED ignored

(* A command goes to the serial controller, unless the filter drops it; a  *)
(* dropped command is never answered.                                      *)
ProcessCommand ==
  /\ Runs("process_message") /\ storage > 0
  /\ got[current].content # NotACommand
  /\ storage' = storage - 1
  /\ LET p == got[current].content
     IN /\ IF Ignored(known, p)
           THEN ignored' = ignored \cup {current} /\ UNCHANGED serial
           ELSE serial' = serial \cup {current} /\ UNCHANGED ignored
        /\ known' = Remember(known, p)
  /\ queue' = Tail(queue)
  /\ NextReceive
  /\ UNCHANGED sent

(* The serial controller answers a mail, once, in whatever order.          *)
SerialAnswers(d) ==
  /\ serial' = serial \ {d}
  /\ queue' = Append(queue, Answered(d))
  /\ UNCHANGED <<netVars, storage, known, sent, ignored>>

(* The mail's runner sends the answer to the endpoint of this moment.      *)
ReceiveMail ==
  /\ Runs("receiveMail")
  /\ sent' = Append(sent, Reply(current))
  /\ queue' = Tail(queue)
  /\ UNCHANGED <<netVars, storage, known, serial, ignored>>

-----------------------------------------------------------------------------
Init ==
  /\ armed = TRUE /\ remote_endpoint_ = Nobody
  /\ got = <<>> /\ queue = <<>> /\ sent = <<>>
  /\ storage = StorageSize
  /\ known = NothingKnown
  /\ serial = {} /\ ignored = {}

RunHandler == \/ IgnoreError
              \/ ProcessThrows
              \/ ProcessAtOnce
              \/ ProcessCommand
              \/ ReceiveMail

Next == \/ \E h \in Hosts, c \in Content : Arrive(h, c)
        \/ ReceiveFails
        \/ RunHandler
        \/ \E d \in serial : SerialAnswers(d)

Spec == Init /\ [][Next]_vars

(* The thread of ioc_cmd runs what is posted; the serial controller        *)
(* answers every mail (EveryMailAnswered of SerialController).             *)
Fairness ==
  /\ WF_vars(RunHandler)
  /\ \A d \in Datagram : WF_vars(d \in serial /\ SerialAnswers(d))

FairSpec == Spec /\ Fairness

-----------------------------------------------------------------------------
(* The type invariant.  The storage never goes below nothing, and the      *)
(* filter's entry of a client is one of that client (its constructor is    *)
(* called with the other two numbers swapped).                             *)
TypeOK ==
  /\ armed \in BOOLEAN /\ remote_endpoint_ \in Hosts \cup {Nobody}
  /\ got \in Seq([from : Hosts, content : Content])
  /\ queue \in Seq(Handlers)
  /\ storage \in 0..StorageSize
  /\ \A k \in DOMAIN known : known[k].clientId = k
  /\ serial \subseteq Datagram /\ ignored \subseteq Datagram
  /\ sent \in Seq([to : Hosts, re : Datagram])

Waits(do)    == {i \in DOMAIN queue : queue[i].do = do}
InQueue(d)   == {i \in DOMAIN queue : queue[i].re = d}
RepliesTo(d) == {i \in DOMAIN sent : sent[i].re = d}

(* The one receive buffer is not filled again before process_message has   *)
(* read it: one receive is pending, or one completion waits, never both    *)
(* and never neither.                                                      *)
BufferIsStable ==
  /\ armed <=> Waits("process_message") \cup Waits("ignore") = {}
  /\ \A i, j \in Waits("process_message") \cup Waits("ignore") : i = j

(* The types; and no datagram is lost and none is answered twice: it is in *)
(* exactly one of four places, and there once: with a handler, answered,   *)
(* with the serial controller, or dropped by the filter.                   *)
OneReply ==
  /\ TypeOK
  /\ \A d \in DOMAIN got :
       /\ \A i, j \in InQueue(d) : i = j
       /\ \A i, j \in RepliesTo(d) : i = j
       /\ LET places == <<InQueue(d) # {}, RepliesTo(d) # {}, d \in serial, d \in ignored>>
          IN \E i \in 1..4 : \A j \in 1..4 : places[j] <=> j = i

ClientOf(d) == IF got[d].content = NotACommand THEN 0 ELSE got[d].content.clientId

(* Whatever the filter drops, an earlier package of the same client went   *)
(* through: a client is never silenced by the packages of another one, nor *)
(* from its first package on, nor is anything dropped that names no client.*)
DropsFollowPasses ==
  \A d \in ignored :
    \E f \in 1..(d - 1) :
      f \notin ignored /\ ClientOf(f) = ClientOf(d) /\ ClientOf(d) > 0

(* Every datagram is answered in the end, unless the filter dropped it.    *)
EveryDatagramSettled ==
  \A d \in Datagram : d <= Len(got) ~> RepliesTo(d) # {} \/ d \in ignored

(* The service never stops receiving, whatever it received.                *)
KeepsReceiving == []<>armed

(* What the comment on remote_endpoint_ says, "it used to record where the *)
(* package come from": the answer to a package goes there.                 *)
ReplyGoesToSender ==
  \A i \in DOMAIN sent : sent[i].to = got[sent[i].re].from

(* What sendMail says of a package like the one its client sent before, "a *)
(* old package, ignore it": it does not go to the serial controller.       *)
OldPackageIsIgnored ==
  \A d \in serial :
    \A e \in {f \in 1..(d - 1) : ClientOf(f) = ClientOf(d)} :
      ClientOf(d) > 0 /\ (\A f \in (e + 1)..(d - 1) : ClientOf(f) # ClientOf(d))
        => got[e].content # got[d].content
=============================================================================
