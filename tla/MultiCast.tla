----------------------------- MODULE MultiCast -----------------------------
(***************************************************************************)
(* Discovery by multicast.  One chain of handlers listens: it receives a   *)
(* datagram, responds to it or not, and listens again.  Another sends a    *)
(* notice, waits for the interval to pass, and sends the next.  Both use   *)
(* the sender's socket, and both run on one thread.                        *)
(***************************************************************************)
EXTENDS Integers, Sequences

CONSTANTS
  Hosts,        \* where datagrams come from
  MaxDatagrams  \* bound: how many of them

ASSUME MaxDatagramsAssumption == MaxDatagrams \in Nat

(* A query; a notice; an object with another flag or none; what cannot be  *)
(* parsed; and JSON that is not an object.                                 *)
Contents == {"Query", "Notice", "other", "unreadable", "notObject"}
Datagrams == [from : Hosts, content : Contents]

VARIABLES
  listening,          \* how far the listening chain is, or that it failed
  receiver_endpoint_, \* where the last datagram came from
  response_message_,  \* "nothing" before the first query
  noticing,           \* how far the sending chain is
  multicastAlive,        \* the thread of ioc_multicast runs
  got,                \* history: the datagrams that were received
  responded           \* history: what was given to async_send_to, and why

listenVars == <<listening, receiver_endpoint_, response_message_>>
multicastVars == <<listenVars, noticing, multicastAlive, got, responded>>

Response == [to : Hosts, text : {"nothing", "Response"}, re : 1..MaxDatagrams]

-----------------------------------------------------------------------------
(* A datagram comes in.  Receiving completes with its sender's endpoint.   *)
Arrive(datagram) ==
  /\ listening = "receiving"
  /\ Len(got) < MaxDatagrams
  /\ listening' = "received"
  /\ receiver_endpoint_' = datagram.from
  /\ got' = Append(got, datagram)
  /\ UNCHANGED <<response_message_, noticing, multicastAlive, responded>>

ReceiveFails ==
  /\ listening = "receiving"
  /\ listening' = "failed"
  /\ UNCHANGED <<receiver_endpoint_, response_message_, noticing, multicastAlive,
                 got, responded>>

Handles(contents) ==
  /\ multicastAlive
  /\ listening = "received" /\ got[Len(got)].content \in contents

Ignore ==
  /\ Handles({"unreadable", "Notice"})
  /\ listening' = "receiving"
  /\ UNCHANGED <<receiver_endpoint_, response_message_, noticing, multicastAlive,
                 got, responded>>

(* json_v.as_object() throws out of the handler.                           *)
Throw ==
  /\ Handles({"notObject"})
  /\ multicastAlive' = FALSE
  /\ UNCHANGED <<listenVars, noticing, got, responded>>

(* Mutant: the text is only set once it was sent.                          *)
DoResponseBeforeSet ==
  /\ Handles({"Query", "other"})
  /\ response_message_' =
       IF got[Len(got)].content = "Query" THEN "Response" ELSE response_message_
  /\ listening' = "responding"
  /\ responded' = Append(responded,
       [to |-> receiver_endpoint_, text |-> response_message_, re |-> Len(got)])
  /\ UNCHANGED <<receiver_endpoint_, noticing, multicastAlive, got>>

(* A query sets the text of the response.  A datagram with another flag is *)
(* responded to as well, with the text that is there.                      *)
DoResponse ==
  /\ Handles({"Query", "other"})
  /\ response_message_' =
       IF got[Len(got)].content = "Query" THEN "Response" ELSE response_message_
  /\ listening' = "responding"
  /\ responded' = Append(responded,
       [to |-> receiver_endpoint_, text |-> response_message_', re |-> Len(got)])
  /\ UNCHANGED <<receiver_endpoint_, noticing, multicastAlive, got>>

(* Mutant: the chain ends with the response.                               *)
ResponseSentEnds ==
  /\ multicastAlive /\ listening = "responding"
  /\ listening' = "idle"
  /\ UNCHANGED <<receiver_endpoint_, response_message_, noticing, multicastAlive,
                 got, responded>>

ResponseSent ==
  /\ multicastAlive /\ listening = "responding"
  /\ listening' = "receiving"
  /\ UNCHANGED <<receiver_endpoint_, response_message_, noticing, multicastAlive,
                 got, responded>>

ResponseFails ==
  /\ multicastAlive /\ listening = "responding"
  /\ listening' = "failed"
  /\ UNCHANGED <<receiver_endpoint_, response_message_, noticing, multicastAlive,
                 got, responded>>

-----------------------------------------------------------------------------
NoticeSent ==
  /\ multicastAlive /\ noticing = "sending"
  /\ noticing' = "waiting"
  /\ UNCHANGED <<listenVars, multicastAlive, got, responded>>

NoticeFails ==
  /\ multicastAlive /\ noticing = "sending"
  /\ noticing' = "failed"
  /\ UNCHANGED <<listenVars, multicastAlive, got, responded>>

(* Mutant: the timer is not followed by another notice.                    *)
TimerExpiresEnds ==
  /\ multicastAlive /\ noticing = "waiting"
  /\ noticing' = "idle"
  /\ UNCHANGED <<listenVars, multicastAlive, got, responded>>

TimerExpires ==
  /\ multicastAlive /\ noticing = "waiting"
  /\ noticing' = "sending"
  /\ UNCHANGED <<listenVars, multicastAlive, got, responded>>

-----------------------------------------------------------------------------
(* start(), when the sockets could be set up.                              *)
MulticastInit ==
  /\ listening = "receiving" /\ noticing = "sending"
  /\ receiver_endpoint_ \in Hosts      \* of no meaning before a datagram
  /\ response_message_ = "nothing"
  /\ multicastAlive = TRUE
  /\ got = <<>> /\ responded = <<>>

HandleDatagram == Ignore \/ Throw \/ DoResponse
ResponseDone   == ResponseSent \/ ResponseFails
NoticeDone     == NoticeSent \/ NoticeFails

MulticastNext == \/ \E datagram \in Datagrams : Arrive(datagram)
        \/ ReceiveFails
        \/ HandleDatagram \/ ResponseDone
        \/ NoticeDone \/ TimerExpires

MulticastSpec == MulticastInit /\ [][MulticastNext]_multicastVars

(* The thread runs its handlers, sends end one way or the other, and the   *)
(* timer expires.  No datagram has to come.                                *)
MulticastFairSpec == /\ MulticastSpec
            /\ WF_multicastVars(HandleDatagram) /\ WF_multicastVars(ResponseDone)
            /\ WF_multicastVars(NoticeDone) /\ WF_multicastVars(TimerExpires)

-----------------------------------------------------------------------------
(* The type invariant.  Each of the two chains has one asynchronous        *)
(* operation pending, or none after an error.                              *)
MulticastTypeOK ==
  /\ listening \in {"receiving", "received", "responding", "failed"}
  /\ noticing \in {"sending", "waiting", "failed"}
  /\ receiver_endpoint_ \in Hosts /\ response_message_ \in {"nothing", "Response"}
  /\ multicastAlive \in BOOLEAN
  /\ got \in Seq(Datagrams) /\ responded \in Seq(Response)

Answered(d) == \E i \in DOMAIN responded : responded[i].re = d

(* The types; and every query that was handled was responded to, once, in  *)
(* the order in which the queries came, to where it came from, with the    *)
(* text of a response.  A notice, which the terminal may have sent itself, *)
(* never is responded to.  While a response is sent, the text that is sent *)
(* from stays as it was given, and no later datagram is taken.  What the   *)
(* code does with another flag, which it says it ignores, is left open.    *)
QueriesAreAnswered ==
  /\ MulticastTypeOK
  /\ \A d \in DOMAIN got :
       got[d].content = "Query" /\ (d = Len(got) => listening # "received")
         => Answered(d)
  /\ \A i \in DOMAIN responded :
       LET d == responded[i].re IN
         /\ \A j \in 1..(i - 1) : responded[j].re < d
         /\ d \in DOMAIN got
         /\ responded[i].to = got[d].from
         /\ got[d].content # "Notice"
         /\ got[d].content = "Query" => responded[i].text = "Response"
  /\ listening = "responding" =>
       LET last == responded[Len(responded)]
       IN last.re = Len(got) /\ last.text = response_message_

(* The terminal goes on listening whatever it received, unless a receive   *)
(* or a response failed, and the notices go on, whatever becomes of the    *)
(* listening chain, unless one of them cannot be sent; only JSON that is   *)
(* not an object ends both.                                                *)
BothChainsGoOn ==
  LET ended == ~multicastAlive /\ \E d \in DOMAIN got : got[d].content = "notObject"
  IN /\ []<>(listening \in {"receiving", "failed"} \/ ended)
     /\ []<>(noticing \in {"sending", "failed"} \/ ended)
=============================================================================
