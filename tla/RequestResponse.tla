-------------------------- MODULE RequestResponse --------------------------
(***************************************************************************)
(* What a connection to one of the program's web servers promises its      *)
(* client.  Requests are taken one after the other, none before the one    *)
(* before it was answered.  There is no response without a request, and    *)
(* one at most for each.  A connection is over when all its requests were  *)
(* answered, or at once with a request that is refused without a response; *)
(* after that nothing is taken or answered.  A deadline may close the      *)
(* socket at any time; what was asked for is then answered all the same,   *)
(* though the client does not see it.                                      *)
(***************************************************************************)
EXTENDS Naturals

CONSTANT Clients

VARIABLES link,      \* the connection of each client
          asked,     \* requests taken from it
          answered   \* responses given to it

exchangeVars == <<link, asked, answered>>

ExchangeInit ==
  /\ link = [c \in Clients |-> "none"]
  /\ asked = [c \in Clients |-> 0] /\ answered = [c \in Clients |-> 0]

Served == {"open", "timedOut"}
SetLink(c, to) == link' = [link EXCEPT ![c] = to]
Count(c) == answered' = [answered EXCEPT ![c] = @ + 1]

Connect(c) ==
  /\ link[c] = "none"
  /\ SetLink(c, "open")
  /\ UNCHANGED <<asked, answered>>

TimeOut(c) ==
  /\ link[c] = "open"
  /\ SetLink(c, "timedOut")
  /\ UNCHANGED <<asked, answered>>

(* A request is answered at once, or later, or refused.                    *)
Take(c) ==
  /\ link[c] \in Served /\ asked[c] = answered[c]
  /\ asked' = [asked EXCEPT ![c] = @ + 1]
  /\ \/ Count(c) /\ UNCHANGED link
     \/ UNCHANGED <<link, answered>>
     \/ SetLink(c, "over") /\ UNCHANGED answered

Answer(c) ==
  /\ link[c] \in Served /\ answered[c] < asked[c]
  /\ Count(c)
  /\ UNCHANGED <<link, asked>>

End(c) ==
  /\ link[c] \in Served /\ asked[c] = answered[c]
  /\ SetLink(c, "over")
  /\ UNCHANGED <<asked, answered>>

ExchangeNext ==
  \E c \in Clients :
    Connect(c) \/ TimeOut(c) \/ Take(c) \/ Answer(c) \/ End(c)

ExchangeSpec == ExchangeInit /\ [][ExchangeNext]_exchangeVars
=============================================================================
