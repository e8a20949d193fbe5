--------------------------- MODULE HttpConnection ---------------------------
(***************************************************************************)
(* A connection of an HTTP service: one request, at most one response, and *)
(* a deadline of sixty seconds that closes the socket.  The command        *)
(* service and the image service hold the same class twice, with different *)
(* handlers for the request; what they have in common is here.             *)
(***************************************************************************)
EXTENDS Integers

CONSTANT Conns   \* the connections a behaviour may have

VARIABLES
  stage,     \* what the connection's object is doing
  request,   \* request_
  socket,    \* socket_: open or not
  deadline,  \* deadline_: armed or not
  responses  \* how many responses were given to async_write

connVars == <<stage, request, socket, deadline, responses>>

Stages == {"none", "reading", "waiting", "replying", "idle", "done"}
NoRequest == [kind |-> "none"]

Become(c, s) == stage' = [stage EXCEPT ![c] = s]

(* Mutant: the connection starts without a deadline.                       *)
AcceptWithoutDeadline(c) ==
  /\ stage[c] = "none"
  /\ Become(c, "reading")
  /\ socket' = [socket EXCEPT ![c] = TRUE]
  /\ UNCHANGED <<request, deadline, responses>>

(* on_accept makes the connection and starts it, and accepts another.      *)
Accept(c) ==
  /\ stage[c] = "none"
  /\ Become(c, "reading")
  /\ socket' = [socket EXCEPT ![c] = TRUE]
  /\ deadline' = [deadline EXCEPT ![c] = TRUE]
  /\ UNCHANGED <<request, responses>>

(* A read error ends the reading and nothing else.                         *)
ReadFails(c) ==
  /\ stage[c] = "reading"
  /\ Become(c, "idle")
  /\ UNCHANGED <<request, socket, deadline, responses>>

(* The request is complete, and its handler leaves the connection in stage *)
(* s.  The deadline may have closed the socket while the completion was    *)
(* waiting to run: the request is handled all the same.                    *)
ReadRequest(c, r, s) ==
  /\ stage[c] = "reading"
  /\ Become(c, s)
  /\ request' = [request EXCEPT ![c] = r]
  /\ responses' = [responses EXCEPT ![c] = IF s = "replying" THEN @ + 1 ELSE @]
  /\ UNCHANGED <<socket, deadline>>

(* write_response: the response goes to async_write.                       *)
Respond(c) ==
  /\ Become(c, "replying")
  /\ responses' = [responses EXCEPT ![c] = @ + 1]
  /\ UNCHANGED <<request, socket, deadline>>

(* The response was written, or the socket was closed under it: the        *)
(* deadline is cancelled, nobody holds the connection, its socket closes.  *)
ResponseWritten(c) ==
  /\ stage[c] = "replying"
  /\ Become(c, "done")
  /\ deadline' = [deadline EXCEPT ![c] = FALSE]
  /\ socket' = [socket EXCEPT ![c] = FALSE]
  /\ UNCHANGED <<request, responses>>

(* Mutant: the deadline gives the connection up, with a mail under way.    *)
DeadlineEnds(c) ==
  /\ deadline[c]
  /\ Become(c, "done")
  /\ deadline' = [deadline EXCEPT ![c] = FALSE]
  /\ socket' = [socket EXCEPT ![c] = FALSE]
  /\ UNCHANGED <<request, responses>>

(* check_deadline: sixty seconds after the accept.                         *)
DeadlineExpires(c) ==
  /\ deadline[c]
  /\ deadline' = [deadline EXCEPT ![c] = FALSE]
  /\ socket' = [socket EXCEPT ![c] = FALSE]
  /\ UNCHANGED <<stage, request, responses>>

(* What a connection does that does not concern its service.               *)
ConnectionStep(c) == \/ Accept(c)
                     \/ ReadFails(c)
                     \/ ResponseWritten(c)
                     \/ DeadlineExpires(c)

ConnInit ==
  /\ stage = [c \in Conns |-> "none"]
  /\ request = [c \in Conns |-> NoRequest]
  /\ socket = [c \in Conns |-> FALSE] /\ deadline = [c \in Conns |-> FALSE]
  /\ responses = [c \in Conns |-> 0]

(* The type of the connections, with the requests of their service.        *)
ConnTypeOK(requests) ==
  /\ stage \in [Conns -> Stages]
  /\ request \in [Conns -> requests \cup {NoRequest}]
  /\ socket \in [Conns -> BOOLEAN] /\ deadline \in [Conns -> BOOLEAN]
  /\ responses \in [Conns -> 0..1]

-----------------------------------------------------------------------------
(* The connections, seen by their clients.                                 *)
Link(c) ==
  CASE stage[c] = "none"             -> "none"
    [] stage[c] \in {"idle", "done"} -> "over"
    [] OTHER -> IF socket[c] THEN "open" ELSE "timedOut"
Links     == [c \in Conns |-> Link(c)]
AskedOnce == [c \in Conns |-> IF request[c] = NoRequest THEN 0 ELSE 1]

Exchange == INSTANCE RequestResponse WITH
  Clients <- Conns, link <- Links, asked <- AskedOnce, answered <- responses

(* The service keeps the promise of RequestResponse: a client is answered  *)
(* once at most, on whatever path the answer came and however late, only   *)
(* after it asked, and never when its connection was given up.             *)
ExchangeSpec == Exchange!ExchangeSpec
=============================================================================
