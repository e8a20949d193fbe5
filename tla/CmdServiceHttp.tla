--------------------------- MODULE CmdServiceHttp ---------------------------
(***************************************************************************)
(* The HTTP command service.  Every connection carries one request.  Some  *)
(* are answered at once, a command by way of the serial controller, the    *)
(* state of the airplane by way of the serial controller and perhaps the   *)
(* map calculation, and a list of tags by a coroutine that asks the serial *)
(* controller for the state, the map calculation for the position, and     *)
(* sends the result to the serial controller.  A deadline closes           *)
(* connections that take too long.                                         *)
(*                                                                         *)
(* Service and serial controller share the thread of ioc_cmd, the map      *)
(* calculation has its own; each thread has one FIFO of handlers.  What    *)
(* the serial controller does with a mail is SerialController's matter:    *)
(* here it answers at once, or writes and answers later.                   *)
(***************************************************************************)
EXTENDS HttpConnection, Sequences, FiniteSets, PackageFilter

CONSTANTS
  Commands,   \* the packages of POST /cmd
  OtherKinds  \* the other requests that are made

(* The other requests: everything that is answered at once, GET            *)
(* /AirplaneState, and POST /tagInfo with a list and a centre, with only   *)
(* one of the two, with a body the handler throws on, and with a tag one   *)
(* of whose numbers is not of the kind the handler takes it for.           *)
Kinds == {"atOnce", "state", "tag", "halfTag", "badTag", "illTypedTag"}

ASSUME OtherKindsAssumption == OtherKinds \subseteq Kinds

Request(kind) == [kind |-> kind]
CmdRequest(p) == [kind |-> "cmd", package |-> p]
Requests == {Request(k) : k \in OtherKinds} \cup {CmdRequest(p) : p \in Commands}

VARIABLES
  known,     \* cmdPackageIdentify
  queue,     \* handlers posted to ioc_cmd and not run yet
  mapQueue,  \* handlers posted to ioc_map_calc and not run yet
  writing,   \* mails whose frames the serial controller is writing
  mapAlive,  \* the thread of ioc_map_calc runs
  aborted,   \* "no", or what ended the program: "tag" or "reader"
  tagsIn,    \* history: connections in the order their tags came in
  tagsOut    \* history: connections in the order their tags reached serial

mailVars == <<queue, mapQueue, writing>>
tagVars  == <<tagsIn, tagsOut>>
vars == <<connVars, known, mailVars, mapAlive, aborted, tagVars>>

Steps == {"cmd", "state", "stateMap", "tagState", "tagMap", "tag"}
Mail(at, c, step) == [at |-> at, conn |-> c, step |-> step, ok |-> TRUE]
Answer(m, ok)     == [at |-> "service", conn |-> m.conn, step |-> m.step, ok |-> ok]
Mails == [at : {"serial", "map", "service"}, conn : Conns, step : Steps, ok : BOOLEAN]

-----------------------------------------------------------------------------
PostToSerial(c, step) == queue' = Append(queue, Mail("serial", c, step))

ReadAtOnce(c) ==
  /\ ReadRequest(c, Request("atOnce"), "replying")
  /\ UNCHANGED <<queue, known, tagsIn>>

(* POST /cmd.  The filter drops a package without an answer.               *)
ReadCommand(c, p) ==
  /\ \/ /\ Ignored(known, p)
        /\ ReadRequest(c, CmdRequest(p), "idle")
        /\ UNCHANGED queue
     \/ /\ ~Ignored(known, p)
        /\ ReadRequest(c, CmdRequest(p), "waiting")
        /\ PostToSerial(c, "cmd")
  /\ known' = Remember(known, p)
  /\ UNCHANGED tagsIn

ReadState(c) ==
  /\ ReadRequest(c, Request("state"), "waiting")
  /\ PostToSerial(c, "state")
  /\ UNCHANGED <<known, tagsIn>>

ReadTag(c) ==
  /\ \E k \in {"tag", "halfTag"} \cap OtherKinds :
       ReadRequest(c, Request(k), "waiting")
  /\ PostToSerial(c, "tagState")
  /\ tagsIn' = Append(tagsIn, c)
  /\ UNCHANGED known

(* The body of POST /tagInfo is no object, or a tag in it is none, or it   *)
(* is too long for its storage: the exception is logged, and that is all.  *)
ReadBadTag(c) ==
  /\ ReadRequest(c, Request("badTag"), "idle")
  /\ UNCHANGED <<queue, known, tagsIn>>

ProcessRequest(c) ==
  /\ \/ "atOnce" \in OtherKinds /\ ReadAtOnce(c)
     \/ \E p \in Commands : ReadCommand(c, p)
     \/ "state" \in OtherKinds /\ ReadState(c)
     \/ ReadTag(c)
     \/ "badTag" \in OtherKinds /\ ReadBadTag(c)
  /\ UNCHANGED <<mapQueue, writing, mapAlive, aborted, tagsOut>>

(* A number of a tag has another kind: get_int64 and get_double assert     *)
(* theirs instead of throwing, and the program ends.                       *)
ReadIllTypedTag(c) ==
  /\ "illTypedTag" \in OtherKinds
  /\ ReadRequest(c, Request("illTypedTag"), "idle")
  /\ aborted' = "tag"
  /\ UNCHANGED <<known, mailVars, mapAlive, tagVars>>

-----------------------------------------------------------------------------
(* The serial controller, from outside.  The state is answered at once; a  *)
(* command or a tag is answered at once or written, the tag always whole.  *)
SerialReceives ==
  /\ queue # <<>> /\ Head(queue).at = "serial"
  /\ LET m == Head(queue)
     IN /\ \/ \E ok \in IF m.step = "cmd" THEN BOOLEAN ELSE {TRUE} :
                queue' = Append(Tail(queue), Answer(m, ok)) /\ UNCHANGED writing
           \/ /\ m.step \in {"cmd", "tag"}
              /\ queue' = Tail(queue) /\ writing' = writing \cup {m}
        /\ tagsOut' = IF m.step = "tag" THEN Append(tagsOut, m.conn) ELSE tagsOut
  /\ UNCHANGED <<connVars, known, mapQueue, mapAlive, aborted, tagsIn>>

SerialWritten(m) ==
  /\ \E ok \in BOOLEAN : queue' = Append(queue, Answer(m, ok))
  /\ writing' = writing \ {m}
  /\ UNCHANGED <<connVars, known, mapQueue, mapAlive, aborted, tagVars>>

(* Opening the serial port a second time, for whatever command, may make   *)
(* the state reader end the program; SerialController says when.           *)
ReaderStops ==
  /\ aborted' = "reader"
  /\ UNCHANGED <<connVars, known, mailVars, mapAlive, tagVars>>

(* Mutant: two threads run ioc_map_calc.                                   *)
MapCalcTwoThreads ==
  /\ mapAlive
  /\ mapQueue # <<>>
  /\ \E i \in DOMAIN mapQueue, ok \in BOOLEAN :
       /\ i <= 2
       /\ queue' = Append(queue, Answer(mapQueue[i], ok))
       /\ mapQueue' = SubSeq(mapQueue, 1, i - 1)
                        \o SubSeq(mapQueue, i + 1, Len(mapQueue))
  /\ UNCHANGED <<connVars, known, writing, mapAlive, aborted, tagVars>>

(* The map calculation, from outside: it answers with a position or none   *)
(* (there is no script, or the script failed).  An exception while its     *)
(* input is built is thrown on and ends the thread.                        *)
MapCalcReceives ==
  /\ mapAlive
  /\ mapQueue # <<>>
  /\ \E ok \in BOOLEAN : queue' = Append(queue, Answer(Head(mapQueue), ok))
  /\ mapQueue' = Tail(mapQueue)
  /\ UNCHANGED <<connVars, known, writing, mapAlive, aborted, tagVars>>

MapCalcThrows ==
  /\ mapAlive
  /\ mapQueue # <<>>
  /\ mapQueue' = Tail(mapQueue)
  /\ mapAlive' = FALSE
  /\ UNCHANGED <<connVars, known, queue, writing, aborted, tagVars>>

-----------------------------------------------------------------------------
(* An answer comes back to the service and its runner is called.           *)
Runs(steps) ==
  /\ queue # <<>> /\ Head(queue).at = "service" /\ Head(queue).step \in steps
conn == Head(queue).conn

(* Mutant: only a success is answered.                                     *)
AnswerIsLastIfOk ==
  /\ \/ Runs({"cmd", "state", "stateMap", "tag"}) /\ Head(queue).ok
     \/ Runs({"tagState", "tagMap"}) /\ ~Head(queue).ok
  /\ Respond(conn)
  /\ queue' = Tail(queue)
  /\ UNCHANGED <<known, mapQueue, writing, mapAlive, aborted, tagVars>>

(* The last answer of a chain is turned into the response.                 *)
AnswerIsLast ==
  /\ \/ Runs({"cmd", "state", "stateMap", "tag"})
     \/ Runs({"tagState", "tagMap"}) /\ ~Head(queue).ok
  /\ Respond(conn)
  /\ queue' = Tail(queue)
  /\ UNCHANGED <<known, mapQueue, writing, mapAlive, aborted, tagVars>>

(* Mutant: the answer is forgotten when the map calculation is asked.      *)
AskMapAndRespond ==
  /\ Runs({"state", "tagState"}) /\ Head(queue).ok
  /\ mapQueue' = Append(mapQueue,
       Mail("map", conn, IF Head(queue).step = "state" THEN "stateMap" ELSE "tagMap"))
  /\ queue' = Tail(queue)
  /\ Respond(conn)
  /\ UNCHANGED <<known, writing, mapAlive, aborted, tagVars>>

(* The state came without a position (GET), or the tags need one (POST).   *)
AskMap ==
  /\ Runs({"state", "tagState"}) /\ Head(queue).ok
  /\ mapQueue' = Append(mapQueue,
       Mail("map", conn, IF Head(queue).step = "state" THEN "stateMap" ELSE "tagMap"))
  /\ queue' = Tail(queue)
  /\ UNCHANGED <<connVars, known, writing, mapAlive, aborted, tagVars>>

(* With a position, the coroutine asserts that there is both a list of     *)
(* tags and a centre.                                                      *)
AssertFails ==
  /\ Runs({"tagMap"}) /\ Head(queue).ok
  /\ request[conn].kind = "halfTag"
  /\ aborted' = "tag"
  /\ UNCHANGED <<connVars, known, mailVars, mapAlive, tagVars>>

SendTag ==
  /\ Runs({"tagMap"}) /\ Head(queue).ok
  /\ request[conn].kind = "tag"
  /\ queue' = Append(Tail(queue), Mail("serial", conn, "tag"))
  /\ UNCHANGED <<connVars, known, mapQueue, writing, mapAlive, aborted, tagVars>>

-----------------------------------------------------------------------------
Init ==
  /\ ConnInit
  /\ known = NothingKnown
  /\ queue = <<>> /\ mapQueue = <<>> /\ writing = {}
  /\ mapAlive = TRUE /\ aborted = "no"
  /\ tagsIn = <<>> /\ tagsOut = <<>>

RunHandler == \/ SerialReceives
              \/ AnswerIsLast
              \/ AskMap
              \/ AssertFails
              \/ SendTag

RunMapHandler == MapCalcReceives \/ MapCalcThrows

Connection(c) ==
  ConnectionStep(c) /\ UNCHANGED <<known, mailVars, mapAlive, aborted, tagVars>>

Running == aborted = "no"

Next == /\ Running
        /\ \/ \E c \in Conns :
                Connection(c) \/ ProcessRequest(c) \/ ReadIllTypedTag(c)
           \/ RunHandler
           \/ RunMapHandler
           \/ \E m \in writing : SerialWritten(m)
           \/ ReaderStops

Spec == Init /\ [][Next]_vars

(* As long as the program runs, the threads run what is posted to them,    *)
(* writes end one way or the other, and an armed deadline expires.  Nobody *)
(* has to send a request.                                                  *)
Fairness ==
  /\ WF_vars(Running /\ RunHandler) /\ WF_vars(Running /\ RunMapHandler)
  /\ \A c \in Conns :
       /\ WF_vars(Running /\ ResponseWritten(c) /\ Connection(c))
       /\ WF_vars(Running /\ DeadlineExpires(c) /\ Connection(c))
       /\ WF_vars(Running /\ \E m \in writing : m.conn = c /\ SerialWritten(m))

FairSpec == Spec /\ Fairness

-----------------------------------------------------------------------------
(* The type invariant.  A connection's async_write is started once at most *)
(* (responses is 0 or 1), on whatever path its answer came.                *)
TypeOK ==
  /\ ConnTypeOK(Requests)
  /\ queue \in Seq(Mails) /\ mapQueue \in Seq(Mails) /\ writing \subseteq Mails
  /\ mapAlive \in BOOLEAN /\ aborted \in {"no", "tag", "reader"}
  /\ tagsIn \in Seq(Conns) /\ tagsOut \in Seq(Conns)

InFlight(c) ==
  Cardinality({i \in DOMAIN queue : queue[i].conn = c})
    + Cardinality({i \in DOMAIN mapQueue : mapQueue[i].conn = c})
    + Cardinality({m \in writing : m.conn = c})

(* The types; and a connection has one mail under way exactly while it     *)
(* waits, unless the map calculation died on it; so no connection is       *)
(* answered twice, and none that waits has been forgotten.                 *)
OneMailWhileWaiting ==
  /\ TypeOK
  /\ \A c \in Conns :
       /\ InFlight(c) <= 1
       /\ InFlight(c) = 1 => stage[c] = "waiting"
       /\ stage[c] = "waiting" /\ mapAlive => InFlight(c) = 1

(* Tags reach the serial controller in the order in which the requests     *)
(* came in, though three threads' queues lie between.                      *)
TagsStayInOrder ==
  \A i, j \in DOMAIN tagsOut :
    i < j => \E k, l \in DOMAIN tagsIn :
               k < l /\ tagsIn[k] = tagsOut[i] /\ tagsIn[l] = tagsOut[j]

(* The program ends early for one of two reasons.  POST /tagInfo asserts   *)
(* that each number of a tag has its kind, and, once it has a position,    *)
(* that there is both a list and a centre: the client chooses.  And the    *)
(* state reader asserts what a second opening of the port may break.       *)
TagAborts ==
  /\ aborted = "tag"
  /\ \E c \in Conns : request[c].kind \in {"halfTag", "illTypedTag"}
EndsEarly == TagAborts \/ aborted = "reader"

(* Every connection is closed in the end, answered or not, by its response *)
(* or its deadline; only these two assertions end the program before.      *)
EveryConnectionEnds ==
  \A c \in Conns : stage[c] = "reading" ~> ~socket[c] \/ EndsEarly

(* A command that reached the serial controller is answered in the end,    *)
(* unless one of these two assertions ends the program: another client's   *)
(* tags can take the answer of a command with them.                        *)
PassedCommandIsAnswered ==
  \A c \in Conns :
    stage[c] = "waiting" /\ request[c].kind = "cmd"
      ~> responses[c] = 1 \/ EndsEarly
=============================================================================
