----------------------------- MODULE WebControl -----------------------------
(***************************************************************************)
(* The web control service: a small web server whose sessions serve one    *)
(* request after the other, and CmdExecute, which runs a program for a     *)
(* request under /cmd/ and answers when the program's output has ended.    *)
(* Server, sessions, mails and the reads from programs share the thread of *)
(* ioc_web_static.                                                         *)
(*                                                                         *)
(* An item of CmdExecute is kept alive by the handler that reads its       *)
(* program's output, and, by a circle of references, by its own callback   *)
(* until that was called.  The pool only knows of the items.               *)
(***************************************************************************)
EXTENDS Naturals, Sequences, FiniteSets

CONSTANTS
  Sessions,     \* the connections that may be accepted
  Cmds,         \* the commands that are asked for
  MaxRequests   \* bound: how many requests come in on one connection

Fields == {"apEnable", "SSID", "PASSWORD", "DEVICE_NAME"}

(* CmdLookupTable: the parameters that a request for the command must      *)
(* have, and that its mail then carries.                                   *)
CmdLookupTable ==
  [listWlanDevice |-> {}, enable |-> {}, scan |-> {},
   showHotspotPassword |-> {"DEVICE_NAME"}, getWlanDeviceState |-> {"DEVICE_NAME"},
   ap |-> {"apEnable", "SSID", "PASSWORD"}, connect |-> {"SSID", "PASSWORD"}]

(* The texts CmdExecute puts into the command line, and checks before.     *)
Checked ==
  [listWlanDevice |-> {}, enable |-> {}, scan |-> {},
   showHotspotPassword |-> {}, getWlanDeviceState |-> {"DEVICE_NAME"},
   ap |-> {"SSID", "PASSWORD", "DEVICE_NAME"},
   connect |-> {"SSID", "PASSWORD", "DEVICE_NAME"}]

WifiCmd == DOMAIN CmdLookupTable

ASSUME WebControlAssumption ==
  IsFiniteSet(Sessions) /\ Cmds \subseteq WifiCmd /\ MaxRequests \in Nat

VARIABLES
  stage,         \* what each session does
  asked,         \* history: requests read by each session
  responses,     \* history: responses each session began to write
  queue,         \* mails posted and not received, both ways
  items,         \* the items of CmdExecute; an item's id is its index
  ceiPool_,      \* the ids in the pool
  programFound,  \* search_path finds the program of the configuration
  threadAlive    \* the thread of ioc_web_static runs, in a program that runs

sessionVars == <<stage, asked, responses>>
itemVars == <<items, ceiPool_>>
vars == <<sessionVars, queue, itemVars, programFound, threadAlive>>

Mail(s, cmd, fields) == [to |-> "cmd", session |-> s, cmd |-> cmd, fields |-> fields]
Answer(s) == [to |-> "web", session |-> s]

(* An item: its program runs, and its output and its error output are      *)
(* read; it waits for ever; or it is gone, its error output read or not.   *)
Item(s, cmd, state) ==
  [session |-> s, cmd |-> cmd, state |-> state, errRead |-> state = "running"]
Ids == DOMAIN items

Become(s, st) == stage' = [stage EXCEPT ![s] = st]

-----------------------------------------------------------------------------
(* on_accept makes a session, which reads; the server accepts again.       *)
Accept(s) ==
  /\ stage[s] = "none"
  /\ Become(s, "reading")
  /\ UNCHANGED <<asked, responses, queue, itemVars, programFound, threadAlive>>

(* The client closed the connection, the read failed, or nothing came for  *)
(* two minutes: nobody holds the session any more.                         *)
ReadEnds(s) ==
  /\ stage[s] = "reading"
  /\ Become(s, "gone")
  /\ UNCHANGED <<asked, responses, queue, itemVars, programFound, threadAlive>>

(* lambda_: the response is handed to async_write.                         *)
Send(s) ==
  /\ Become(s, "writing")
  /\ responses' = [responses EXCEPT ![s] = @ + 1]

(* A request has been read.                                                *)
Read(s) ==
  /\ stage[s] = "reading" /\ asked[s] < MaxRequests
  /\ asked' = [asked EXCEPT ![s] = @ + 1]
  /\ UNCHANGED <<itemVars, programFound>>

(* /backend, a file or why there is none, a command without a parameter.   *)
ReadAtOnce(s) ==
  /\ Read(s)
  /\ Send(s)
  /\ UNCHANGED <<queue, threadAlive>>

(* /cmd/ and something that is not in the table: no response; the session, *)
(* which nobody holds any more, closes the connection.                     *)
ReadUnknown(s) ==
  /\ Read(s)
  /\ Become(s, "gone")
  /\ UNCHANGED <<responses, queue, threadAlive>>

(* /cmd/ and a target that is no URI reference: value() throws out of the  *)
(* handler, and of io_context::run.                                        *)
ReadNoUri(s) ==
  /\ Read(s)
  /\ threadAlive' = FALSE
  /\ UNCHANGED <<stage, responses, queue>>

(* A command whose parameters are there: those in good are such as         *)
(* CmdExecute takes.  The runner of its mail holds the session.            *)
ReadCmd(s, cmd, good) ==
  /\ Read(s)
  /\ Become(s, "waiting")
  /\ queue' = Append(queue, Mail(s, cmd, good))
  /\ UNCHANGED <<responses, threadAlive>>

OnRead(s) == \/ ReadAtOnce(s)
             \/ ReadUnknown(s)
             \/ ReadNoUri(s)
             \/ \E cmd \in Cmds : \E good \in SUBSET (CmdLookupTable[cmd] \cap Checked[cmd]) :
                  ReadCmd(s, cmd, good)

-----------------------------------------------------------------------------
Takes(to) == queue # <<>> /\ Head(queue).to = to
mail == Head(queue)
Fine(m) == Checked[m.cmd] \subseteq m.fields
CreateCEI(state) ==
  /\ items' = Append(items, Item(mail.session, mail.cmd, state))
  /\ ceiPool_' = ceiPool_ \cup {Len(items) + 1}

(* Mutant: the refusal does not return.                                    *)
RefuseGoesOn ==
  /\ Takes("cmd") /\ ~Fine(mail)
  /\ queue' = Append(Tail(queue), Answer(mail.session))
  /\ CreateCEI("running")
  /\ UNCHANGED <<sessionVars, programFound, threadAlive>>

(* A text in the mail is not as it should be: an answer that is not ok.    *)
Refuse ==
  /\ Takes("cmd") /\ ~Fine(mail)
  /\ queue' = Append(Tail(queue), Answer(mail.session))
  /\ UNCHANGED <<sessionVars, itemVars, programFound, threadAlive>>

(* start() does not find the program and returns false, which nobody looks *)
(* at: its callback is never called, and keeps the item, the mail and the  *)
(* session.                                                                *)
StartFindsNothing ==
  /\ Takes("cmd") /\ Fine(mail) /\ ~programFound
  /\ CreateCEI("leaked")
  /\ queue' = Tail(queue)
  /\ UNCHANGED <<sessionVars, programFound, threadAlive>>

(* The program cannot be started: the constructor of the child throws.     *)
StartThrows ==
  /\ Takes("cmd") /\ Fine(mail) /\ programFound
  /\ CreateCEI("leaked")
  /\ queue' = Tail(queue)
  /\ threadAlive' = FALSE
  /\ UNCHANGED <<sessionVars, programFound>>

Start ==
  /\ Takes("cmd") /\ Fine(mail) /\ programFound
  /\ CreateCEI("running")
  /\ queue' = Tail(queue)
  /\ UNCHANGED <<sessionVars, programFound, threadAlive>>

(* Mutant: the item's destructor does not tell the pool, which is cleaned  *)
(* of the others only.                                                     *)
RemoveCEIOthers(i) ==
  ceiPool_' = {j \in ceiPool_ : j = i \/ items[j].state # "gone"}

(* The item is destroyed: its entry goes, and those of items that went.    *)
RemoveCEI(i) == ceiPool_' = {j \in ceiPool_ \ {i} : items[j].state # "gone"}

(* Mutant: the callback is called only when the read ended without error.  *)
OutputEndsSilently(i) ==
  /\ items[i].state = "running"
  /\ items' = [items EXCEPT ![i].state = "gone"]
  /\ RemoveCEI(i)
  /\ UNCHANGED <<sessionVars, queue, programFound, threadAlive>>

(* The read of the output ends, as it always does, with the error "end of  *)
(* file".  The callback sends the answer that the program failed; then     *)
(* nobody holds the item, and what is left of its program is ended.        *)
OutputEnds(i) ==
  /\ items[i].state = "running"
  /\ items' = [items EXCEPT ![i].state = "gone"]
  /\ RemoveCEI(i)
  /\ queue' = Append(queue, Answer(items[i].session))
  /\ UNCHANGED <<sessionVars, programFound, threadAlive>>

(* Mutant: the end of either output calls the callback.                    *)
ErrorOutputAnswers(i) ==
  /\ items[i].errRead
  /\ items' = [items EXCEPT ![i].errRead = FALSE]
  /\ queue' = Append(queue, Answer(items[i].session))
  /\ UNCHANGED <<sessionVars, ceiPool_, programFound, threadAlive>>

(* The read of the error output ends.  Its handler does not hold the item: *)
(* if that is gone it uses memory that was given back, and the program may *)
(* end.                                                                    *)
ErrorOutputEnds(i) ==
  /\ items[i].errRead
  /\ items' = [items EXCEPT ![i].errRead = FALSE]
  /\ \/ UNCHANGED threadAlive
     \/ items[i].state = "gone" /\ threadAlive' = FALSE
  /\ UNCHANGED <<sessionVars, queue, ceiPool_, programFound>>

-----------------------------------------------------------------------------
(* receiveMail: the answer's runner sends the response.                    *)
Respond ==
  /\ Takes("web")
  /\ Send(mail.session)
  /\ queue' = Tail(queue)
  /\ UNCHANGED <<asked, itemVars, programFound, threadAlive>>

(* on_write: the next request is read, or the session ends, because of an  *)
(* error (the two minutes since do_read may be over) or because the        *)
(* response says so.                                                       *)
OnWrite(s) ==
  /\ stage[s] = "writing"
  /\ \E st \in {"reading", "gone"} : Become(s, st)
  /\ UNCHANGED <<asked, responses, queue, itemVars, programFound, threadAlive>>

-----------------------------------------------------------------------------
Init ==
  /\ stage = [s \in Sessions |-> "none"]
  /\ asked = [s \in Sessions |-> 0] /\ responses = [s \in Sessions |-> 0]
  /\ queue = <<>>
  /\ items = <<>> /\ ceiPool_ = {}
  /\ programFound \in BOOLEAN /\ threadAlive = TRUE

ReceiveMail == \/ Refuse
               \/ StartFindsNothing
               \/ StartThrows
               \/ Start
               \/ Respond

Next ==
  /\ threadAlive
  /\ \/ \E s \in Sessions : Accept(s) \/ ReadEnds(s) \/ OnRead(s) \/ OnWrite(s)
     \/ ReceiveMail
     \/ \E i \in Ids : OutputEnds(i) \/ ErrorOutputEnds(i)

Spec == Init /\ [][Next]_vars

(* The thread runs what is posted, writes end one way or the other, and    *)
(* programs come to an end by themselves: nothing in the code stops one.   *)
Fairness ==
  /\ WF_vars(threadAlive /\ ReceiveMail)
  /\ \A s \in Sessions : WF_vars(threadAlive /\ OnWrite(s))
  /\ \A i \in 1..(MaxRequests * Cardinality(Sessions)) :
       WF_vars(threadAlive /\ i \in Ids /\ OutputEnds(i))

FairSpec == Spec /\ Fairness

-----------------------------------------------------------------------------
Mails == [to : {"cmd"}, session : Sessions, cmd : Cmds, fields : SUBSET Fields]
           \cup [to : {"web"}, session : Sessions]
Items == [session : Sessions, cmd : Cmds, errRead : BOOLEAN,
          state : {"running", "leaked", "gone"}]

(* The type invariant.                                                     *)
TypeOK ==
  /\ stage \in [Sessions -> {"none", "reading", "waiting", "writing", "gone"}]
  /\ asked \in [Sessions -> 0..MaxRequests]
  /\ responses \in [Sessions -> 0..MaxRequests]
  /\ queue \in Seq(Mails)
  /\ items \in Seq(Items)
  /\ ceiPool_ \subseteq Ids
  /\ programFound \in BOOLEAN /\ threadAlive \in BOOLEAN

(* What a session may wait for: its mail, its answer, or a program.        *)
Awaited(s) ==
  {<<"mail", i>> : i \in {j \in DOMAIN queue : queue[j].session = s}}
    \cup {<<"item", i>> : i \in {j \in Ids : items[j].session = s /\ items[j].state # "gone"}}

(* The types; and a session waits for exactly one thing, and otherwise for *)
(* nothing: no response is written while another one is, or while a        *)
(* request is read, and requests and responses correspond.                 *)
OneAnswerUnderWay ==
  /\ TypeOK
  /\ \A s \in Sessions :
       /\ Cardinality(Awaited(s)) = IF stage[s] = "waiting" THEN 1 ELSE 0
       /\ responses[s] \in {asked[s] - 1, asked[s]}
       /\ stage[s] = "writing" => responses[s] = asked[s]
       /\ stage[s] = "waiting" => responses[s] = asked[s] - 1

(* The pool does not grow with the requests: its entries are the items of  *)
(* sessions that wait, one each.                                           *)
PoolIsBounded ==
  /\ \A i \in ceiPool_ : stage[items[i].session] = "waiting"
  /\ \A i, j \in ceiPool_ : items[i].session = items[j].session => i = j

(* The sessions, seen by their browsers.                                   *)
Link(s) == CASE stage[s] = "none" -> "none"
             [] stage[s] = "gone" -> "over"
             [] OTHER             -> "open"
Exchange == INSTANCE RequestResponse WITH
  Clients  <- Sessions,
  link     <- [s \in Sessions |-> Link(s)],
  answered <- responses

(* The service keeps the promise of RequestResponse: a session takes a     *)
(* request only when the one before it was answered, answers none twice,   *)
(* whichever of its answers come from programs, and ends with none open.   *)
ExchangeSpec == Exchange!ExchangeSpec

(* Who waits for a command is answered in the end, whatever becomes of the *)
(* program, as long as there is one to start and the thread lives.         *)
EveryCommandAnswered ==
  \A s \in Sessions :
    stage[s] = "waiting" ~> stage[s] # "waiting" \/ ~programFound \/ ~threadAlive
=============================================================================
