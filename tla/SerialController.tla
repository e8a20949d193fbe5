-------------------------- MODULE SerialController --------------------------
(***************************************************************************)
(* The serial controller of the access terminal: it takes mails from the   *)
(* UDP and the HTTP command services, turns them into frames for the       *)
(* flight controller's serial port, answers every mail through its runner, *)
(* and keeps repeating the latest recordable command every 200 ms.         *)
(*                                                                         *)
(* Everything here runs on the one thread of ioc_cmd.  A mailbox never     *)
(* calls its receiver: it posts a handler to that io_context, so the mails *)
(* of the services, the mail the repeater posts to itself and all answers  *)
(* wait in one FIFO.  Only three things reach the thread otherwise: the    *)
(* completion of an asynchronous write, the repeater's timer, and the      *)
(* state reader, which opening the port starts.  Of the state reader this  *)
(* module keeps what the mails can notice: with more than one of its loops *)
(* started it may fail an assertion, which ends the program.  StateReader  *)
(* says when it does.                                                      *)
(***************************************************************************)
EXTENDS Integers, Sequences

CONSTANTS
  MaxMails,   \* bound: how many mails the services post in a behaviour
  Cmds,       \* the AdditionCmd values they post
  MaxId       \* last package id before the counter starts again (62766)

(***************************************************************************)
(* AdditionCmd, and what sendData2Serial makes of each value.  Mails with  *)
(* `ignore` and `ping` never come from a service: `ignore` is the          *)
(* repeater's own mail, and a ping is answered without the serial port.    *)
(***************************************************************************)
MoveClass  == {"takeoff", "land", "stop", "move", "rotate", "keep", "high",
               "speed", "flyMode", "gotoPosition", "led"}
PlainClass == {"emergencyStop", "unlock", "calibrate"}
JoyClass   == {"JoyCon", "JoyConSimple", "JoyConGyro"}

AdditionCmd ==
  MoveClass \cup PlainClass \cup JoyClass \cup {"AprilTag", "getAirplaneState"}

ASSUME MaxMailsAssumption == MaxMails \in Nat
ASSUME MaxIdAssumption    == MaxId \in Nat \ {0}
ASSUME CmdsAssumption     == Cmds \subseteq AdditionCmd

Mail     == 1..MaxMails    \* numbered in the order in which they are posted
Repeater == 0              \* the mail package_repeater posts to itself
NoMail   == 0              \* a null mail pointer
Token    == Mail \cup {Repeater}

VARIABLES
  initOk,            \* SerialController::initOk
  portOpen,          \* sp_->is_open()
  reader,            \* loops the state reader was told to start, or its end
  packageId, record, \* SerialControllerCmdPackageRecord: packageId and mail_
  aprilTagCmdData,   \* the AprilTag mail whose data was stored last
  queue,             \* handlers posted to ioc_cmd and not run yet
  writing,           \* async_writes in progress
  timerArmed,        \* an async_wait of package_repeater_timer_ is pending
  posted,            \* how many mails the services have posted
  cmd,               \* the command of each mail
  answer,            \* what each mail's runner was called with
  frame              \* history: the last frame given to async_write

portVars   == <<initOk, portOpen, reader>>
recordVars == <<packageId, record>>
mailVars   == <<posted, cmd, answer>>
vars == <<portVars, recordVars, aprilTagCmdData, queue, writing, timerArmed,
          mailVars, frame>>

(* Cmd2Serial, and the two fields of Serial2Cmd that say how it went.      *)
Request(t) == [dir |-> "A2B", tok |-> t]
Reply(t, ok, openError, tag) ==
  [dir |-> "B2A", tok |-> t, ok |-> ok, openError |-> openError, tag |-> tag]
NoAnswer == [dir |-> "none"]

Requests == {Request(t) : t \in Token}
Replies  == {Reply(t, ok, oe, tag) :
               t \in Token, ok \in BOOLEAN, oe \in BOOLEAN, tag \in Token}
Write(t, m, id) == [tok |-> t, mail |-> m, id |-> id]
Writes == {Write(t, m, id) : t \in Token, m \in Mail, id \in 0..MaxId}

-----------------------------------------------------------------------------
(* The commands receiveMail sends with needRepeat.                         *)
NeedRepeat == MoveClass \cup PlainClass

(* The pointers a mail carries when ProcessJsonMessage or the tag handler  *)
(* built it ...                                                            *)
Pointers(c) ==
  CASE c \in {"stop", "keep"}             -> {}
    [] c \in MoveClass \ {"stop", "keep"} -> {"moveCmdPtr"}
    [] c \in {"JoyCon", "JoyConSimple"}   -> {"joyConPtr"}
    [] c = "JoyConGyro"                   -> {"joyConGyroPtr"}
    [] c = "AprilTag"                     -> {"aprilTagCmdPtr"}
    [] OTHER                              -> {}

(* ... and the one sendData2Serial refuses to go on without.               *)
Needed(c) ==
  CASE c \in MoveClass  -> {"moveCmdPtr"}
    [] c \in JoyClass   -> {"joyConPtr"}
    [] c = "AprilTag"   -> {"aprilTagCmdPtr"}
    [] OTHER            -> {}

Sendable(c) == Needed(c) \subseteq Pointers(c)

(* Mutant: the counter starts again one id too early.                      *)
NextIdEarly(id) == IF id < MaxId - 1 /\ id > 0 THEN id + 1 ELSE 1

NextId(id) == IF id < MaxId /\ id > 0 THEN id + 1 ELSE 1
-----------------------------------------------------------------------------
(* sendMail inside a handler: the handler is done and its answer is posted *)
SendMail(r) == queue' = Append(Tail(queue), r)

SetNewMail(m) ==
  /\ record' = m
  /\ packageId' = NextId(packageId)

(* close, open and set the baud rate; the driver decides what works.       *)
(* open() starts a loop of the state reader: when only the baud rate       *)
(* fails, the next call starts another.                                    *)
InitPort ==
  \E opened, baudSet \in BOOLEAN :
    /\ portOpen' = opened
    /\ initOk' = (opened /\ baudSet)
    /\ reader' = IF ~opened THEN reader
                 ELSE IF reader = "none" THEN "one" ELSE "several"

AsyncWrite(t, m, id, repeating) ==
  /\ writing' = writing \cup {Write(t, m, id)}
  /\ queue' = Tail(queue)
  /\ frame' = [mail |-> m, id |-> id, repeated |-> repeating,
               newest |-> IF repeating THEN frame.newest ELSE m]

(* The port cannot be opened: the mail is answered, nothing is written.    *)
OpenFails(t) ==
  /\ ~initOk
  /\ InitPort
  /\ ~initOk'
  /\ SendMail(Reply(t, TRUE, TRUE, NoMail))
  /\ UNCHANGED <<recordVars, aprilTagCmdData, writing, frame>>

PortReady == IF initOk THEN UNCHANGED portVars ELSE InitPort /\ initOk'

(* Mutants: a refused command is recorded all the same; it gets no answer. *)
RefuseRecords(t, m) ==
  /\ PortReady
  /\ ~Sendable(cmd[m])
  /\ IF cmd[m] \in NeedRepeat THEN SetNewMail(m) ELSE UNCHANGED recordVars
  /\ SendMail(Reply(t, FALSE, FALSE, NoMail))
  /\ UNCHANGED <<aprilTagCmdData, writing, frame>>
RefuseSilently(t, m) ==
  /\ PortReady
  /\ ~Sendable(cmd[m])
  /\ queue' = Tail(queue)
  /\ UNCHANGED <<recordVars, aprilTagCmdData, writing, frame>>

Refuse(t, m) ==
  /\ PortReady
  /\ ~Sendable(cmd[m])
  /\ SendMail(Reply(t, FALSE, FALSE, NoMail))
  /\ UNCHANGED <<recordVars, aprilTagCmdData, writing, frame>>

(* Mutants: the frame carries the caller's id; only repeated tags are kept.*)
SendFrameOldId(t, m, id, repeating, needRepeat) ==
  /\ PortReady
  /\ Sendable(cmd[m])
  /\ IF needRepeat THEN SetNewMail(m) ELSE UNCHANGED recordVars
  /\ AsyncWrite(t, m, id, repeating)
  /\ aprilTagCmdData' = IF cmd[m] = "AprilTag" /\ ~repeating
                        THEN m ELSE aprilTagCmdData
SendFrameDropsTag(t, m, id, repeating, needRepeat) ==
  /\ PortReady
  /\ Sendable(cmd[m])
  /\ IF needRepeat THEN SetNewMail(m) ELSE UNCHANGED recordVars
  /\ AsyncWrite(t, m, IF needRepeat THEN packageId' ELSE id, repeating)
  /\ aprilTagCmdData' = IF cmd[m] = "AprilTag" /\ repeating
                        THEN m ELSE aprilTagCmdData

(* The record is replaced before the frame is written, so that the id of   *)
(* the frame is the one its repetitions will carry.                        *)
SendFrame(t, m, id, repeating, needRepeat) ==
  /\ PortReady
  /\ Sendable(cmd[m])
  /\ IF needRepeat THEN SetNewMail(m) ELSE UNCHANGED recordVars
  /\ AsyncWrite(t, m, IF needRepeat THEN packageId' ELSE id, repeating)
  /\ aprilTagCmdData' = IF cmd[m] = "AprilTag" /\ ~repeating
                        THEN m ELSE aprilTagCmdData

(* t is the mail whose runner gets the answer, m the mail that is written: *)
(* they differ when the repeater's mail borrows the recorded one.          *)
SendData2Serial(t, m, id, repeating, needRepeat) ==
  \/ OpenFails(t)
  \/ Refuse(t, m)
  \/ SendFrame(t, m, id, repeating, needRepeat)

-----------------------------------------------------------------------------
(* A command service posts a mail.                                         *)
PostMail(c) ==
  /\ posted < MaxMails
  /\ posted' = posted + 1
  /\ cmd' = [cmd EXCEPT ![posted'] = c]
  /\ queue' = Append(queue, Request(posted'))
  /\ UNCHANGED <<portVars, recordVars, aprilTagCmdData, writing, timerArmed,
                 answer, frame>>

Runs(dir, toks) ==
  /\ queue # <<>>
  /\ Head(queue).dir = dir
  /\ Head(queue).tok \in toks

ReceiveMailGetAirplaneState ==
  /\ Runs("A2B", Mail)
  /\ cmd[Head(queue).tok] = "getAirplaneState"
  /\ SendMail(Reply(Head(queue).tok, TRUE, FALSE, aprilTagCmdData))
  /\ UNCHANGED <<portVars, recordVars, aprilTagCmdData, writing, timerArmed,
                 mailVars, frame>>

ReceiveMail ==
  /\ Runs("A2B", Mail)
  /\ LET m == Head(queue).tok
     IN /\ cmd[m] # "getAirplaneState"
        /\ SendData2Serial(m, m, 0, FALSE, cmd[m] \in NeedRepeat)
  /\ UNCHANGED <<timerArmed, mailVars>>

(* Mutant: with nothing to repeat, the handler returns without an answer.  *)
RepeatNothingSilently ==
  /\ Runs("A2B", {Repeater})
  /\ record = NoMail
  /\ queue' = Tail(queue)
  /\ UNCHANGED <<portVars, recordVars, aprilTagCmdData, writing, timerArmed,
                 mailVars, frame>>

RepeatNothing ==
  /\ Runs("A2B", {Repeater})
  /\ record = NoMail
  /\ SendMail(Reply(Repeater, FALSE, TRUE, NoMail))
  /\ UNCHANGED <<portVars, recordVars, aprilTagCmdData, writing, timerArmed,
                 mailVars, frame>>

(* Mutant: a repetition is recorded as if it were a new command.           *)
ReceiveMailRepeatRenews ==
  /\ Runs("A2B", {Repeater})
  /\ record # NoMail
  /\ SendData2Serial(Repeater, record, packageId, TRUE, TRUE)
  /\ UNCHANGED <<timerArmed, mailVars>>

ReceiveMailRepeat ==
  /\ Runs("A2B", {Repeater})
  /\ record # NoMail
  /\ SendData2Serial(Repeater, record, packageId, TRUE, FALSE)
  /\ UNCHANGED <<timerArmed, mailVars>>

(* Mutant: a failed write asks for the port to be opened again.            *)
WriteDoneResetsPort(w) ==
  /\ \E ok \in BOOLEAN :
       /\ queue' = Append(queue, Reply(w.tok, ok, FALSE, NoMail))
       /\ initOk' = (initOk /\ ok)
  /\ writing' = writing \ {w}
  /\ UNCHANGED <<portOpen, reader, recordVars, aprilTagCmdData, timerArmed,
                 mailVars, frame>>

(* The completion of an async_write: the driver took the frame, or failed. *)
WriteDone(w) ==
  /\ \E ok \in BOOLEAN :
       queue' = Append(queue, Reply(w.tok, ok, FALSE, NoMail))
  /\ writing' = writing \ {w}
  /\ UNCHANGED <<portVars, recordVars, aprilTagCmdData, timerArmed, mailVars,
                 frame>>

(* The service's receiveMail: data->runner(data).                          *)
RunAnswer ==
  /\ Runs("B2A", Mail)
  /\ answer' = [answer EXCEPT ![Head(queue).tok] = Head(queue)]
  /\ queue' = Tail(queue)
  /\ UNCHANGED <<portVars, recordVars, aprilTagCmdData, writing, timerArmed,
                 posted, cmd, frame>>

(* The runner of the repeater's own mail arms the timer again.             *)
RunRepeaterAnswer ==
  /\ Runs("B2A", {Repeater})
  /\ timerArmed' = TRUE
  /\ queue' = Tail(queue)
  /\ UNCHANGED <<portVars, recordVars, aprilTagCmdData, writing, mailVars,
                 frame>>

(* Mutant: the timer is periodic instead of waiting for the answer.        *)
PackageRepeaterPeriodic ==
  /\ timerArmed
  /\ IF initOk /\ portOpen
     THEN queue' = Append(queue, Request(Repeater))
     ELSE UNCHANGED queue
  /\ UNCHANGED <<portVars, recordVars, aprilTagCmdData, writing, timerArmed,
                 mailVars, frame>>

(* The timer fires.  Without a port it is only armed again.                *)
PackageRepeater ==
  /\ timerArmed
  /\ IF initOk /\ portOpen
     THEN /\ timerArmed' = FALSE
          /\ queue' = Append(queue, Request(Repeater))
     ELSE UNCHANGED <<timerArmed, queue>>
  /\ UNCHANGED <<portVars, recordVars, aprilTagCmdData, writing, mailVars,
                 frame>>

(* The program ends: two loops of the state reader share its buffer, and   *)
(* one of them fails an assertion or the memory of the other's read.  That *)
(* is some time later, or already in open(), called by the handler of a    *)
(* mail that starts the second loop.  (The repeater's own mail is posted   *)
(* with the port initialised only.)                                        *)
ReaderStops ==
  /\ \/ reader = "several"
     \/ /\ reader = "one" /\ ~initOk
        /\ Runs("A2B", Mail) /\ cmd[Head(queue).tok] # "getAirplaneState"
  /\ reader' = "ended"
  /\ UNCHANGED <<initOk, portOpen, recordVars, aprilTagCmdData, queue, writing,
                 timerArmed, mailVars, frame>>

-----------------------------------------------------------------------------
(* init() calls package_repeater while the port is still closed, and that  *)
(* arms the timer.                                                         *)
Init ==
  /\ initOk = FALSE /\ portOpen = FALSE /\ reader = "none"
  /\ packageId = 1 /\ record = NoMail
  /\ aprilTagCmdData = NoMail
  /\ queue = <<>>
  /\ writing = {}
  /\ timerArmed = TRUE
  /\ posted = 0
  /\ cmd = [m \in Mail |-> "none"]
  /\ answer = [m \in Mail |-> NoAnswer]
  /\ frame = [mail |-> NoMail, id |-> 0, repeated |-> FALSE, newest |-> NoMail]

(* The handlers of the FIFO.                                               *)
RunHandler == \/ ReceiveMailGetAirplaneState
              \/ ReceiveMail
              \/ RepeatNothing
              \/ ReceiveMailRepeat
              \/ RunAnswer
              \/ RunRepeaterAnswer

Step == \/ \E c \in Cmds : PostMail(c)
        \/ RunHandler
        \/ \E w \in writing : WriteDone(w)
        \/ PackageRepeater
        \/ ReaderStops

Running == reader # "ended"

Next == Running /\ Step

Spec == Init /\ [][Next]_vars

(* The thread of ioc_cmd runs what is posted to it, the driver finishes    *)
(* every write one way or the other, and an armed timer fires, as long as  *)
(* the program runs.  Nobody has to post a mail.                           *)
Fairness ==
  /\ WF_vars(Running /\ RunHandler)
  /\ \A t \in Token :
       WF_vars(Running /\ \E w \in writing : w.tok = t /\ WriteDone(w))
  /\ WF_vars(Running /\ PackageRepeater)

FairSpec == Spec /\ Fairness

-----------------------------------------------------------------------------
(* The type invariant.  packageId is always an id that a recorded frame    *)
(* may carry, never 0, and a mail has a command some service posts.        *)
TypeOK ==
  /\ initOk \in BOOLEAN /\ portOpen \in BOOLEAN
  /\ reader \in {"none", "one", "several", "ended"}
  /\ packageId \in 1..MaxId
  /\ record \in Mail \cup {NoMail}
  /\ aprilTagCmdData \in Mail \cup {NoMail}
  /\ queue \in Seq(Requests \cup Replies)
  /\ writing \subseteq Writes
  /\ timerArmed \in BOOLEAN
  /\ posted \in 0..MaxMails
  /\ cmd \in [Mail -> Cmds \cup {"none"}]
  /\ answer \in [Mail -> Replies \cup {NoAnswer}]
  /\ frame \in [mail : Token, id : 0..MaxId, repeated : BOOLEAN, newest : Token]

Queued(t)   == {i \in DOMAIN queue : queue[i].tok = t}
InFlight(t) == {w \in writing : w.tok = t}
AtRest(t)   == IF t = Repeater THEN timerArmed ELSE answer[t] # NoAnswer

(* The types; and a mail is in one place only: posted, being written, on   *)
(* its way back or answered.  So its runner is called at most once, no two *)
(* runs of the repeater ever overlap, and the runner the repeater lends to *)
(* the record is never overwritten while a repeated frame is being written.*)
NoDoubleHolder ==
  /\ TypeOK
  /\ \A t \in Token :
       /\ \A i, j \in Queued(t) : i = j
       /\ \A v, w \in InFlight(t) : v = w
       /\ Queued(t) = {} \/ InFlight(t) = {}
       /\ AtRest(t) => Queued(t) = {} /\ InFlight(t) = {}

(* No handler returns without passing its mail on: every mail posted, and  *)
(* the repeater, is somewhere.                                             *)
NoLostMail ==
  \A t \in Token :
    t <= posted => Queued(t) # {} \/ InFlight(t) # {} \/ AtRest(t)

(* initPort closes the port: it must never do so under a write.            *)
WriteNeedsPort == writing # {} => initOk /\ portOpen

(* A mail got past the port and the pointer checks of sendData2Serial.     *)
Accepted(m) ==
  /\ m <= posted
  /\ Sendable(cmd[m])
  /\ \/ InFlight(m) # {}
     \/ \E i \in Queued(m) : queue[i].dir = "B2A" /\ ~queue[i].openError
     \/ AtRest(m) /\ ~answer[m].openError

(* What the repeater repeats is the newest recordable command that reached *)
(* the port: no older one, and none that was refused.                      *)
RecordIsNewest ==
  /\ record # NoMail => cmd[record] \in NeedRepeat /\ Accepted(record)
  /\ \A m \in Mail :
       m <= posted /\ cmd[m] \in NeedRepeat /\ Accepted(m) => m <= record

(* Id 0 marks the frames that are not recorded, and only those.            *)
IdMarksRecorded ==
  \A w \in writing : w.id # 0 <=> cmd[w.mail] \in NeedRepeat

(* Two different commands in flight under one id are a whole round of the  *)
(* counter apart.                                                          *)
IdReuse ==
  \A v, w \in writing :
    v.id = w.id /\ v.id # 0 /\ v.mail < w.mail => w.mail - v.mail >= MaxId

(* getAirplaneState answers with the newest tag posted before it, leaving  *)
(* out the tags that could not be sent.                                    *)
GetSeesNewestTag ==
  \A g \in Mail :
    AtRest(g) /\ cmd[g] = "getAirplaneState" =>
      LET t == answer[g].tag
      IN /\ t # NoMail => t < g /\ cmd[t] = "AprilTag"
         /\ \A m \in (t + 1)..(g - 1) : cmd[m] = "AprilTag" => ~Accepted(m)

(* The record and the frames, seen as SerialLink's state.                  *)
Link == INSTANCE SerialLink WITH latest <- [mail |-> record, id |-> packageId]

(* Originals reach the line in the order in which they were posted, each   *)
(* recordable one under the next id, and what sendData2Serial repeats is   *)
(* the latest of them under its own id.                                    *)
LinkSpec == Link!LinkSpec

(* Every mail a service posts is answered in the end, unless opening the   *)
(* port a second time makes the state reader end the program: it does so   *)
(* with mails waiting, being written or recorded.                          *)
EveryMailAnswered == \A m \in Mail : m <= posted ~> AtRest(m) \/ ~Running

(* The newest command is repeated unless a newer one takes its place, or   *)
(* the program ends as above.                                              *)
LatestIsRepeated ==
  \A m \in Mail :
    record = m ~> \/ record # m
                  \/ frame.repeated /\ frame.mail = m
                  \/ ~Running
=============================================================================
