-------------------------- MODULE ImageServiceHttp --------------------------
(***************************************************************************)
(* The HTTP image service with the camera reader and the time service      *)
(* behind it.  GET of a camera's path asks the camera reader for an image, *)
(* and when that comes, the time service for the time, and then responds.  *)
(* A camera may be made anew with another size, and the time may be set or *)
(* asked for.  Everything else is answered at once.                        *)
(*                                                                         *)
(* The service has a thread of its own, the time service another, the      *)
(* camera reader two.                                                      *)
(***************************************************************************)
EXTENDS HttpConnection, CameraReader

CONSTANT Requests    \* the requests that are made

VARIABLES
  timeQueue,         \* mails posted to the time service and not run yet
  timeAnswers        \* answers of the time service not run yet

(* The camera reader's clients are the connections: each sends it one mail *)
(* at most.                                                                *)
ASSUME ClientsAssumption == Clients = Conns

timeVars == <<timeQueue, timeAnswers>>
vars == <<connVars, cameraVars, timeVars>>

ImageOf(camera) == [kind |-> "image", camera |-> camera]
ResetOf(camera, addr) == [kind |-> "reset", camera |-> camera, addr |-> addr]
TimeRequest == [kind |-> "time"]
AtOnce == [kind |-> "atOnce"]

-----------------------------------------------------------------------------
(* /1, /2, /3, /down and /front.                                           *)
ReadImage(c) ==
  \E camera \in Cameras :
    /\ ImageOf(camera) \in Requests
    /\ ReadRequest(c, ImageOf(camera), "waiting")
    /\ PostToCamera(ImageMail(c, camera))
    /\ UNCHANGED timeVars

(* /set_camera_image_size                                                  *)
ReadReset(c) ==
  \E camera \in Cameras, addr \in {"number", "text"} :
    /\ ResetOf(camera, addr) \in Requests
    /\ ReadRequest(c, ResetOf(camera, addr), "waiting")
    /\ PostToCamera(ResetMail(c, camera, addr))
    /\ UNCHANGED timeVars

(* /time and /timeGet                                                      *)
ReadTime(c) ==
  /\ TimeRequest \in Requests
  /\ ReadRequest(c, TimeRequest, "waiting")
  /\ timeQueue' = Append(timeQueue, c)
  /\ UNCHANGED <<cameraVars, timeAnswers>>

(* Bad requests, the paths that show a setting, and everything unknown;    *)
(* /set_camera_image_direct too, whose handler refuses its own path.       *)
ReadAtOnce(c) ==
  /\ AtOnce \in Requests
  /\ ReadRequest(c, AtOnce, "replying")
  /\ UNCHANGED <<cameraVars, timeVars>>

ProcessRequest(c) == \/ ReadImage(c)
                     \/ ReadReset(c)
                     \/ ReadTime(c)
                     \/ ReadAtOnce(c)

(* An answer of the camera reader: an image goes on to the time service;   *)
(* a failure, or the end of a reset, is responded to.                      *)
TakeAnswer ==
  /\ answers # <<>>
  /\ answers' = Tail(answers)
  /\ UNCHANGED <<listVars, strand, thread, cameraQueue, crashed, timeAnswers>>

(* Mutant: the image is sent before the time is asked for.                 *)
AskTimeAndRespond ==
  /\ TakeAnswer
  /\ Head(answers).mail.cmd = "noop" /\ Head(answers).ok
  /\ timeQueue' = Append(timeQueue, Head(answers).mail.client)
  /\ Respond(Head(answers).mail.client)

(* With an image goes the time, which is asked for first.                  *)
AskTime ==
  /\ TakeAnswer
  /\ Head(answers).mail.cmd = "noop" /\ Head(answers).ok
  /\ timeQueue' = Append(timeQueue, Head(answers).mail.client)
  /\ UNCHANGED connVars

RespondToAnswer ==
  /\ TakeAnswer
  /\ Head(answers).mail.cmd = "reset" \/ ~Head(answers).ok
  /\ Respond(Head(answers).mail.client)
  /\ UNCHANGED timeQueue

(* The time service answers every mail.                                    *)
TimeServiceReceives ==
  /\ timeQueue # <<>>
  /\ timeAnswers' = Append(timeAnswers, Head(timeQueue))
  /\ timeQueue' = Tail(timeQueue)
  /\ UNCHANGED <<connVars, cameraVars>>

RespondWithTime ==
  /\ timeAnswers # <<>>
  /\ Respond(Head(timeAnswers))
  /\ timeAnswers' = Tail(timeAnswers)
  /\ UNCHANGED <<cameraVars, timeQueue>>

-----------------------------------------------------------------------------
Init == /\ ConnInit
        /\ CameraInit
        /\ timeQueue = <<>> /\ timeAnswers = <<>>

CameraReaderRuns(t) == RunThread(t) /\ UNCHANGED <<connVars, timeVars>>
Connection(c) == ConnectionStep(c) /\ UNCHANGED <<cameraVars, timeVars>>

ServiceRuns == \/ AskTime
               \/ RespondToAnswer
               \/ RespondWithTime

Running == crashed = "no"
Next == /\ Running
        /\ \/ \E c \in Conns : Connection(c) \/ ProcessRequest(c)
           \/ \E t \in Threads : CameraReaderRuns(t)
           \/ ServiceRuns
           \/ TimeServiceReceives

Spec == Init /\ [][Next]_vars

(* Threads run what waits for them, a read from a camera ends, and armed   *)
(* deadlines expire.  Nobody has to send a request.                        *)
Fairness ==
  /\ \A t \in Threads : WF_vars(Running /\ CameraReaderRuns(t))
  /\ WF_vars(Running /\ (AskTime \/ RespondToAnswer))
  /\ WF_vars(Running /\ RespondWithTime)
  /\ WF_vars(Running /\ TimeServiceReceives)
  /\ \A c \in Conns :
       /\ WF_vars(Running /\ ResponseWritten(c) /\ Connection(c))
       /\ WF_vars(Running /\ DeadlineExpires(c) /\ Connection(c))

FairSpec == Spec /\ Fairness

-----------------------------------------------------------------------------
(* The type invariant of the service, its connections (async_write is      *)
(* started once at most) and the camera reader.                            *)
TypeOK ==
  /\ ConnTypeOK(Requests)
  /\ CameraTypeOK
  /\ timeQueue \in Seq(Conns) /\ timeAnswers \in Seq(Conns)

(* The places where mails of a connection are under way: the queue, object *)
(* and position of each.                                                   *)
Places(c) ==
  LET OnStrandOf(o) ==
        {<<"strand", o, i>> :
           i \in {j \in DOMAIN strand[o] : strand[o][j].client = c}}
  IN {<<"queue", 0, i>> :
        i \in {j \in DOMAIN cameraQueue : cameraQueue[j].client = c}}
       \cup (UNION {OnStrandOf(o) : o \in Objects})
       \cup {<<"answers", 0, i>> :
               i \in {j \in DOMAIN answers : answers[j].mail.client = c}}
       \cup {<<"time", 0, i>> :
               i \in {j \in DOMAIN timeQueue : timeQueue[j] = c}}
       \cup {<<"timeAnswers", 0, i>> :
               i \in {j \in DOMAIN timeAnswers : timeAnswers[j] = c}}

(* The types; and a request has one mail under way while its connection    *)
(* waits, so nothing is responded to twice.  Only a reset is ever          *)
(* forgotten: of a camera nobody configured, or with a text for an address.*)
OneMailWhileWaiting ==
  /\ TypeOK
  /\ \A c \in Conns :
       /\ Cardinality(Places(c)) <= 1
       /\ Places(c) # {} => stage[c] = "waiting"
       /\ stage[c] = "waiting" /\ Places(c) = {}
            => /\ request[c].kind = "reset"
               /\ request[c].addr = "text" \/ request[c].camera \notin Configured

Asked(kind) == {c \in Conns : request[c].kind = kind}

TextResets == {c \in Asked("reset") : request[c].addr = "text"}

(* What may end the program: an image was asked for of a camera that       *)
(* nobody configured, or that a reset with a text for an address took      *)
(* away; or a reset released a camera that was being read.                 *)
EndedByRequest ==
  \/ /\ crashed = "no camera"
     /\ \E c \in Asked("image") :
          \/ request[c].camera \notin Configured
          \/ \E r \in TextResets : request[r].camera = request[c].camera
  \/ crashed = "released while read" /\ Asked("reset") # {}

(* The threads of the camera reader are ended by resets with a text for an *)
(* address, one by each.                                                   *)
EndedByTexts ==
  /\ \A t \in Threads : thread[t] = Ended
  /\ Cardinality(TextResets) >= Cardinality(Threads)

(* Who asks for an image gets it or an error in the end, unless one of     *)
(* those requests ended the program or the camera reader's threads.        *)
ImageIsAnswered ==
  \A c \in Conns :
    stage[c] = "waiting" /\ request[c].kind = "image"
      ~> responses[c] = 1 \/ EndedByRequest \/ EndedByTexts
=============================================================================
