---------------------------- MODULE CameraReader ----------------------------
(***************************************************************************)
(* The camera reader.  Services ask for an image of a camera, or for a     *)
(* camera to be made anew with other settings.  Two threads run its        *)
(* io_context.  The lists of cameras are guarded by a mutex, so a look-up  *)
(* and a whole reset are one step each; reading from a camera takes time,  *)
(* and the reads of one camera object take turns on its strand.            *)
(*                                                                         *)
(* Reading at once and reading after a grab (the last image is too old)    *)
(* differ in nothing that can be seen from outside and are one step here.  *)
(* Which of the reads waiting on a free strand's first place is begun by   *)
(* which thread, and when, is left open.                                   *)
(***************************************************************************)
EXTENDS Integers, Sequences, FiniteSets, SequencesExt

CONSTANTS
  Clients,   \* the services' requests: each sends one mail at most
  Cameras,   \* the camera ids requests may name
  Configured,\* the cameras main configures
  Threads    \* the threads of ioc_cameraReader

ASSUME ConfiguredAssumption == Configured \subseteq Cameras
ASSUME FiniteAssumption ==
  IsFiniteSet(Cameras) /\ IsFiniteSet(Clients) /\ IsFiniteSet(Threads)

VARIABLES
  camera_info_list_, \* the ids of the cameras that are configured
  camera_item_list_, \* the camera objects, each with its camera's id
  opened,            \* vc->isOpened() of each camera object ever made
  strand,            \* mails that wait for the object's strand or hold it
  thread,            \* what each thread does
  cameraQueue,       \* mails posted to ioc_cameraReader and not taken yet
  answers,           \* answers posted to the services and not taken yet
  crashed            \* "no", or what ended the program

cameraVars == <<camera_info_list_, camera_item_list_, opened, strand, thread,
                cameraQueue, answers, crashed>>
listVars == <<camera_info_list_, camera_item_list_, opened>>

(* Camera objects are numbered in the order in which they are made.        *)
Objects == DOMAIN opened
Item(camera, object) == [camera |-> camera, object |-> object]
ItemsOf(camera) == {i \in DOMAIN camera_item_list_ :
                      camera_item_list_[i].camera = camera}
HasItem(camera) == ItemsOf(camera) # {}

(* The first item of the list with that id, and its object.                *)
FindIf(camera) ==
  CHOOSE i \in ItemsOf(camera) : \A j \in ItemsOf(camera) : i <= j
Find(camera) == camera_item_list_[FindIf(camera)].object
Newest(camera) ==
  IF HasItem(camera)
  THEN CHOOSE o \in Objects :
         /\ \E i \in ItemsOf(camera) : camera_item_list_[i].object = o
         /\ \A i \in ItemsOf(camera) : camera_item_list_[i].object <= o
  ELSE 0

(* A mail: an image of a camera, or its reset, with an address that is a   *)
(* text or is not (a number, or none).  `since` is history: the newest     *)
(* object the camera had when the mail was posted.                         *)
ImageMail(client, camera) ==
  [client |-> client, cmd |-> "noop", camera |-> camera, addr |-> "number",
   since |-> Newest(camera)]
ResetMail(client, camera, addr) ==
  [client |-> client, cmd |-> "reset", camera |-> camera, addr |-> addr,
   since |-> Newest(camera)]
CameraMails ==
  [client : Clients, cmd : {"noop", "reset"}, camera : Cameras,
   addr : {"number", "text"}, since : Nat]
Answer(mail, ok, object) == [mail |-> mail, ok |-> ok, object |-> object]
Idle  == [doing |-> "idle"]
Ended == [doing |-> "ended"]
Reading(mail, object) == [doing |-> "reading", mail |-> mail, object |-> object]

-----------------------------------------------------------------------------
PostToCamera(mail) ==
  /\ cameraQueue' = Append(cameraQueue, mail)
  /\ UNCHANGED <<listVars, strand, thread, answers, crashed>>

PostAnswer(mail, ok, object) == answers' = Append(answers, Answer(mail, ok, object))

Handles(t, cmd) ==
  thread[t] = Idle /\ cameraQueue # <<>> /\ Head(cameraQueue).cmd = cmd
Takes(t, cmd) == Handles(t, cmd) /\ cameraQueue' = Tail(cameraQueue)

(* Mutant: the coroutine goes on where it is instead of on the strand.     *)
GetImageWithoutStrand(t) ==
  /\ Takes(t, "noop")
  /\ LET mail == Head(cameraQueue)
     IN /\ HasItem(mail.camera)
        /\ thread' = [thread EXCEPT ![t] = Reading(mail, Find(mail.camera))]
        /\ strand' = [strand EXCEPT ![Find(mail.camera)] = Append(@, mail)]
  /\ UNCHANGED <<listVars, answers, crashed>>

(* co_get_image up to its change to the camera object's strand.            *)
GetImage(t) ==
  /\ Takes(t, "noop")
  /\ LET mail == Head(cameraQueue)
     IN /\ HasItem(mail.camera)
        /\ strand' = [strand EXCEPT ![Find(mail.camera)] = Append(@, mail)]
  /\ UNCHANGED <<listVars, thread, answers, crashed>>

(* Without a camera object the change to its strand is a null pointer's,   *)
(* whose assertion ends the program; the test for it comes a line later.   *)
GetImageOfNoCamera(t) ==
  /\ Handles(t, "noop")
  /\ ~HasItem(Head(cameraQueue).camera)
  /\ crashed' = "no camera"
  /\ UNCHANGED <<listVars, strand, thread, cameraQueue, answers>>

Busy(object) ==
  \E t \in Threads : thread[t].doing = "reading" /\ thread[t].object = object

(* Mutant: a camera that is not open is not answered.                      *)
ReadClosedSilently(t, o) ==
  /\ thread[t] = Idle
  /\ strand[o] # <<>> /\ ~Busy(o) /\ ~opened[o]
  /\ strand' = [strand EXCEPT ![o] = Tail(@)]
  /\ UNCHANGED <<listVars, thread, cameraQueue, answers, crashed>>

(* On the strand: a camera that is not open is answered at once ...        *)
ReadClosed(t, o) ==
  /\ thread[t] = Idle
  /\ strand[o] # <<>> /\ ~Busy(o) /\ ~opened[o]
  /\ strand' = [strand EXCEPT ![o] = Tail(@)]
  /\ PostAnswer(Head(strand[o]), FALSE, o)
  /\ UNCHANGED <<listVars, thread, cameraQueue, crashed>>

(* ... and one that is open is read.                                       *)
BeginRead(t, o) ==
  /\ thread[t] = Idle
  /\ strand[o] # <<>> /\ ~Busy(o) /\ opened[o]
  /\ thread' = [thread EXCEPT ![t] = Reading(Head(strand[o]), o)]
  /\ UNCHANGED <<listVars, strand, cameraQueue, answers, crashed>>

(* Mutant: an empty image is not answered.                                 *)
EndReadIfOk(t) ==
  /\ thread[t].doing = "reading"
  /\ thread' = [thread EXCEPT ![t] = Idle]
  /\ strand' = [strand EXCEPT ![thread[t].object] = Tail(@)]
  /\ \/ PostAnswer(thread[t].mail, TRUE, thread[t].object)
     \/ UNCHANGED answers
  /\ UNCHANGED <<listVars, cameraQueue, crashed>>

(* The read ends with an image, or without one.                            *)
EndRead(t) ==
  /\ thread[t].doing = "reading"
  /\ thread' = [thread EXCEPT ![t] = Idle]
  /\ strand' = [strand EXCEPT ![thread[t].object] = Tail(@)]
  /\ \E ok \in BOOLEAN : PostAnswer(thread[t].mail, ok, thread[t].object)
  /\ UNCHANGED <<listVars, cameraQueue, crashed>>

(* A reset releases the video capture on its own thread, not on the        *)
(* camera's strand.  When the other thread is reading from it, the read    *)
(* may as well end the program.                                            *)
ReadOfReleased(t) ==
  /\ thread[t].doing = "reading" /\ ~opened[thread[t].object]
  /\ crashed' = "released while read"
  /\ UNCHANGED <<listVars, strand, thread, cameraQueue, answers>>

-----------------------------------------------------------------------------
(* A camera object is made; its constructor opens the camera, or fails to. *)
NewItem(camera, list, wasOpened) ==
  LET object == Len(wasOpened) + 1
  IN /\ camera_item_list_' = Append(list, Item(camera, object))
     /\ \E ok \in BOOLEAN : opened' = Append(wasOpened, ok)
     /\ strand' = Append(strand, <<>>)

(* Mutant: the new camera is not added to the configured ones.             *)
ResetNewForgetsInfo(t) ==
  /\ Takes(t, "reset")
  /\ LET camera == Head(cameraQueue).camera
     IN /\ camera \notin camera_info_list_
        /\ NewItem(camera, camera_item_list_, opened)
  /\ UNCHANGED <<camera_info_list_, thread, answers, crashed>>

(* A camera that was not configured is added, and the mail is forgotten.   *)
ResetNewCamera(t) ==
  /\ Takes(t, "reset")
  /\ LET camera == Head(cameraQueue).camera
     IN /\ camera \notin camera_info_list_
        /\ camera_info_list_' = camera_info_list_ \cup {camera}
        /\ NewItem(camera, camera_item_list_, opened)
  /\ UNCHANGED <<thread, answers, crashed>>

(* The old object is closed, if it still is in the list, and removed.      *)
Without(camera) ==
  IF HasItem(camera) THEN RemoveAt(camera_item_list_, FindIf(camera))
                     ELSE camera_item_list_
Closed(camera) ==
  [o \in Objects |-> opened[o] /\ ~(HasItem(camera) /\ o = Find(camera))]

(* Mutant: the old object is neither closed nor removed.                   *)
ResetKeepsOld(t) ==
  /\ Takes(t, "reset")
  /\ LET mail == Head(cameraQueue)
     IN /\ mail.camera \in camera_info_list_ /\ mail.addr # "text"
        /\ NewItem(mail.camera, camera_item_list_, opened)
        /\ PostAnswer(mail, TRUE, Len(opened'))
  /\ UNCHANGED <<camera_info_list_, thread, crashed>>

ResetCamera(t) ==
  /\ Takes(t, "reset")
  /\ LET mail == Head(cameraQueue)
     IN /\ mail.camera \in camera_info_list_ /\ mail.addr # "text"
        /\ NewItem(mail.camera, Without(mail.camera), Closed(mail.camera))
        /\ PostAnswer(mail, TRUE, Len(opened'))
  /\ UNCHANGED <<camera_info_list_, thread, crashed>>

(* An address that is a text is taken out of the variant as a number: the  *)
(* exception ends the thread, after the old object was removed.            *)
ResetThrows(t) ==
  /\ Takes(t, "reset")
  /\ LET mail == Head(cameraQueue)
     IN /\ mail.camera \in camera_info_list_ /\ mail.addr = "text"
        /\ camera_item_list_' = Without(mail.camera)
        /\ opened' = Closed(mail.camera)
  /\ thread' = [thread EXCEPT ![t] = Ended]
  /\ UNCHANGED <<camera_info_list_, strand, answers, crashed>>

-----------------------------------------------------------------------------
(* start() has made an object for every configured camera, in some order.  *)
CameraInit ==
  /\ camera_info_list_ = Configured
  /\ camera_item_list_ \in
       {list \in [1..Cardinality(Configured) ->
                    [camera : Configured, object : 1..Cardinality(Configured)]] :
          /\ \A i \in DOMAIN list : list[i].object = i
          /\ \A i, j \in DOMAIN list : i # j => list[i].camera # list[j].camera}
  /\ opened \in [1..Cardinality(Configured) -> BOOLEAN]
  /\ strand = [o \in Objects |-> <<>>]
  /\ thread = [t \in Threads |-> Idle]
  /\ cameraQueue = <<>> /\ answers = <<>>
  /\ crashed = "no"

RunThread(t) == \/ GetImage(t)
                \/ GetImageOfNoCamera(t)
                \/ \E o \in Objects : ReadClosed(t, o) \/ BeginRead(t, o)
                \/ EndRead(t)
                \/ ReadOfReleased(t)
                \/ ResetNewCamera(t)
                \/ ResetCamera(t)
                \/ ResetThrows(t)

(* The type of the camera reader's state; a thread that reads holds a      *)
(* mail.                                                                   *)
CameraTypeOK ==
  /\ camera_info_list_ \subseteq Cameras
  /\ camera_item_list_ \in Seq([camera : Cameras, object : Objects])
  /\ opened \in Seq(BOOLEAN)
  /\ strand \in Seq(Seq(CameraMails)) /\ Len(strand) = Len(opened)
  /\ thread \in [Threads -> {Idle, Ended} \cup
                   [doing : {"reading"}, mail : CameraMails, object : Objects]]
  /\ cameraQueue \in Seq(CameraMails)
  /\ answers \in Seq([mail : CameraMails, ok : BOOLEAN, object : Objects])
  /\ crashed \in {"no", "no camera", "released while read"}

(* Two threads never read from one camera object at once, and a read in    *)
(* progress is that of the mail that holds the object's strand.            *)
ReadsTakeTurns ==
  \A t \in Threads : thread[t].doing = "reading" =>
    /\ strand[thread[t].object] # <<>>
    /\ thread[t].mail = Head(strand[thread[t].object])
    /\ \A u \in Threads \ {t} :
         thread[u].doing = "reading" => thread[u].object # thread[t].object

(* A camera has one object, of a configured camera; a configured camera    *)
(* without an object is what a reset left that ended a thread.             *)
OneObjectPerCamera ==
  /\ \A camera \in Cameras :
       /\ Cardinality(ItemsOf(camera)) <= 1
       /\ HasItem(camera) => camera \in camera_info_list_
  /\ \A camera \in camera_info_list_ :
       HasItem(camera) \/ \E t \in Threads : thread[t] = Ended

(* An image comes from an object at least as new as the one the camera had *)
(* when it was asked for: once a reset is answered, nobody who asks then   *)
(* gets an image of the old size or address.                               *)
ImagesAreOfNewest ==
  \A i \in DOMAIN answers :
    answers[i].mail.cmd = "noop" /\ answers[i].ok
      => answers[i].object >= answers[i].mail.since
=============================================================================
