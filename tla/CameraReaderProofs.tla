------------------------- MODULE CameraReaderProofs -------------------------
(***************************************************************************)
(* Theorems about the camera reader behind the HTTP image service, for     *)
(* every number of connections, cameras and threads.                       *)
(***************************************************************************)
EXTENDS ImageServiceHttp, QueueLemmas, FiniteSetTheorems, TLAPS

-----------------------------------------------------------------------------
(* The inductive invariant.                                                *)
ItemRecord   == [camera : Cameras, object : Objects]
ReadingState == [doing : {"reading"}, mail : CameraMails, object : Objects]
AnswerRecord == [mail : CameraMails, ok : BOOLEAN, object : Objects]

(* A camera has one item, and is configured.                               *)
ItemsDiffer ==
  \A i, j \in DOMAIN camera_item_list_ :
    camera_item_list_[i].camera = camera_item_list_[j].camera => i = j
ItemsConfigured ==
  \A i \in DOMAIN camera_item_list_ : camera_item_list_[i].camera \in camera_info_list_

(* A configured camera without an item is what an exception left.          *)
MissingMeansEnded ==
  \A camera \in camera_info_list_ :
    HasItem(camera) \/ \E t \in Threads : thread[t] = Ended

(* A mail was posted when the objects that it may yet find were there.     *)
QueueIsNewer ==
  \A i \in DOMAIN cameraQueue :
    /\ cameraQueue[i].since <= Len(opened)
    /\ \A j \in DOMAIN camera_item_list_ :
         camera_item_list_[j].camera = cameraQueue[i].camera
           => cameraQueue[i].since <= camera_item_list_[j].object
StrandIsNewer ==
  \A o \in Objects : \A i \in DOMAIN strand[o] : strand[o][i].since <= o

CInv == /\ CameraTypeOK
        /\ ItemsDiffer /\ ItemsConfigured /\ MissingMeansEnded
        /\ ReadsTakeTurns
        /\ QueueIsNewer /\ StrandIsNewer /\ ImagesAreOfNewest

-----------------------------------------------------------------------------
(* Sequences: what the steps do to them.                                   *)
LEMMA Lengths ==
  ASSUME NEW S, NEW q \in Seq(S)
  PROVE  /\ Len(q) \in Nat /\ DOMAIN q = 1..Len(q)
         /\ \A i \in 1..Len(q) : q[i] \in S
OBVIOUS

LEMMA OfMore ==
  ASSUME NEW S, NEW R, S \subseteq R, NEW q \in Seq(S)
  PROVE  q \in Seq(R)
OBVIOUS

LEMMA Added ==
  ASSUME NEW S, NEW q \in Seq(S), NEW r \in S
  PROVE  /\ Append(q, r) \in Seq(S)
         /\ Len(Append(q, r)) = Len(q) + 1
         /\ DOMAIN Append(q, r) = 1..(Len(q) + 1)
         /\ \A i \in 1..Len(q) : Append(q, r)[i] = q[i]
         /\ Append(q, r)[Len(q) + 1] = r
OBVIOUS

LEMMA HeadKept ==
  ASSUME NEW S, NEW q \in Seq(S), q # <<>>, NEW r \in S
  PROVE  Append(q, r) # <<>> /\ Head(Append(q, r)) = Head(q)
OBVIOUS

LEMMA Taken ==
  ASSUME NEW S, NEW q \in Seq(S), q # <<>>
  PROVE  /\ Len(q) > 0 /\ Head(q) = q[1] /\ Head(q) \in S
         /\ Tail(q) \in Seq(S) /\ DOMAIN Tail(q) = 1..(Len(q) - 1)
         /\ \A i \in 1..(Len(q) - 1) : Tail(q)[i] = q[i + 1]
OBVIOUS

LEMMA Replaced ==
  ASSUME NEW S, NEW q \in Seq(S), NEW k \in DOMAIN q, NEW r \in S
  PROVE  /\ [q EXCEPT ![k] = r] \in Seq(S)
         /\ Len([q EXCEPT ![k] = r]) = Len(q)
         /\ DOMAIN [q EXCEPT ![k] = r] = DOMAIN q
         /\ [q EXCEPT ![k] = r][k] = r
         /\ \A i \in DOMAIN q \ {k} : [q EXCEPT ![k] = r][i] = q[i]
<1> DEFINE new == [q EXCEPT ![k] = r]
<1>1. Len(q) \in Nat /\ DOMAIN q = 1..Len(q) /\ new \in [1..Len(q) -> S]
  OBVIOUS
<1>2. new \in Seq(S) /\ Len(new) = Len(q)
  BY <1>1
<1> QED BY <1>1, <1>2

LEMMA Joined ==
  ASSUME NEW S, NEW p \in Seq(S), NEW q \in Seq(S)
  PROVE  /\ p \o q \in Seq(S) /\ Len(p \o q) = Len(p) + Len(q)
         /\ \A i \in 1..Len(p) : (p \o q)[i] = p[i]
         /\ \A i \in 1..Len(q) : (p \o q)[Len(p) + i] = q[i]
OBVIOUS

LEMMA Removed ==
  ASSUME NEW S, NEW q \in Seq(S), NEW k \in DOMAIN q
  PROVE  /\ RemoveAt(q, k) \in Seq(S)
         /\ DOMAIN RemoveAt(q, k) = 1..(Len(q) - 1)
         /\ \A i \in 1..(Len(q) - 1) :
              RemoveAt(q, k)[i] = q[IF i < k THEN i ELSE i + 1]
<1> DEFINE before == SubSeq(q, 1, k - 1)
           after  == SubSeq(q, k + 1, Len(q))
           new    == before \o after
<1>1. Len(q) \in Nat /\ k \in 1..Len(q)
  OBVIOUS
<1>2. /\ before \in Seq(S) /\ Len(before) = k - 1
      /\ \A i \in 1..(k - 1) : before[i] = q[i]
  BY <1>1
<1>3. /\ after \in Seq(S) /\ Len(after) = Len(q) - k
      /\ \A i \in 1..(Len(q) - k) : after[i] = q[k + i]
  BY <1>1
<1>4. RemoveAt(q, k) = new
  BY DEF RemoveAt
<1> HIDE DEF before, after
<1>5. /\ new \in Seq(S) /\ Len(new) = Len(before) + Len(after)
      /\ \A i \in 1..Len(before) : new[i] = before[i]
      /\ \A i \in 1..Len(after) : new[Len(before) + i] = after[i]
  <2>1. before \in Seq(S) /\ after \in Seq(S)
    BY <1>2, <1>3
  <2> QED BY ONLY <2>1, Joined
<1> HIDE DEF new
<1>6. DOMAIN new = 1..(Len(q) - 1)
  BY <1>1, <1>2, <1>3, <1>5
<1>7. ASSUME NEW i \in 1..(Len(q) - 1)
      PROVE  new[i] = q[IF i < k THEN i ELSE i + 1]
  <2>1. CASE i < k
    BY <1>1, <1>2, <1>5, <2>1
  <2>2. CASE i >= k
    <3> DEFINE j == i - k + 1
    <3>1. j \in 1..(Len(q) - k) /\ k - 1 + j = i /\ k + j = i + 1
      BY <1>1, <2>2
    <3>2. new[k - 1 + j] = q[k + j]
      BY <1>2, <1>3, <1>5, <3>1
    <3>3. ~(i < k)
      BY <1>1, <2>2
    <3> QED BY <3>1, <3>2, <3>3
  <2> QED BY <1>1, <2>1, <2>2
<1> QED BY <1>4, <1>5, <1>6, <1>7
-----------------------------------------------------------------------------
(* What the invariant says of the present state.                           *)
LEMMA Shapes ==
  ASSUME CInv
  PROVE  /\ Len(opened) \in Nat /\ Objects = 1..Len(opened) /\ Len(strand) = Len(opened)
         /\ DOMAIN strand = Objects
         /\ \A o \in Objects : strand[o] \in Seq(CameraMails)
<1>1. opened \in Seq(BOOLEAN) /\ strand \in Seq(Seq(CameraMails)) /\ Len(strand) = Len(opened)
  BY DEF CInv, CameraTypeOK
<1>2. Len(opened) \in Nat /\ DOMAIN opened = 1..Len(opened)
  BY <1>1, Lengths
<1>3. DOMAIN strand = 1..Len(strand) /\ \A o \in 1..Len(strand) : strand[o] \in Seq(CameraMails)
  BY <1>1, Lengths
<1> QED BY <1>1, <1>2, <1>3 DEF Objects

(* The one item of a camera is the one that is found, and the newest.      *)
LEMMA Finds ==
  ASSUME CInv, NEW camera, HasItem(camera)
  PROVE  /\ FindIf(camera) \in DOMAIN camera_item_list_
         /\ camera_item_list_[FindIf(camera)].camera = camera
         /\ \A j \in DOMAIN camera_item_list_ :
              camera_item_list_[j].camera = camera => j = FindIf(camera)
         /\ Find(camera) \in Objects
         /\ Newest(camera) = Find(camera)
<1>1. \A i, j \in ItemsOf(camera) : i = j
  BY DEF CInv, ItemsDiffer, ItemsOf
<1>2. /\ DOMAIN camera_item_list_ = 1..Len(camera_item_list_)
      /\ \A i \in DOMAIN camera_item_list_ : camera_item_list_[i] \in ItemRecord
  <2>1. camera_item_list_ \in Seq(ItemRecord)
    BY DEF CInv, CameraTypeOK, ItemRecord
  <2> QED BY <2>1, Lengths
<1>3. PICK i \in ItemsOf(camera) : TRUE
  BY DEF HasItem
<1>4. i \in Int /\ \A j \in ItemsOf(camera) : i <= j
  BY <1>1, <1>2, <1>3 DEF ItemsOf
<1>5. FindIf(camera) = i
  BY <1>1, <1>3, <1>4 DEF FindIf
<1>6. camera_item_list_[i] \in ItemRecord /\ camera_item_list_[i].camera = camera
  BY <1>2, <1>3 DEF ItemsOf
<1>7. Find(camera) = camera_item_list_[i].object /\ Find(camera) \in Objects
  BY <1>5, <1>6 DEF Find, ItemRecord
<1>8. Newest(camera) = Find(camera)
  <2> DEFINE N(o) == /\ \E k \in ItemsOf(camera) : camera_item_list_[k].object = o
                     /\ \A k \in ItemsOf(camera) : camera_item_list_[k].object <= o
  <2>1. N(Find(camera))
    BY <1>1, <1>3, <1>7, Shapes
  <2>2. \A o \in Objects : N(o) => o = Find(camera)
    BY <1>1, <1>3, <1>7
  <2>3. Newest(camera) = CHOOSE o \in Objects : N(o)
    BY DEF Newest
  <2> HIDE DEF N
  <2> QED BY <1>7, <2>1, <2>2, <2>3
<1> QED BY <1>1, <1>3, <1>5, <1>6, <1>7, <1>8 DEF ItemsOf

LEMMA NewestIs ==
  ASSUME CInv, NEW camera
  PROVE  /\ Newest(camera) \in 0..Len(opened)
         /\ \A j \in DOMAIN camera_item_list_ :
              camera_item_list_[j].camera = camera
                => Newest(camera) = camera_item_list_[j].object
<1>1. CASE HasItem(camera)
  <2>1. Newest(camera) \in 1..Len(opened)
    BY <1>1, Finds, Shapes
  <2>2. \A j \in DOMAIN camera_item_list_ :
          camera_item_list_[j].camera = camera => camera_item_list_[j].object = Find(camera)
    BY <1>1, Finds DEF Find
  <2> QED BY <1>1, <2>1, <2>2, Finds, Shapes
<1>2. CASE ~HasItem(camera)
  BY <1>2, Shapes DEF Newest, HasItem, ItemsOf
<1> QED BY <1>1, <1>2

-----------------------------------------------------------------------------
(* A step that is none of the camera reader's.                             *)
LEMMA CameraStays ==
  ASSUME CInv, UNCHANGED cameraVars
  PROVE  CInv'
BY DEF CInv, cameraVars, CameraTypeOK, ItemsDiffer, ItemsConfigured, MissingMeansEnded,
       ReadsTakeTurns, QueueIsNewer, StrandIsNewer, ImagesAreOfNewest, Objects, HasItem, ItemsOf

(* A mail is posted.                                                       *)
LEMMA MailPosted ==
  ASSUME CInv, NEW mail \in CameraMails, mail.since = Newest(mail.camera),
         PostToCamera(mail)
  PROVE  CInv'
<1> USE DEF CInv
<1>1. /\ cameraQueue' = Append(cameraQueue, mail)
      /\ UNCHANGED <<camera_info_list_, camera_item_list_, opened, strand, thread, answers,
                     crashed>>
  BY DEF PostToCamera, listVars
<1>2. cameraQueue \in Seq(CameraMails)
  BY DEF CameraTypeOK
<1>3. /\ cameraQueue' \in Seq(CameraMails)
      /\ DOMAIN cameraQueue = 1..Len(cameraQueue) /\ Len(cameraQueue) \in Nat
      /\ DOMAIN cameraQueue' = 1..(Len(cameraQueue) + 1)
      /\ \A i \in 1..Len(cameraQueue) : cameraQueue'[i] = cameraQueue[i]
      /\ cameraQueue'[Len(cameraQueue) + 1] = mail
  BY <1>1, <1>2, Added, Lengths
<1>4. CameraTypeOK'
  BY <1>1, <1>3 DEF CameraTypeOK, Objects
<1>5. /\ mail.since <= Len(opened)
      /\ \A j \in DOMAIN camera_item_list_ :
           camera_item_list_[j].camera = mail.camera => mail.since <= camera_item_list_[j].object
  BY NewestIs, Shapes
<1>6. QueueIsNewer'
  <2>1. SUFFICES ASSUME NEW i \in DOMAIN cameraQueue'
                 PROVE  /\ cameraQueue'[i].since <= Len(opened)
                        /\ \A j \in DOMAIN camera_item_list_ :
                             camera_item_list_[j].camera = cameraQueue'[i].camera
                               => cameraQueue'[i].since <= camera_item_list_[j].object
    BY <1>1 DEF QueueIsNewer
  <2>2. CASE i \in DOMAIN cameraQueue
    BY <1>3, <2>2 DEF QueueIsNewer
  <2>3. CASE i = Len(cameraQueue) + 1
    BY <1>3, <1>5, <2>3
  <2> QED BY <1>3, <2>1, <2>2, <2>3
<1>7. /\ ItemsDiffer' /\ ItemsConfigured' /\ MissingMeansEnded' /\ ReadsTakeTurns'
      /\ StrandIsNewer' /\ ImagesAreOfNewest'
  BY <1>1 DEF ItemsDiffer, ItemsConfigured, MissingMeansEnded, ReadsTakeTurns, StrandIsNewer,
              ImagesAreOfNewest, Objects, HasItem, ItemsOf
<1> QED BY <1>4, <1>6, <1>7

(* The service takes an answer.                                            *)
LEMMA AnswerTaken ==
  ASSUME CInv, TakeAnswer
  PROVE  CInv'
<1> USE DEF CInv
<1>1. /\ answers # <<>> /\ answers' = Tail(answers)
      /\ UNCHANGED <<camera_info_list_, camera_item_list_, opened, strand, thread, cameraQueue,
                     crashed>>
  BY DEF TakeAnswer, listVars
<1>2. answers \in Seq(AnswerRecord)
  BY DEF CameraTypeOK, AnswerRecord
<1>3. /\ answers' \in Seq(AnswerRecord)
      /\ DOMAIN answers = 1..Len(answers) /\ Len(answers) \in Nat
      /\ DOMAIN answers' = 1..(Len(answers) - 1)
      /\ \A i \in 1..(Len(answers) - 1) : answers'[i] = answers[i + 1]
  BY <1>1, <1>2, Taken, Lengths
<1>4. CameraTypeOK'
  BY <1>1, <1>3 DEF CameraTypeOK, Objects, AnswerRecord
<1>5. ImagesAreOfNewest'
  <2>1. \A i \in DOMAIN answers' : i + 1 \in DOMAIN answers /\ answers'[i] = answers[i + 1]
    BY <1>3
  <2> QED BY <2>1 DEF ImagesAreOfNewest
<1>6. /\ ItemsDiffer' /\ ItemsConfigured' /\ MissingMeansEnded' /\ ReadsTakeTurns'
      /\ QueueIsNewer' /\ StrandIsNewer'
  BY <1>1 DEF ItemsDiffer, ItemsConfigured, MissingMeansEnded, ReadsTakeTurns, QueueIsNewer,
              StrandIsNewer, Objects, HasItem, ItemsOf
<1> QED BY <1>4, <1>5, <1>6

-----------------------------------------------------------------------------
(* What each part of a thread's step does.                                 *)
ThreadState == {Idle, Ended} \cup ReadingState

LEMMA Threading ==
  ASSUME CInv, NEW t \in Threads
  PROVE  /\ thread \in [Threads -> ThreadState]
         /\ thread[t].doing = "reading" =>
              /\ thread[t] \in ReadingState
              /\ thread[t].mail \in CameraMails /\ thread[t].object \in Objects
         /\ thread[t] \in {Idle, Ended} => thread[t].doing # "reading"
         /\ Idle # Ended
<1>1. thread \in [Threads -> ThreadState]
  BY DEF CInv, CameraTypeOK, ThreadState, ReadingState
<1>2. thread[t] = Idle \/ thread[t] = Ended \/ thread[t] \in ReadingState
  BY <1>1 DEF ThreadState
<1>3. Idle.doing = "idle" /\ Ended.doing = "ended"
  BY DEF Idle, Ended
<1> QED BY <1>1, <1>2, <1>3 DEF ReadingState

LEMMA MailTaken ==
  ASSUME CInv, NEW t \in Threads, NEW cmd, Handles(t, cmd)
  PROVE  /\ Tail(cameraQueue) \in Seq(CameraMails)
         /\ Head(cameraQueue) \in CameraMails /\ Head(cameraQueue).cmd = cmd
         /\ Head(cameraQueue).since <= Len(opened)
         /\ \A j \in DOMAIN camera_item_list_ :
              camera_item_list_[j].camera = Head(cameraQueue).camera
                => Head(cameraQueue).since <= camera_item_list_[j].object
         /\ \A i \in DOMAIN Tail(cameraQueue) :
              i + 1 \in DOMAIN cameraQueue /\ Tail(cameraQueue)[i] = cameraQueue[i + 1]
         /\ thread[t] = Idle
<1>1. cameraQueue \in Seq(CameraMails) /\ cameraQueue # <<>>
      /\ Head(cameraQueue).cmd = cmd /\ thread[t] = Idle
  BY DEF CInv, CameraTypeOK, Handles
<1>2. /\ Len(cameraQueue) \in Nat /\ Len(cameraQueue) > 0
      /\ DOMAIN cameraQueue = 1..Len(cameraQueue)
      /\ Head(cameraQueue) = cameraQueue[1] /\ Head(cameraQueue) \in CameraMails
      /\ Tail(cameraQueue) \in Seq(CameraMails)
      /\ DOMAIN Tail(cameraQueue) = 1..(Len(cameraQueue) - 1)
      /\ \A i \in 1..(Len(cameraQueue) - 1) : Tail(cameraQueue)[i] = cameraQueue[i + 1]
  BY <1>1, Taken, Lengths
<1>3. 1 \in DOMAIN cameraQueue
  BY <1>2
<1> QED BY <1>1, <1>2, <1>3 DEF CInv, QueueIsNewer

LEMMA AnswerAdded ==
  ASSUME CInv, Objects \subseteq Objects', Objects' \subseteq Nat,
         NEW mail \in CameraMails, NEW ok \in BOOLEAN,
         NEW object \in Objects', mail.cmd = "reset" \/ mail.since <= object,
         PostAnswer(mail, ok, object)
  PROVE  answers' \in Seq([mail : CameraMails, ok : BOOLEAN, object : Objects'])
         /\ ImagesAreOfNewest'
<1> DEFINE Later == [mail : CameraMails, ok : BOOLEAN, object : Objects']
           a     == Answer(mail, ok, object)
<1>1. answers \in Seq(AnswerRecord) /\ AnswerRecord \subseteq Later
  BY DEF CInv, CameraTypeOK, AnswerRecord
<1>2. answers \in Seq(Later) /\ a \in Later
  BY <1>1, OfMore DEF Answer
<1>3. answers' = Append(answers, a)
  BY DEF PostAnswer
<1>4. /\ answers' \in Seq(Later) /\ Len(answers) \in Nat /\ DOMAIN answers = 1..Len(answers)
      /\ DOMAIN answers' = 1..(Len(answers) + 1)
      /\ \A i \in 1..Len(answers) : answers'[i] = answers[i]
      /\ answers'[Len(answers) + 1] = a
  BY <1>2, <1>3, Added, Lengths
<1>5. ImagesAreOfNewest'
  <2>1. SUFFICES ASSUME NEW i \in DOMAIN answers',
                        answers'[i].mail.cmd = "noop", answers'[i].ok
                 PROVE  answers'[i].object >= answers'[i].mail.since
    BY DEF ImagesAreOfNewest
  <2>2. CASE i \in DOMAIN answers
    BY <1>4, <2>1, <2>2 DEF CInv, ImagesAreOfNewest
  <2>3. CASE i = Len(answers) + 1
    <3>1. answers'[i].mail = mail /\ answers'[i].object = object
      BY <1>4, <2>3 DEF Answer
    <3>2. object \in Int /\ mail.since \in Int /\ mail.since <= object
      BY <2>1, <3>1 DEF CameraMails
    <3> QED BY <3>1, <3>2
  <2> QED BY <1>4, <2>2, <2>3
<1> QED BY <1>4, <1>5

(* A mail begins to wait for the strand of its camera's object.            *)
LEMMA GetImageKeeps ==
  ASSUME CInv, NEW t \in Threads, GetImage(t)
  PROVE  CInv'
<1> DEFINE mail == Head(cameraQueue)
           o    == Find(mail.camera)
<1> USE DEF CInv
<1>1. /\ Handles(t, "noop") /\ cameraQueue' = Tail(cameraQueue) /\ HasItem(mail.camera)
      /\ strand' = [strand EXCEPT ![o] = Append(@, mail)]
      /\ UNCHANGED <<camera_info_list_, camera_item_list_, opened, thread, answers, crashed>>
  BY DEF GetImage, Takes, listVars
<1>2. /\ Tail(cameraQueue) \in Seq(CameraMails) /\ mail \in CameraMails
      /\ \A j \in DOMAIN camera_item_list_ :
           camera_item_list_[j].camera = mail.camera => mail.since <= camera_item_list_[j].object
      /\ \A i \in DOMAIN Tail(cameraQueue) :
           i + 1 \in DOMAIN cameraQueue /\ Tail(cameraQueue)[i] = cameraQueue[i + 1]
  BY <1>1, MailTaken
<1>3. o \in Objects /\ mail.since <= o
  BY <1>1, <1>2, Finds DEF Find
<1>4. /\ strand \in Seq(Seq(CameraMails)) /\ DOMAIN strand = Objects
      /\ strand[o] \in Seq(CameraMails)
  BY <1>3, Shapes DEF CameraTypeOK
<1>5. /\ Append(strand[o], mail) \in Seq(CameraMails)
      /\ Len(strand[o]) \in Nat /\ DOMAIN strand[o] = 1..Len(strand[o])
      /\ DOMAIN Append(strand[o], mail) = 1..(Len(strand[o]) + 1)
      /\ \A i \in 1..Len(strand[o]) : Append(strand[o], mail)[i] = strand[o][i]
      /\ Append(strand[o], mail)[Len(strand[o]) + 1] = mail
  BY <1>2, <1>4, Added, Lengths
<1>6. /\ strand' \in Seq(Seq(CameraMails)) /\ Len(strand') = Len(strand)
      /\ strand'[o] = Append(strand[o], mail)
      /\ \A p \in Objects \ {o} : strand'[p] = strand[p]
  <2> HIDE DEF mail, o
  <2>1. strand' = [strand EXCEPT ![o] = Append(strand[o], mail)]
    BY <1>1
  <2> QED BY <1>3, <1>4, <1>5, <2>1, Replaced
<1>7. CameraTypeOK'
  BY <1>1, <1>2, <1>6 DEF CameraTypeOK, Objects
<1>8. ReadsTakeTurns'
  <2>1. ASSUME NEW p \in Objects, strand[p] # <<>>
        PROVE  strand'[p] # <<>> /\ Head(strand'[p]) = Head(strand[p])
    <3>1. CASE p = o
      <4>1. /\ Append(strand[o], mail) # <<>>
            /\ Head(Append(strand[o], mail)) = Head(strand[o])
        <5> HIDE DEF o, mail
        <5> QED BY <1>2, <1>4, <2>1, <3>1, HeadKept
      <4> QED BY <1>6, <3>1, <4>1
    <3>2. CASE p # o
      BY <1>6, <2>1, <3>2
    <3> QED BY <3>1, <3>2
  <2>2. \A u \in Threads : thread[u].doing = "reading" => thread[u].object \in Objects
    BY Threading
  <2> QED BY <1>1, <2>1, <2>2 DEF ReadsTakeTurns
<1>9. QueueIsNewer'
  BY <1>1, <1>2 DEF QueueIsNewer
<1>10. StrandIsNewer'
  <2>1. SUFFICES ASSUME NEW p \in Objects, NEW i \in DOMAIN strand'[p]
                 PROVE  strand'[p][i].since <= p
    BY <1>1 DEF StrandIsNewer, Objects
  <2>2. CASE p = o
    <3>1. i \in 1..(Len(strand[o]) + 1) /\ strand'[p][i] = Append(strand[o], mail)[i]
      BY <1>5, <1>6, <2>1, <2>2
    <3>2. i \in DOMAIN strand[o] \/ i = Len(strand[o]) + 1
      BY <1>5, <3>1
    <3> QED BY <1>3, <1>5, <2>2, <3>1, <3>2 DEF StrandIsNewer
  <2>3. CASE p # o
    BY <1>6, <2>1, <2>3 DEF StrandIsNewer
  <2> QED BY <2>2, <2>3
<1>11. ItemsDiffer' /\ ItemsConfigured' /\ MissingMeansEnded' /\ ImagesAreOfNewest'
  BY <1>1 DEF ItemsDiffer, ItemsConfigured, MissingMeansEnded, ImagesAreOfNewest, HasItem, ItemsOf
<1> QED BY <1>7, <1>8, <1>9, <1>10, <1>11

(* The end of the program disturbs nothing.                                *)
LEMMA CrashKeeps ==
  ASSUME CInv, crashed' \in {"no camera", "released while read"},
         UNCHANGED <<listVars, strand, thread, cameraQueue, answers>>
  PROVE  CInv'
BY DEF CInv, listVars, CameraTypeOK, ItemsDiffer, ItemsConfigured, MissingMeansEnded,
       ReadsTakeTurns, QueueIsNewer, StrandIsNewer, ImagesAreOfNewest, Objects, HasItem, ItemsOf

(* The mail that holds an object's strand leaves it.                       *)
LEMMA StrandLeft ==
  ASSUME CInv, NEW o \in Objects, strand[o] # <<>>,
         strand' = [strand EXCEPT ![o] = Tail(@)], opened' = opened
  PROVE  /\ strand' \in Seq(Seq(CameraMails)) /\ Len(strand') = Len(strand)
         /\ \A p \in Objects \ {o} : strand'[p] = strand[p]
         /\ Head(strand[o]) \in CameraMails /\ Head(strand[o]).since <= o
         /\ StrandIsNewer'
<1> USE DEF CInv
<1>1. strand \in Seq(Seq(CameraMails)) /\ DOMAIN strand = Objects /\ strand[o] \in Seq(CameraMails)
  BY Shapes DEF CameraTypeOK
<1>2. /\ Len(strand[o]) \in Nat /\ Len(strand[o]) > 0 /\ DOMAIN strand[o] = 1..Len(strand[o])
      /\ Head(strand[o]) = strand[o][1] /\ Head(strand[o]) \in CameraMails
      /\ Tail(strand[o]) \in Seq(CameraMails)
      /\ DOMAIN Tail(strand[o]) = 1..(Len(strand[o]) - 1)
      /\ \A i \in 1..(Len(strand[o]) - 1) : Tail(strand[o])[i] = strand[o][i + 1]
  BY <1>1, Taken, Lengths
<1>3. /\ strand' \in Seq(Seq(CameraMails)) /\ Len(strand') = Len(strand)
      /\ strand'[o] = Tail(strand[o])
      /\ \A p \in Objects \ {o} : strand'[p] = strand[p]
  BY <1>1, <1>2, Replaced
<1>4. 1 \in DOMAIN strand[o] /\ Head(strand[o]).since <= o
  BY <1>2 DEF StrandIsNewer
<1>5. StrandIsNewer'
  <2>1. SUFFICES ASSUME NEW p \in Objects, NEW i \in DOMAIN strand'[p]
                 PROVE  strand'[p][i].since <= p
    BY DEF StrandIsNewer, Objects
  <2>2. CASE p = o
    <3>1. i + 1 \in DOMAIN strand[o] /\ strand'[p][i] = strand[o][i + 1]
      BY <1>2, <1>3, <2>1, <2>2
    <3> QED BY <2>2, <3>1 DEF StrandIsNewer
  <2>3. CASE p # o
    BY <1>3, <2>1, <2>3 DEF StrandIsNewer
  <2> QED BY <2>2, <2>3
<1> QED BY <1>2, <1>3, <1>4, <1>5

LEMMA ReadClosedKeeps ==
  ASSUME CInv, NEW t \in Threads, NEW o \in Objects, ReadClosed(t, o)
  PROVE  CInv'
<1> USE DEF CInv
<1>1. /\ strand[o] # <<>> /\ ~Busy(o) /\ strand' = [strand EXCEPT ![o] = Tail(@)]
      /\ PostAnswer(Head(strand[o]), FALSE, o)
      /\ UNCHANGED <<camera_info_list_, camera_item_list_, opened, thread, cameraQueue, crashed>>
  BY DEF ReadClosed, listVars
<1>2. /\ strand' \in Seq(Seq(CameraMails)) /\ Len(strand') = Len(strand)
      /\ \A p \in Objects \ {o} : strand'[p] = strand[p]
      /\ Head(strand[o]) \in CameraMails /\ Head(strand[o]).since <= o
      /\ StrandIsNewer'
  BY <1>1, StrandLeft
<1>3. /\ answers' \in Seq([mail : CameraMails, ok : BOOLEAN, object : Objects'])
      /\ ImagesAreOfNewest'
  <2>1. Objects' = Objects
    BY <1>1 DEF Objects
  <2>2. Objects \subseteq Objects' /\ Objects' \subseteq Nat /\ o \in Objects'
    BY <2>1, Shapes
  <2> QED BY <1>1, <1>2, <2>2, AnswerAdded
<1>4. CameraTypeOK'
  BY <1>1, <1>2, <1>3 DEF CameraTypeOK, Objects
<1>5. ReadsTakeTurns'
  <2>1. \A u \in Threads : thread[u].doing = "reading" =>
          thread[u].object \in Objects /\ thread[u].object # o
    BY <1>1, Threading DEF Busy
  <2> QED BY <1>1, <1>2, <2>1 DEF ReadsTakeTurns
<1>6. ItemsDiffer' /\ ItemsConfigured' /\ MissingMeansEnded' /\ QueueIsNewer'
  BY <1>1 DEF ItemsDiffer, ItemsConfigured, MissingMeansEnded, QueueIsNewer, HasItem, ItemsOf
<1> QED BY <1>2, <1>3, <1>4, <1>5, <1>6

(* The thread that ends is none that had ended before.                     *)
LEMMA EndedStay ==
  ASSUME CInv, NEW t \in Threads, thread[t] # Ended, NEW state,
         thread' = [thread EXCEPT ![t] = state],
         UNCHANGED <<camera_info_list_, camera_item_list_>>
  PROVE  MissingMeansEnded'
<1>1. \A u \in Threads : thread[u] = Ended => thread'[u] = Ended
  BY Threading
<1> QED BY <1>1 DEF CInv, MissingMeansEnded, HasItem, ItemsOf

LEMMA BeginReadKeeps ==
  ASSUME CInv, NEW t \in Threads, NEW o \in Objects, BeginRead(t, o)
  PROVE  CInv'
<1> DEFINE new == Reading(Head(strand[o]), o)
<1> USE DEF CInv
<1>1. /\ thread[t] = Idle /\ strand[o] # <<>> /\ ~Busy(o)
      /\ thread' = [thread EXCEPT ![t] = new]
      /\ UNCHANGED <<camera_info_list_, camera_item_list_, opened, strand, cameraQueue, answers,
                     crashed>>
  BY DEF BeginRead, listVars
<1>2. Head(strand[o]) \in CameraMails
  BY <1>1, Taken, Shapes
<1>3. new \in ReadingState
  BY <1>2 DEF Reading, ReadingState
<1>4. /\ thread' \in [Threads -> ThreadState] /\ thread'[t] = new
      /\ \A u \in Threads \ {t} : thread'[u] = thread[u]
  BY <1>1, <1>3, Threading DEF ThreadState
<1>5. CameraTypeOK'
  BY <1>1, <1>4 DEF CameraTypeOK, Objects, ThreadState, ReadingState
<1>6. new.doing = "reading" /\ new.mail = Head(strand[o]) /\ new.object = o
  BY DEF Reading
<1>7. \A u \in Threads : thread[u].doing = "reading" => thread[u].object # o
  BY <1>1 DEF Busy
<1>8. ReadsTakeTurns'
  <2> HIDE DEF new
  <2> QED BY <1>1, <1>4, <1>6, <1>7 DEF ReadsTakeTurns
<1>9. MissingMeansEnded'
  BY <1>1, EndedStay, Threading
<1>10. ItemsDiffer' /\ ItemsConfigured' /\ QueueIsNewer' /\ StrandIsNewer' /\ ImagesAreOfNewest'
  BY <1>1 DEF ItemsDiffer, ItemsConfigured, QueueIsNewer, StrandIsNewer, ImagesAreOfNewest, Objects
<1> QED BY <1>5, <1>8, <1>9, <1>10

LEMMA EndReadKeeps ==
  ASSUME CInv, NEW t \in Threads, EndRead(t)
  PROVE  CInv'
<1> DEFINE o    == thread[t].object
           mail == thread[t].mail
<1> USE DEF CInv
<1>1. /\ thread[t].doing = "reading"
      /\ thread' = [thread EXCEPT ![t] = Idle]
      /\ strand' = [strand EXCEPT ![o] = Tail(@)]
      /\ UNCHANGED <<camera_info_list_, camera_item_list_, opened, cameraQueue, crashed>>
  BY DEF EndRead, listVars
<1>2. PICK ok \in BOOLEAN : PostAnswer(mail, ok, o)
  BY DEF EndRead
<1>3. o \in Objects /\ strand[o] # <<>> /\ mail = Head(strand[o])
  BY <1>1, Threading DEF ReadsTakeTurns
<1>4. /\ strand' \in Seq(Seq(CameraMails)) /\ Len(strand') = Len(strand)
      /\ \A p \in Objects \ {o} : strand'[p] = strand[p]
      /\ mail \in CameraMails /\ mail.since <= o
      /\ StrandIsNewer'
  <2> HIDE DEF o, mail
  <2> QED BY <1>1, <1>3, StrandLeft
<1>5. /\ answers' \in Seq([mail : CameraMails, ok : BOOLEAN, object : Objects'])
      /\ ImagesAreOfNewest'
  <2>1. Objects' = Objects
    BY <1>1 DEF Objects
  <2>2. Objects \subseteq Objects' /\ Objects' \subseteq Nat /\ o \in Objects'
    BY <1>3, <2>1, Shapes
  <2> HIDE DEF o, mail
  <2> QED BY <1>2, <1>4, <2>2, AnswerAdded
<1>6. /\ thread' \in [Threads -> ThreadState] /\ thread'[t] = Idle
      /\ \A u \in Threads \ {t} : thread'[u] = thread[u]
  BY <1>1, Threading DEF ThreadState
<1>7. CameraTypeOK'
  BY <1>1, <1>4, <1>5, <1>6 DEF CameraTypeOK, Objects, ThreadState, ReadingState
<1>8. ReadsTakeTurns'
  <2>1. \A u \in Threads \ {t} : thread[u].doing = "reading" =>
          thread[u].object \in Objects \ {o}
    BY <1>1, Threading DEF ReadsTakeTurns
  <2>2. thread'[t].doing # "reading"
    BY <1>6 DEF Idle
  <2> QED BY <1>4, <1>6, <2>1, <2>2 DEF ReadsTakeTurns
<1>9. MissingMeansEnded'
  <2>1. thread[t] # Ended
    BY <1>1, Threading
  <2> QED BY <1>1, <2>1, EndedStay
<1>10. ItemsDiffer' /\ ItemsConfigured' /\ QueueIsNewer'
  BY <1>1 DEF ItemsDiffer, ItemsConfigured, QueueIsNewer
<1> QED BY <1>4, <1>5, <1>7, <1>8, <1>9, <1>10

-----------------------------------------------------------------------------
(* A list that has the other cameras' items, each once.                    *)
OthersOf(camera, list) ==
  /\ list \in Seq(ItemRecord)
  /\ \A i \in DOMAIN list : list[i].camera # camera
  /\ \A i, j \in DOMAIN list : list[i].camera = list[j].camera => i = j
  /\ \A i \in DOMAIN list :
       \E k \in DOMAIN camera_item_list_ : list[i] = camera_item_list_[k]
  /\ \A k \in DOMAIN camera_item_list_ :
       camera_item_list_[k].camera # camera
         => \E i \in DOMAIN list : list[i] = camera_item_list_[k]

LEMMA WithoutItem ==
  ASSUME CInv, NEW camera, ~HasItem(camera)
  PROVE  OthersOf(camera, camera_item_list_)
BY DEF OthersOf, CInv, CameraTypeOK, ItemRecord, ItemsDiffer, HasItem, ItemsOf

LEMMA ItemRemoved ==
  ASSUME CInv, NEW camera
  PROVE  OthersOf(camera, Without(camera))
<1> DEFINE list == camera_item_list_
           k    == FindIf(camera)
           new  == RemoveAt(list, k)
<1>1. CASE ~HasItem(camera)
  BY <1>1, WithoutItem DEF Without
<1>2. CASE HasItem(camera)
  <2>1. list \in Seq(ItemRecord) /\ Len(list) \in Nat /\ DOMAIN list = 1..Len(list)
    BY Lengths DEF CInv, CameraTypeOK, ItemRecord
  <2>2. /\ k \in DOMAIN list /\ list[k].camera = camera
        /\ \A j \in DOMAIN list : list[j].camera = camera => j = k
    BY <1>2, Finds
  <2>3. \A i, j \in DOMAIN list : list[i].camera = list[j].camera => i = j
    BY DEF CInv, ItemsDiffer
  <2>4. Without(camera) = new
    BY <1>2 DEF Without
  <2> HIDE DEF k, list
  <2>5. /\ new \in Seq(ItemRecord) /\ DOMAIN new = 1..(Len(list) - 1)
        /\ \A i \in 1..(Len(list) - 1) : new[i] = list[IF i < k THEN i ELSE i + 1]
    BY <2>1, <2>2, Removed
  <2> HIDE DEF new
  <2> DEFINE old(i) == IF i < k THEN i ELSE i + 1
             now(i) == IF i < k THEN i ELSE i - 1
  <2>6. \A i \in DOMAIN new : old(i) \in DOMAIN list \ {k} /\ new[i] = list[old(i)]
    BY <2>1, <2>2, <2>5
  <2>7. \A i \in DOMAIN list \ {k} : now(i) \in DOMAIN new /\ old(now(i)) = i
    BY <2>1, <2>2, <2>5
  <2>8. \A i, j \in DOMAIN new : old(i) = old(j) => i = j
    BY <2>1, <2>2, <2>5
  <2> HIDE DEF old, now
  <2>9. \A i \in DOMAIN new : new[i].camera # camera
    BY <2>2, <2>6
  <2>10. \A i, j \in DOMAIN new : new[i].camera = new[j].camera => i = j
    BY <2>3, <2>6, <2>8
  <2>11. \A i \in DOMAIN new : \E j \in DOMAIN list : new[i] = list[j]
    BY <2>6
  <2>12. \A j \in DOMAIN list : list[j].camera # camera => \E i \in DOMAIN new : new[i] = list[j]
    BY <2>2, <2>6, <2>7
  <2> QED BY <2>4, <2>5, <2>9, <2>10, <2>11, <2>12 DEF OthersOf, list
<1> QED BY <1>1, <1>2

LEMMA ItemClosed ==
  ASSUME CInv, NEW camera
  PROVE  /\ Closed(camera) \in Seq(BOOLEAN) /\ Len(Closed(camera)) = Len(opened)
         /\ DOMAIN Closed(camera) = Objects
<1>1. Len(opened) \in Nat /\ Objects = 1..Len(opened)
  BY Shapes
<1>2. Closed(camera) \in [1..Len(opened) -> BOOLEAN]
  BY <1>1, Shapes DEF Closed
<1> QED BY <1>1, <1>2

LEMMA ItemMade ==
  ASSUME CInv, NEW camera \in Cameras, NEW list \in Seq(ItemRecord),
         NEW was \in Seq(BOOLEAN), Len(was) = Len(opened), NewItem(camera, list, was)
  PROVE  /\ opened' \in Seq(BOOLEAN) /\ Len(opened') = Len(opened) + 1
         /\ Objects' = 1..(Len(opened) + 1)
         /\ strand' \in Seq(Seq(CameraMails)) /\ Len(strand') = Len(opened')
         /\ \A o \in Objects : strand'[o] = strand[o]
         /\ strand'[Len(opened) + 1] = <<>>
         /\ StrandIsNewer'
         /\ camera_item_list_' \in Seq([camera : Cameras, object : Objects'])
         /\ Len(list) \in Nat /\ DOMAIN list = 1..Len(list)
         /\ DOMAIN camera_item_list_' = 1..(Len(list) + 1)
         /\ \A i \in 1..Len(list) : camera_item_list_'[i] = list[i]
         /\ camera_item_list_'[Len(list) + 1] = Item(camera, Len(opened) + 1)
<1> DEFINE n == Len(opened) + 1
           more == [camera : Cameras, object : Objects']
<1>1. PICK ok \in BOOLEAN : opened' = Append(was, ok)
  BY DEF NewItem
<1>2. camera_item_list_' = Append(list, Item(camera, n)) /\ strand' = Append(strand, <<>>)
  BY DEF NewItem
<1>3. Len(opened) \in Nat /\ Objects = 1..Len(opened) /\ Len(strand) = Len(opened)
  BY Shapes
<1>4. opened' \in Seq(BOOLEAN) /\ Len(opened') = n /\ Objects' = 1..n
  <2> DEFINE Flags == BOOLEAN
  <2>1. was \in Seq(Flags) /\ \E flag \in Flags : opened' = Append(was, flag)
    BY <1>1
  <2> HIDE DEF Flags
  <2>2. /\ opened' \in Seq(Flags) /\ Len(opened') = Len(was) + 1
        /\ DOMAIN opened' = 1..(Len(was) + 1)
    BY <2>1, Added
  <2>3. opened' \in Seq(BOOLEAN)
    BY <2>2, Zenon DEF Flags
  <2>4. Len(opened') = n /\ Objects' = 1..n
    BY <2>2 DEF Objects
  <2> QED BY <2>3, <2>4
<1>5. <<>> \in Seq(CameraMails) /\ strand \in Seq(Seq(CameraMails))
  <2>1. strand \in Seq(Seq(CameraMails))
    BY DEF CInv, CameraTypeOK
  <2>2. <<>> \in Seq(CameraMails)
    OBVIOUS
  <2> QED BY <2>1, <2>2
<1>6. /\ strand' \in Seq(Seq(CameraMails)) /\ Len(strand') = n
      /\ \A o \in 1..Len(opened) : strand'[o] = strand[o]
      /\ strand'[n] = <<>>
  BY <1>2, <1>3, <1>5, Added
<1>7. StrandIsNewer'
  <2>1. SUFFICES ASSUME NEW o \in 1..n, NEW i \in DOMAIN strand'[o]
                 PROVE  strand'[o][i].since <= o
    BY <1>4 DEF StrandIsNewer
  <2>2. o \in 1..Len(opened)
    BY <1>3, <1>6, <2>1
  <2> QED BY <1>3, <1>6, <2>1, <2>2 DEF CInv, StrandIsNewer
<1>8. ItemRecord \subseteq more /\ Item(camera, n) \in more
  BY <1>3, <1>4 DEF ItemRecord, Item
<1>9. list \in Seq(more)
  BY <1>8, OfMore
<1>10. /\ camera_item_list_' \in Seq(more)
       /\ Len(list) \in Nat /\ DOMAIN list = 1..Len(list)
       /\ DOMAIN camera_item_list_' = 1..(Len(list) + 1)
       /\ \A i \in 1..Len(list) : camera_item_list_'[i] = list[i]
       /\ camera_item_list_'[Len(list) + 1] = Item(camera, n)
  <2> HIDE DEF more
  <2> QED BY <1>2, <1>8, <1>9, Added, Lengths
<1> QED BY <1>3, <1>4, <1>6, <1>7, <1>10

(* A camera is configured anew, and its item made.                         *)
LEMMA CameraMade ==
  ASSUME CInv, NEW camera \in Cameras, NEW list, OthersOf(camera, list),
         NEW was \in Seq(BOOLEAN), Len(was) = Len(opened), NewItem(camera, list, was),
         camera_info_list_' = camera_info_list_ \cup {camera},
         NEW t \in Threads, Takes(t, "reset"), UNCHANGED <<thread, crashed>>
  PROVE  /\ answers' \in Seq([mail : CameraMails, ok : BOOLEAN, object : Objects'])
              => CameraTypeOK'
         /\ ItemsDiffer' /\ ItemsConfigured' /\ MissingMeansEnded' /\ ReadsTakeTurns'
         /\ QueueIsNewer' /\ StrandIsNewer'
<1> DEFINE n     == Len(opened) + 1
           items == camera_item_list_'
<1> USE DEF CInv
<1>1. /\ opened' \in Seq(BOOLEAN) /\ Len(opened') = n /\ Objects' = 1..n
      /\ strand' \in Seq(Seq(CameraMails)) /\ Len(strand') = Len(opened')
      /\ \A o \in Objects : strand'[o] = strand[o]
      /\ StrandIsNewer'
      /\ items \in Seq([camera : Cameras, object : Objects'])
      /\ Len(list) \in Nat /\ DOMAIN list = 1..Len(list)
      /\ DOMAIN items = 1..(Len(list) + 1)
      /\ \A i \in 1..Len(list) : items[i] = list[i]
      /\ items[Len(list) + 1] = Item(camera, n)
  BY ItemMade DEF OthersOf
<1>2. Len(opened) \in Nat /\ Objects = 1..Len(opened)
  BY Shapes
<1>3. items[Len(list) + 1].camera = camera /\ items[Len(list) + 1].object = n
  BY <1>1 DEF Item
<1>4. Handles(t, "reset") /\ cameraQueue' = Tail(cameraQueue)
  BY DEF Takes
<1>5. /\ Tail(cameraQueue) \in Seq(CameraMails)
      /\ \A i \in DOMAIN Tail(cameraQueue) :
           i + 1 \in DOMAIN cameraQueue /\ Tail(cameraQueue)[i] = cameraQueue[i + 1]
  BY <1>4, MailTaken
<1> HIDE DEF items
<1>6. ItemsDiffer'
  <2>1. SUFFICES ASSUME NEW i \in DOMAIN items, NEW j \in DOMAIN items,
                        items[i].camera = items[j].camera
                 PROVE  i = j
    BY DEF ItemsDiffer, items
  <2>2. \A k \in DOMAIN items : k \in DOMAIN list \/ k = Len(list) + 1
    BY <1>1
  <2>3. \A k \in DOMAIN list : items[k].camera # camera /\ items[k].camera = list[k].camera
    BY <1>1 DEF OthersOf
  <2>4. CASE i \in DOMAIN list /\ j \in DOMAIN list
    BY <2>1, <2>3, <2>4 DEF OthersOf
  <2>5. CASE i = Len(list) + 1 \/ j = Len(list) + 1
    BY <1>3, <2>1, <2>2, <2>3, <2>5
  <2> QED BY <2>1, <2>2, <2>4, <2>5
<1>7. ItemsConfigured'
  <2>1. SUFFICES ASSUME NEW i \in DOMAIN items
                 PROVE  items[i].camera \in camera_info_list_'
    BY DEF ItemsConfigured, items
  <2>2. CASE i \in DOMAIN list
    <3>1. PICK k \in DOMAIN camera_item_list_ : list[i] = camera_item_list_[k]
      BY <2>2 DEF OthersOf
    <3> QED BY <1>1, <2>2, <3>1 DEF ItemsConfigured
  <2>3. CASE i = Len(list) + 1
    BY <1>3, <2>3
  <2> QED BY <1>1, <2>1, <2>2, <2>3
<1>8. MissingMeansEnded'
  <2>1. SUFFICES ASSUME NEW other \in camera_info_list_', \A u \in Threads : thread[u] # Ended
                 PROVE  \E i \in DOMAIN items : items[i].camera = other
    BY DEF MissingMeansEnded, HasItem, ItemsOf, items
  <2>2. CASE other = camera
    BY <1>1, <1>3, <2>2
  <2>3. CASE other # camera
    <3>1. other \in camera_info_list_
      BY <2>1, <2>3
    <3>2. PICK k \in DOMAIN camera_item_list_ : camera_item_list_[k].camera = other
      BY <2>1, <3>1 DEF MissingMeansEnded, HasItem, ItemsOf
    <3>3. PICK i \in DOMAIN list : list[i] = camera_item_list_[k]
      BY <2>3, <3>2 DEF OthersOf
    <3> QED BY <1>1, <3>2, <3>3
  <2> QED BY <2>2, <2>3
<1>9. ReadsTakeTurns'
  <2>1. \A u \in Threads : thread[u].doing = "reading" => thread[u].object \in Objects
    BY Threading
  <2> QED BY <1>1, <2>1 DEF ReadsTakeTurns
<1>10. QueueIsNewer'
  <2>1. SUFFICES ASSUME NEW i \in DOMAIN Tail(cameraQueue)
                 PROVE  LET mail == Tail(cameraQueue)[i]
                        IN /\ mail.since <= n
                           /\ \A j \in DOMAIN items :
                                items[j].camera = mail.camera => mail.since <= items[j].object
    BY <1>1, <1>4 DEF QueueIsNewer, items
  <2> DEFINE mail == Tail(cameraQueue)[i]
  <2>2. /\ mail \in CameraMails /\ mail.since <= Len(opened)
        /\ \A k \in DOMAIN camera_item_list_ :
             camera_item_list_[k].camera = mail.camera
               => mail.since <= camera_item_list_[k].object
    BY <1>5, <2>1, Lengths DEF QueueIsNewer, CameraTypeOK
  <2> HIDE DEF mail
  <2>3. mail.since \in Nat /\ mail.since <= n
    BY <1>2, <2>2 DEF CameraMails
  <2>4. ASSUME NEW j \in DOMAIN items, items[j].camera = mail.camera
        PROVE  mail.since <= items[j].object
    <3>1. CASE j \in DOMAIN list
      <4>1. PICK k \in DOMAIN camera_item_list_ : list[j] = camera_item_list_[k]
        BY <3>1 DEF OthersOf
      <4> QED BY <1>1, <2>2, <2>4, <3>1, <4>1
    <3>2. CASE j = Len(list) + 1
      BY <1>3, <2>3, <3>2
    <3> QED BY <1>1, <3>1, <3>2
  <2> QED BY <2>3, <2>4 DEF mail
<1>11. ASSUME answers' \in Seq([mail : CameraMails, ok : BOOLEAN, object : Objects'])
       PROVE  CameraTypeOK'
  <2>1. \A u \in Threads : thread[u] \in ThreadState
    BY Threading
  <2>2. thread' \in [Threads -> {Idle, Ended} \cup
                       [doing : {"reading"}, mail : CameraMails, object : Objects']]
    <3>1. ThreadState \subseteq {Idle, Ended} \cup
                       [doing : {"reading"}, mail : CameraMails, object : Objects']
      BY <1>1, <1>2 DEF ThreadState, ReadingState
    <3>2. thread \in [Threads -> ThreadState]
      BY Threading
    <3> QED BY <3>1, <3>2
  <2>3. camera_info_list_' \subseteq Cameras
    BY DEF CameraTypeOK
  <2>4. crashed' \in {"no", "no camera", "released while read"}
    BY DEF CameraTypeOK
  <2> QED BY <1>1, <1>4, <1>5, <1>11, <2>2, <2>3, <2>4 DEF CameraTypeOK, items, Idle, Ended
<1> QED BY <1>1, <1>6, <1>7, <1>8, <1>9, <1>10, <1>11

LEMMA ResetNewCameraKeeps ==
  ASSUME CInv, NEW t \in Threads, ResetNewCamera(t)
  PROVE  CInv'
<1> DEFINE camera == Head(cameraQueue).camera
<1> USE DEF CInv
<1>1. /\ Takes(t, "reset") /\ camera \notin camera_info_list_
      /\ camera_info_list_' = camera_info_list_ \cup {camera}
      /\ NewItem(camera, camera_item_list_, opened)
      /\ UNCHANGED <<thread, crashed>> /\ answers' = answers
  BY DEF ResetNewCamera
<1>2. camera \in Cameras
  BY <1>1, MailTaken DEF Takes, CameraMails
<1>3. OthersOf(camera, camera_item_list_)
  <2>1. ~HasItem(camera)
    BY <1>1 DEF ItemsConfigured, HasItem, ItemsOf
  <2> QED BY <2>1, WithoutItem
<1>4. opened \in Seq(BOOLEAN)
  BY DEF CameraTypeOK
<1> HIDE DEF camera
<1>5. Objects \subseteq Objects'
  BY <1>1, <1>2, <1>3, <1>4, ItemMade, Shapes DEF OthersOf
<1>6. answers' \in Seq([mail : CameraMails, ok : BOOLEAN, object : Objects'])
  <2>1. answers \in Seq(AnswerRecord)
    BY DEF CameraTypeOK, AnswerRecord
  <2>2. AnswerRecord \subseteq [mail : CameraMails, ok : BOOLEAN, object : Objects']
    BY <1>5 DEF AnswerRecord
  <2> QED BY <1>1, <2>1, <2>2, OfMore
<1>7. ImagesAreOfNewest'
  BY <1>1 DEF ImagesAreOfNewest
<1> QED BY <1>1, <1>2, <1>3, <1>4, <1>6, <1>7, CameraMade

LEMMA ResetCameraKeeps ==
  ASSUME CInv, NEW t \in Threads, ResetCamera(t)
  PROVE  CInv'
<1> DEFINE mail   == Head(cameraQueue)
           camera == mail.camera
<1> USE DEF CInv
<1>1. /\ Takes(t, "reset") /\ camera \in camera_info_list_
      /\ NewItem(camera, Without(camera), Closed(camera))
      /\ PostAnswer(mail, TRUE, Len(opened'))
      /\ UNCHANGED <<camera_info_list_, thread, crashed>>
  BY DEF ResetCamera
<1>2. mail \in CameraMails /\ mail.cmd = "reset" /\ camera \in Cameras
  BY <1>1, MailTaken DEF Takes, CameraMails
<1>3. /\ OthersOf(camera, Without(camera)) /\ Closed(camera) \in Seq(BOOLEAN)
      /\ Len(Closed(camera)) = Len(opened)
  BY ItemRemoved, ItemClosed
<1>4. camera_info_list_' = camera_info_list_ \cup {camera}
  BY <1>1
<1> HIDE DEF mail, camera
<1>5. Objects \subseteq Objects' /\ Objects' \subseteq Nat /\ Len(opened') \in Objects'
  BY <1>1, <1>2, <1>3, ItemMade, Shapes DEF OthersOf
<1>6. answers' \in Seq([mail : CameraMails, ok : BOOLEAN, object : Objects'])
      /\ ImagesAreOfNewest'
  BY <1>1, <1>2, <1>5, AnswerAdded
<1> QED BY <1>1, <1>2, <1>3, <1>4, <1>6, CameraMade

LEMMA ResetThrowsKeeps ==
  ASSUME CInv, NEW t \in Threads, ResetThrows(t)
  PROVE  CInv'
<1> DEFINE camera == Head(cameraQueue).camera
           items  == Without(camera)
<1> USE DEF CInv
<1>1. /\ Takes(t, "reset")
      /\ camera_item_list_' = items /\ opened' = Closed(camera)
      /\ thread' = [thread EXCEPT ![t] = Ended]
      /\ UNCHANGED <<camera_info_list_, strand, answers, crashed>>
  BY DEF ResetThrows
<1>2. /\ Tail(cameraQueue) \in Seq(CameraMails) /\ thread[t] = Idle
      /\ cameraQueue' = Tail(cameraQueue)
      /\ \A i \in DOMAIN Tail(cameraQueue) :
           i + 1 \in DOMAIN cameraQueue /\ Tail(cameraQueue)[i] = cameraQueue[i + 1]
  BY <1>1, MailTaken DEF Takes
<1>3. /\ OthersOf(camera, items) /\ opened' \in Seq(BOOLEAN)
      /\ Len(opened') = Len(opened) /\ Objects' = Objects
  BY <1>1, ItemRemoved, ItemClosed DEF Objects
<1> HIDE DEF items, camera
<1>4. /\ thread' \in [Threads -> ThreadState] /\ thread'[t] = Ended
      /\ \A u \in Threads \ {t} : thread'[u] = thread[u]
  BY <1>1, Threading DEF ThreadState
<1>5. CameraTypeOK'
  BY <1>1, <1>2, <1>3, <1>4 DEF CameraTypeOK, OthersOf, ItemRecord, ThreadState, ReadingState,
                                Idle, Ended
<1>6. ItemsDiffer'
  BY <1>1, <1>3 DEF ItemsDiffer, OthersOf
<1>7. ItemsConfigured'
  BY <1>1, <1>3 DEF ItemsConfigured, OthersOf
<1>8. MissingMeansEnded'
  BY <1>4 DEF MissingMeansEnded
<1>9. ReadsTakeTurns'
  <2>1. thread'[t].doing # "reading"
    BY <1>4 DEF Ended
  <2> QED BY <1>1, <1>4, <2>1 DEF ReadsTakeTurns
<1>10. QueueIsNewer'
  <2>1. SUFFICES ASSUME NEW i \in DOMAIN Tail(cameraQueue)
                 PROVE  LET mail == Tail(cameraQueue)[i]
                        IN /\ mail.since <= Len(opened)
                           /\ \A j \in DOMAIN items :
                                items[j].camera = mail.camera => mail.since <= items[j].object
    BY <1>1, <1>2, <1>3 DEF QueueIsNewer
  <2>2. \A j \in DOMAIN items :
          \E k \in DOMAIN camera_item_list_ : items[j] = camera_item_list_[k]
    BY <1>3 DEF OthersOf
  <2> QED BY <1>2, <2>1, <2>2 DEF QueueIsNewer
<1>11. StrandIsNewer' /\ ImagesAreOfNewest'
  BY <1>1, <1>3 DEF StrandIsNewer, ImagesAreOfNewest
<1> QED BY <1>5, <1>6, <1>7, <1>8, <1>9, <1>10, <1>11

-----------------------------------------------------------------------------
(* start() makes as many items as there are configured cameras, of        *)
(* different cameras: all have one.                                        *)
LEMMA CameraInitKeeps ==
  ASSUME CameraInit
  PROVE  CInv
<1> DEFINE n == Cardinality(Configured)
           list == camera_item_list_
<1>1. /\ camera_info_list_ = Configured
      /\ list \in [1..n -> [camera : Configured, object : 1..n]]
      /\ \A i, j \in DOMAIN list : i # j => list[i].camera # list[j].camera
      /\ opened \in [1..n -> BOOLEAN]
      /\ strand = [o \in Objects |-> <<>>]
      /\ thread = [t \in Threads |-> Idle]
      /\ cameraQueue = <<>> /\ answers = <<>> /\ crashed = "no"
  BY DEF CameraInit
<1>2. DOMAIN list = 1..n /\ Objects = 1..n
  BY <1>1 DEF Objects
<1> HIDE DEF n
<1>3. n \in Nat /\ \A camera \in Configured : \E i \in 1..n : list[i].camera = camera
  <2> DEFINE f == [i \in 1..n |-> list[i].camera]
  <2>1. IsFiniteSet(Configured) /\ n = Cardinality(Configured) /\ n \in Nat
    BY ConfiguredAssumption, FiniteAssumption, FS_Subset, FS_CardinalityType DEF n
  <2>2. f \in Injection(1..n, Configured)
    BY <1>1, <1>2 DEF Injection, IsInjective
  <2>3. Cardinality(1..n) = n
    BY <2>1, FS_Interval
  <2> HIDE DEF f
  <2>4. f \in Surjection(1..n, Configured)
    BY <2>1, <2>2, <2>3, FS_Injection
  <2>5. \A camera \in Configured : \E i \in 1..n : f[i] = camera
    BY <2>4 DEF Surjection
  <2> QED BY <2>1, <2>5 DEF f
<1>4. /\ opened \in Seq(BOOLEAN) /\ Len(opened) = n
      /\ strand \in Seq(Seq(CameraMails)) /\ Len(strand) = n
  <2>1. <<>> \in Seq(CameraMails)
    OBVIOUS
  <2>2. strand \in [1..n -> Seq(CameraMails)]
    BY <1>1, <1>2, <2>1
  <2> QED BY <1>1, <1>3, <2>2
<1>5. list \in Seq([camera : Cameras, object : Objects])
  <2>1. [camera : Configured, object : 1..n] \subseteq [camera : Cameras, object : Objects]
    BY <1>2, ConfiguredAssumption
  <2> DEFINE S == [camera : Configured, object : 1..n]
             T == [camera : Cameras, object : Objects]
  <2> HIDE DEF S, T
  <2>2. S \subseteq T /\ list \in [1..n -> S]
    BY <1>1, <2>1 DEF S, T
  <2>3. list \in [1..n -> T]
    BY <2>2
  <2>4. list \in Seq(T)
    BY <1>3, <2>3
  <2> QED BY <2>4 DEF T
<1>6. CameraTypeOK
  BY <1>1, <1>4, <1>5, ConfiguredAssumption DEF CameraTypeOK
<1>7. ItemsDiffer
  BY <1>1 DEF ItemsDiffer
<1>8. ItemsConfigured
  BY <1>1, <1>2 DEF ItemsConfigured
<1>9. MissingMeansEnded
  BY <1>1, <1>2, <1>3 DEF MissingMeansEnded, HasItem, ItemsOf
<1>10. ReadsTakeTurns
  BY <1>1 DEF ReadsTakeTurns, Idle
<1>11. QueueIsNewer /\ ImagesAreOfNewest
  BY <1>1 DEF QueueIsNewer, ImagesAreOfNewest
<1>12. StrandIsNewer
  BY <1>1 DEF StrandIsNewer
<1> QED BY <1>6, <1>7, <1>8, <1>9, <1>10, <1>11, <1>12 DEF CInv

LEMMA RunThreadKeeps ==
  ASSUME CInv, NEW t \in Threads, RunThread(t)
  PROVE  CInv'
<1>1. CASE GetImage(t)
  BY <1>1, GetImageKeeps
<1>2. CASE GetImageOfNoCamera(t)
  BY <1>2, CrashKeeps DEF GetImageOfNoCamera
<1>3. CASE \E o \in Objects : ReadClosed(t, o) \/ BeginRead(t, o)
  BY <1>3, ReadClosedKeeps, BeginReadKeeps
<1>4. CASE EndRead(t)
  BY <1>4, EndReadKeeps
<1>5. CASE ReadOfReleased(t)
  BY <1>5, CrashKeeps DEF ReadOfReleased
<1>6. CASE ResetNewCamera(t)
  BY <1>6, ResetNewCameraKeeps
<1>7. CASE ResetCamera(t)
  BY <1>7, ResetCameraKeeps
<1>8. CASE ResetThrows(t)
  BY <1>8, ResetThrowsKeeps
<1> QED BY <1>1, <1>2, <1>3, <1>4, <1>5, <1>6, <1>7, <1>8 DEF RunThread

LEMMA ProcessRequestKeeps ==
  ASSUME CInv, NEW c \in Conns, ProcessRequest(c)
  PROVE  CInv'
<1>1. c \in Clients
  BY ClientsAssumption
<1>2. \A camera \in Cameras : Newest(camera) \in Nat
  BY NewestIs, Shapes
<1>3. CASE ReadImage(c)
  <2>1. PICK camera \in Cameras : PostToCamera(ImageMail(c, camera))
    BY <1>3 DEF ReadImage
  <2>2. /\ ImageMail(c, camera) \in CameraMails
        /\ ImageMail(c, camera).since = Newest(ImageMail(c, camera).camera)
    BY <1>1, <1>2 DEF ImageMail, CameraMails
  <2> QED BY <2>1, <2>2, MailPosted
<1>4. CASE ReadReset(c)
  <2>1. PICK camera \in Cameras, addr \in {"number", "text"} :
          PostToCamera(ResetMail(c, camera, addr))
    BY <1>4 DEF ReadReset
  <2>2. /\ ResetMail(c, camera, addr) \in CameraMails
        /\ ResetMail(c, camera, addr).since = Newest(ResetMail(c, camera, addr).camera)
    BY <1>1, <1>2 DEF ResetMail, CameraMails
  <2> QED BY <2>1, <2>2, MailPosted
<1>5. CASE ReadTime(c) \/ ReadAtOnce(c)
  BY <1>5, CameraStays DEF ReadTime, ReadAtOnce
<1> QED BY <1>3, <1>4, <1>5 DEF ProcessRequest

LEMMA NextKeeps ==
  ASSUME CInv, [Next]_vars
  PROVE  CInv'
<1>1. CASE UNCHANGED vars
  BY <1>1, CameraStays DEF vars
<1>2. CASE \E c \in Conns : Connection(c) \/ ProcessRequest(c)
  BY <1>2, CameraStays, ProcessRequestKeeps DEF Connection
<1>3. CASE \E t \in Threads : CameraReaderRuns(t)
  BY <1>3, RunThreadKeeps DEF CameraReaderRuns
<1>4. CASE ServiceRuns
  <2>1. CASE AskTime \/ RespondToAnswer
    BY <2>1, AnswerTaken DEF AskTime, RespondToAnswer
  <2>2. CASE RespondWithTime
    BY <2>2, CameraStays DEF RespondWithTime
  <2> QED BY <1>4, <2>1, <2>2 DEF ServiceRuns
<1>5. CASE TimeServiceReceives
  BY <1>5, CameraStays DEF TimeServiceReceives
<1> QED BY <1>1, <1>2, <1>3, <1>4, <1>5 DEF Next

LEMMA Invariance == Spec => []CInv
<1>1. Init => CInv
  BY CameraInitKeeps DEF Init
<1>2. CInv /\ [Next]_vars => CInv'
  BY NextKeeps
<1> QED BY <1>1, <1>2, PTL DEF Spec

-----------------------------------------------------------------------------
(* Two threads never read from one camera object at once, and a read is    *)
(* that of the mail that holds the object's strand, however many threads   *)
(* run the camera reader's io_context and whatever resets do meanwhile.    *)
THEOREM TurnsTaken == Spec => []ReadsTakeTurns
BY Invariance, PTL DEF CInv

(* A camera has one object at most, and a configured camera that has none  *)
(* lost it to a reset whose exception ended a thread.                      *)
THEOREM OneObject == Spec => []OneObjectPerCamera
<1>1. CInv => OneObjectPerCamera
  <2>1. SUFFICES ASSUME CInv PROVE OneObjectPerCamera
    OBVIOUS
  <2>2. ASSUME NEW camera \in Cameras
        PROVE  Cardinality(ItemsOf(camera)) <= 1
    <3>1. CASE ItemsOf(camera) = {}
      BY <3>1, FS_EmptySet
    <3>2. CASE ItemsOf(camera) # {}
      <4>1. PICK i \in ItemsOf(camera) : TRUE
        BY <3>2
      <4>2. ItemsOf(camera) = {i}
        BY <2>1, <4>1 DEF ItemsOf, CInv, ItemsDiffer
      <4> QED BY <4>2, FS_Singleton
    <3> QED BY <3>1, <3>2
  <2> QED BY <2>1, <2>2 DEF OneObjectPerCamera, CInv, ItemsConfigured, MissingMeansEnded,
                            HasItem, ItemsOf
<1> QED BY <1>1, Invariance, PTL

(* An image is never of an object that was replaced before it was asked    *)
(* for: who has seen the answer to a reset never gets an image of before.  *)
THEOREM ImagesOfNewest == Spec => []ImagesAreOfNewest
BY Invariance, PTL DEF CInv
-----------------------------------------------------------------------------
(* The mails of connections.  A mail is in the camera reader's queue, on   *)
(* an object's strand, among the answers or with the time service.         *)
AnyAnswer == [mail : CameraMails, ok : BOOLEAN, object : Nat]
MailsOf   == [c \in Conns |-> {m \in CameraMails : m.client = c}]
AnswersOf == [c \in Conns |-> {a \in AnyAnswer : a.mail.client = c}]
Itself    == [c \in Conns |-> {c}]

OnStrand(c, place) ==
  \E o \in Objects : place = <<"strand", o>> /\ Some(strand[o], MailsOf[c])
At(c, place) ==
  \/ place = <<"queue", 0>> /\ Some(cameraQueue, MailsOf[c])
  \/ place = <<"answers", 0>> /\ Some(answers, AnswersOf[c])
  \/ place = <<"time", 0>> /\ Some(timeQueue, Itself[c])
  \/ place = <<"timeAnswers", 0>> /\ Some(timeAnswers, Itself[c])
  \/ OnStrand(c, place)
HasMail(c) == \E place : At(c, place)

SingleOnStrands(c) == \A o \in Objects : Single(strand[o], MailsOf[c])
Singles(c) ==
  /\ Single(cameraQueue, MailsOf[c]) /\ Single(answers, AnswersOf[c])
  /\ Single(timeQueue, Itself[c]) /\ Single(timeAnswers, Itself[c])
  /\ SingleOnStrands(c)

(* Only such a reset ends without an answer.                               *)
Forgotten(c) ==
  /\ request[c].kind = "reset"
  /\ request[c].addr = "text" \/ request[c].camera \notin Configured

(* A connection's mail is in one place, once, and only while it waits; it  *)
(* is somewhere as long as it waits, unless it was forgotten.              *)
OneMail(c) ==
  /\ Singles(c)
  /\ \A p, q : At(c, p) /\ At(c, q) => p = q
  /\ HasMail(c) => stage[c] = "waiting"
  /\ stage[c] = "waiting" => HasMail(c) \/ Forgotten(c)

(* A connection that still waits for something was not responded to.       *)
Unanswered(c) == stage[c] \in {"none", "reading", "waiting", "idle"} => responses[c] = 0

(* A reset in the queue is the one that was requested.                     *)
ResetsAreRequested ==
  \A i \in DOMAIN cameraQueue :
    cameraQueue[i].cmd = "reset" =>
      request[cameraQueue[i].client] = ResetOf(cameraQueue[i].camera, cameraQueue[i].addr)

Types == /\ ConnTypeOK(Requests)
         /\ timeQueue \in Seq(Conns) /\ timeAnswers \in Seq(Conns)
MInv == /\ CInv /\ Types
        /\ Configured \subseteq camera_info_list_
        /\ ResetsAreRequested
        /\ \A c \in Conns : OneMail(c) /\ Unanswered(c)

-----------------------------------------------------------------------------
(* The entries of c in a queue R[c], and of nobody else: the first one     *)
(* leaves, one joins where c has none.                                     *)
LEMMA Leaves ==
  ASSUME NEW S, NEW R, NEW q \in Seq(S), q # <<>>, NEW c \in Conns,
         Head(q) \in R[c], \A d \in Conns \ {c} : Head(q) \notin R[d],
         \A d \in Conns : Single(q, R[d])
  PROVE  /\ Some(q, R[c])
         /\ \A d \in Conns :
              /\ Single(Tail(q), R[d])
              /\ Some(Tail(q), R[d]) <=> Some(q, R[d]) /\ d # c
<1>1. ASSUME NEW d \in Conns
      PROVE  /\ Single(Tail(q), R[d])
             /\ Some(Tail(q), R[d]) <=> Some(q, R[d]) /\ Head(q) \notin R[d]
             /\ Head(q) \in R[d] => Some(q, R[d])
  BY TailEntries
<1> QED BY <1>1

LEMMA Joins ==
  ASSUME NEW S, NEW R, NEW q \in Seq(S), NEW e \in S, NEW c \in Conns,
         e \in R[c], \A d \in Conns \ {c} : e \notin R[d],
         \A d \in Conns : Single(q, R[d]), ~Some(q, R[c])
  PROVE  \A d \in Conns :
           /\ Single(Append(q, e), R[d])
           /\ Some(Append(q, e), R[d]) <=> Some(q, R[d]) \/ d = c
<1>1. ASSUME NEW d \in Conns
      PROVE  /\ Single(Append(q, e), R[d])
             /\ Some(Append(q, e), R[d]) <=> Some(q, R[d]) \/ e \in R[d]
  <2>1. Single(q, R[d]) /\ (e \in R[d] => ~Some(q, R[d]))
    OBVIOUS
  <2> QED BY <2>1, AppendEntries
<1> QED BY <1>1

(* Whose an entry is.                                                      *)
LEMMA Whose ==
  /\ \A m \in CameraMails : /\ m.client \in Conns
                            /\ \A d \in Conns : m \in MailsOf[d] <=> d = m.client
  /\ \A a \in AnyAnswer : /\ a.mail \in CameraMails /\ a.mail.client \in Conns
                          /\ \A d \in Conns : a \in AnswersOf[d] <=> d = a.mail.client
  /\ \A c, d \in Conns : c \in Itself[d] <=> d = c
BY ClientsAssumption DEF MailsOf, AnswersOf, Itself, AnyAnswer, CameraMails

LEMMA Queues ==
  ASSUME MInv
  PROVE  /\ cameraQueue \in Seq(CameraMails) /\ answers \in Seq(AnyAnswer)
         /\ timeQueue \in Seq(Conns) /\ timeAnswers \in Seq(Conns)
         /\ \A o \in Objects : strand[o] \in Seq(CameraMails)
<1>1. Objects \subseteq Nat
  BY Shapes DEF MInv
<1>2. AnswerRecord \subseteq AnyAnswer
  BY <1>1 DEF AnswerRecord, AnyAnswer
<1>3. answers \in Seq(AnswerRecord)
  BY DEF MInv, CInv, CameraTypeOK, AnswerRecord
<1>4. answers \in Seq(AnyAnswer)
  BY <1>2, <1>3, OfMore
<1> QED BY <1>4, Shapes DEF MInv, CInv, CameraTypeOK, Types

(* The mail of c moves, comes or goes, and nothing else does.              *)
LEMMA MailMoves ==
  ASSUME MInv, NEW c \in Conns, stage[c] \in {"reading", "waiting"}, NEW to,
         \A d \in Conns : Singles(d)',
         \A d \in Conns \ {c} :
           /\ \A p : At(d, p)' <=> At(d, p)
           /\ stage'[d] = stage[d] /\ responses'[d] = responses[d]
           /\ request'[d] = request[d],
         \A p : At(c, p)' => p = to,
         HasMail(c)' => stage'[c] = "waiting",
         stage'[c] = "waiting" =>
           (At(c, to)' \/ Forgotten(c)') /\ responses'[c] = responses[c],
         stage'[c] \in {"waiting", "replying"}
  PROVE  \A d \in Conns : OneMail(d)' /\ Unanswered(d)'
<1>1. \A d \in Conns : OneMail(d) /\ Unanswered(d)
  BY DEF MInv
<1>2. ASSUME NEW d \in Conns, d # c PROVE OneMail(d)' /\ Unanswered(d)'
  BY <1>1, <1>2 DEF OneMail, HasMail, Unanswered, Forgotten
<1>3. OneMail(c)'
  BY DEF OneMail, HasMail, Forgotten
<1>4. Unanswered(c)'
  BY <1>1 DEF Unanswered
<1> QED BY <1>2, <1>3, <1>4
-----------------------------------------------------------------------------
(* The places it moves between.  The first mail of the queue, ...          *)
LEMMA HeadOfQueue ==
  ASSUME MInv, cameraQueue # <<>>, NEW c, c = Head(cameraQueue).client
  PROVE  /\ c \in Conns /\ stage[c] = "waiting"
         /\ \A p : At(c, p) <=> p = <<"queue", 0>>
         /\ \A d \in Conns :
              /\ Single(Tail(cameraQueue), MailsOf[d])
              /\ Some(Tail(cameraQueue), MailsOf[d])
                   <=> Some(cameraQueue, MailsOf[d]) /\ d # c
<1>1. cameraQueue \in Seq(CameraMails) /\ \A d \in Conns : OneMail(d) /\ Singles(d)
  BY Queues DEF MInv, OneMail
<1>2. Head(cameraQueue) \in CameraMails
  BY <1>1, Taken
<1>3. /\ c \in Conns
      /\ Head(cameraQueue) \in MailsOf[c]
      /\ \A d \in Conns \ {c} : Head(cameraQueue) \notin MailsOf[d]
  BY <1>2, Whose
<1>4. \A d \in Conns : Single(cameraQueue, MailsOf[d])
  BY <1>1 DEF Singles
<1>5. /\ Some(cameraQueue, MailsOf[c])
      /\ \A d \in Conns :
           /\ Single(Tail(cameraQueue), MailsOf[d])
           /\ Some(Tail(cameraQueue), MailsOf[d])
                <=> Some(cameraQueue, MailsOf[d]) /\ d # c
  BY <1>1, <1>3, <1>4, Leaves
<1>6. At(c, <<"queue", 0>>)
  BY <1>5 DEF At
<1> QED BY <1>1, <1>3, <1>5, <1>6 DEF OneMail, HasMail

(* ... of a strand, ...                                                    *)
LEMMA HeadOfStrand ==
  ASSUME MInv, NEW o \in Objects, strand[o] # <<>>, NEW c, c = Head(strand[o]).client
  PROVE  /\ c \in Conns /\ stage[c] = "waiting" /\ Head(strand[o]) \in CameraMails
         /\ \A p : At(c, p) <=> p = <<"strand", o>>
         /\ \A d \in Conns :
              /\ Single(Tail(strand[o]), MailsOf[d])
              /\ Some(Tail(strand[o]), MailsOf[d]) <=> Some(strand[o], MailsOf[d]) /\ d # c
<1>1. strand[o] \in Seq(CameraMails) /\ \A d \in Conns : OneMail(d) /\ Singles(d)
  BY Queues DEF MInv, OneMail
<1>2. Head(strand[o]) \in CameraMails
  BY <1>1, Taken
<1>3. /\ c \in Conns
      /\ Head(strand[o]) \in MailsOf[c]
      /\ \A d \in Conns \ {c} : Head(strand[o]) \notin MailsOf[d]
  BY <1>2, Whose
<1>4. \A d \in Conns : Single(strand[o], MailsOf[d])
  BY <1>1 DEF Singles, SingleOnStrands
<1>5. /\ Some(strand[o], MailsOf[c])
      /\ \A d \in Conns :
           /\ Single(Tail(strand[o]), MailsOf[d])
           /\ Some(Tail(strand[o]), MailsOf[d]) <=> Some(strand[o], MailsOf[d]) /\ d # c
  BY <1>1, <1>3, <1>4, Leaves
<1>6. At(c, <<"strand", o>>)
  BY <1>5 DEF At, OnStrand
<1> QED BY <1>1, <1>2, <1>3, <1>5, <1>6 DEF OneMail, HasMail

(* ... of the answers, ...                                                 *)
LEMMA HeadOfAnswers ==
  ASSUME MInv, answers # <<>>, NEW c, c = Head(answers).mail.client
  PROVE  /\ c \in Conns /\ stage[c] = "waiting"
         /\ \A p : At(c, p) <=> p = <<"answers", 0>>
         /\ \A d \in Conns :
              /\ Single(Tail(answers), AnswersOf[d])
              /\ Some(Tail(answers), AnswersOf[d]) <=> Some(answers, AnswersOf[d]) /\ d # c
<1>1. answers \in Seq(AnyAnswer) /\ \A d \in Conns : OneMail(d) /\ Singles(d)
  BY Queues DEF MInv, OneMail
<1>2. Head(answers) \in AnyAnswer
  BY <1>1, Taken
<1>3. /\ c \in Conns
      /\ Head(answers) \in AnswersOf[c]
      /\ \A d \in Conns \ {c} : Head(answers) \notin AnswersOf[d]
  BY <1>2, Whose
<1>4. \A d \in Conns : Single(answers, AnswersOf[d])
  BY <1>1 DEF Singles
<1>5. /\ Some(answers, AnswersOf[c])
      /\ \A d \in Conns :
           /\ Single(Tail(answers), AnswersOf[d])
           /\ Some(Tail(answers), AnswersOf[d]) <=> Some(answers, AnswersOf[d]) /\ d # c
  BY <1>1, <1>3, <1>4, Leaves
<1>6. At(c, <<"answers", 0>>)
  BY <1>5 DEF At
<1> QED BY <1>1, <1>3, <1>5, <1>6 DEF OneMail, HasMail

(* ... of those sent to the time service, or back.                         *)
LEMMA HeadOfTime ==
  ASSUME NEW q \in Seq(Conns), q # <<>>, NEW c, c = Head(q),
         \A d \in Conns : Single(q, Itself[d])
  PROVE  /\ c \in Conns /\ Tail(q) \in Seq(Conns) /\ Some(q, Itself[c])
         /\ \A d \in Conns :
              /\ Single(Tail(q), Itself[d])
              /\ Some(Tail(q), Itself[d]) <=> Some(q, Itself[d]) /\ d # c
<1>1. c \in Conns /\ Tail(q) \in Seq(Conns)
  BY Taken
<1>2. c \in Itself[c] /\ \A d \in Conns \ {c} : c \notin Itself[d]
  BY <1>1, Whose
<1> QED BY <1>1, <1>2, Leaves

(* A mail that is in one place is in no other.                             *)
LEMMA Elsewhere ==
  ASSUME NEW c, NEW place, \A p : At(c, p) <=> p = place
  PROVE  /\ place # <<"queue", 0>> => ~Some(cameraQueue, MailsOf[c])
         /\ place # <<"answers", 0>> => ~Some(answers, AnswersOf[c])
         /\ place # <<"time", 0>> => ~Some(timeQueue, Itself[c])
         /\ place # <<"timeAnswers", 0>> => ~Some(timeAnswers, Itself[c])
         /\ \A p : OnStrand(c, p) => p = place
         /\ place[1] # "strand" => \A p : ~OnStrand(c, p)
<1>1. /\ Some(cameraQueue, MailsOf[c]) => At(c, <<"queue", 0>>)
      /\ Some(answers, AnswersOf[c]) => At(c, <<"answers", 0>>)
      /\ Some(timeQueue, Itself[c]) => At(c, <<"time", 0>>)
      /\ Some(timeAnswers, Itself[c]) => At(c, <<"timeAnswers", 0>>)
      /\ \A p : OnStrand(c, p) => At(c, p) /\ p[1] = "strand"
  BY DEF At, OnStrand
<1> QED BY <1>1

(* The end of the queue, of a strand, of the answers and of those to or    *)
(* from the time service, where c has none.                                *)
LEMMA PutInQueue ==
  ASSUME MInv, NEW mail \in CameraMails, NEW c, c = mail.client,
         ~Some(cameraQueue, MailsOf[c])
  PROVE  \A d \in Conns :
           /\ Single(Append(cameraQueue, mail), MailsOf[d])
           /\ Some(Append(cameraQueue, mail), MailsOf[d])
                <=> Some(cameraQueue, MailsOf[d]) \/ d = c
<1>1. cameraQueue \in Seq(CameraMails) /\ \A d \in Conns : Single(cameraQueue, MailsOf[d])
  BY Queues DEF MInv, OneMail, Singles
<1>2. c \in Conns /\ mail \in MailsOf[c] /\ \A d \in Conns \ {c} : mail \notin MailsOf[d]
  BY Whose
<1> QED BY <1>1, <1>2, Joins

LEMMA PutOnStrand ==
  ASSUME MInv, NEW mail \in CameraMails, NEW c, c = mail.client,
         NEW o \in Objects, ~Some(strand[o], MailsOf[c])
  PROVE  \A d \in Conns :
           /\ Single(Append(strand[o], mail), MailsOf[d])
           /\ Some(Append(strand[o], mail), MailsOf[d])
                <=> Some(strand[o], MailsOf[d]) \/ d = c
<1>1. strand[o] \in Seq(CameraMails) /\ \A d \in Conns : Single(strand[o], MailsOf[d])
  BY Queues DEF MInv, OneMail, Singles, SingleOnStrands
<1>2. c \in Conns /\ mail \in MailsOf[c] /\ \A d \in Conns \ {c} : mail \notin MailsOf[d]
  BY Whose
<1> QED BY <1>1, <1>2, Joins

LEMMA PutInAnswers ==
  ASSUME MInv, NEW mail \in CameraMails, NEW c, c = mail.client,
         NEW ok \in BOOLEAN, NEW object \in Nat, ~Some(answers, AnswersOf[c])
  PROVE  \A d \in Conns :
           /\ Single(Append(answers, Answer(mail, ok, object)), AnswersOf[d])
           /\ Some(Append(answers, Answer(mail, ok, object)), AnswersOf[d])
                <=> Some(answers, AnswersOf[d]) \/ d = c
<1> DEFINE a == Answer(mail, ok, object)
<1>1. answers \in Seq(AnyAnswer) /\ \A d \in Conns : Single(answers, AnswersOf[d])
  BY Queues DEF MInv, OneMail, Singles
<1>2. a \in AnyAnswer /\ a.mail = mail
  BY DEF Answer, AnyAnswer
<1> HIDE DEF a
<1>3. c \in Conns /\ a \in AnswersOf[c] /\ \A d \in Conns \ {c} : a \notin AnswersOf[d]
  BY <1>2, Whose
<1>4. \A d \in Conns :
        /\ Single(Append(answers, a), AnswersOf[d])
        /\ Some(Append(answers, a), AnswersOf[d]) <=> Some(answers, AnswersOf[d]) \/ d = c
  BY <1>1, <1>2, <1>3, Joins
<1> QED BY <1>4 DEF a

LEMMA PutInTime ==
  ASSUME MInv, NEW c \in Conns, NEW q, q = timeQueue \/ q = timeAnswers, ~Some(q, Itself[c])
  PROVE  /\ Append(q, c) \in Seq(Conns)
         /\ \A d \in Conns :
              /\ Single(Append(q, c), Itself[d])
              /\ Some(Append(q, c), Itself[d]) <=> Some(q, Itself[d]) \/ d = c
<1>1. q \in Seq(Conns) /\ \A d \in Conns : Single(q, Itself[d])
  BY Queues DEF MInv, OneMail, Singles
<1>2. c \in Itself[c] /\ \A d \in Conns \ {c} : c \notin Itself[d]
  BY Whose
<1>3. Append(q, c) \in Seq(Conns)
  BY <1>1
<1> QED BY <1>1, <1>2, <1>3, Joins
-----------------------------------------------------------------------------
(* The moves.  No strand changes, but there may be a new object.           *)
StrandsStay ==
  /\ Objects \subseteq Objects'
  /\ \A o \in Objects : strand'[o] = strand[o]
  /\ \A o \in Objects' \ Objects : strand'[o] = <<>>

LEMMA StrandsKept ==
  ASSUME MInv, StrandsStay
  PROVE  \A d \in Conns :
           /\ \A p : OnStrand(d, p)' <=> OnStrand(d, p)
           /\ SingleOnStrands(d)'
<1>1. \A d \in Conns : SingleOnStrands(d)
  BY DEF MInv, OneMail, Singles
<1>2. \A R : ~Some(<<>>, R) /\ Single(<<>>, R)
  BY DEF Some, Single
<1>3. ASSUME NEW d \in Conns PROVE SingleOnStrands(d)'
  <2>1. SUFFICES ASSUME NEW o \in Objects' PROVE Single(strand'[o], MailsOf[d])
    BY DEF SingleOnStrands
  <2> QED BY <1>1, <1>2 DEF StrandsStay, SingleOnStrands
<1>4. ASSUME NEW d \in Conns, NEW p PROVE OnStrand(d, p)' <=> OnStrand(d, p)
  BY <1>2 DEF OnStrand, StrandsStay
<1> QED BY <1>3, <1>4

LEMMA StrandsGrow ==
  ASSUME CInv, NEW camera \in Cameras, NEW list \in Seq(ItemRecord),
         NEW was \in Seq(BOOLEAN), Len(was) = Len(opened), NewItem(camera, list, was)
  PROVE  StrandsStay
<1>1. /\ Objects' = 1..(Len(opened) + 1)
      /\ \A o \in Objects : strand'[o] = strand[o]
      /\ strand'[Len(opened) + 1] = <<>>
  BY ItemMade
<1>2. Len(opened) \in Nat /\ Objects = 1..Len(opened)
  BY Shapes
<1> QED BY <1>1, <1>2 DEF StrandsStay

(* From the queue to a strand.                                             *)
LEMMA QueueToStrand ==
  ASSUME MInv, cameraQueue # <<>>, NEW o \in Objects,
         cameraQueue' = Tail(cameraQueue),
         strand' = [strand EXCEPT ![o] = Append(@, Head(cameraQueue))],
         UNCHANGED <<opened, answers, timeVars, connVars>>
  PROVE  \A d \in Conns : OneMail(d)' /\ Unanswered(d)'
<1>1. PICK c : c = Head(cameraQueue).client
  OBVIOUS
<1>2. /\ c \in Conns /\ stage[c] = "waiting"
      /\ \A p : At(c, p) <=> p = <<"queue", 0>>
      /\ \A d \in Conns :
           /\ Single(cameraQueue', MailsOf[d])
           /\ Some(cameraQueue', MailsOf[d]) <=> Some(cameraQueue, MailsOf[d]) /\ d # c
  BY <1>1, HeadOfQueue
<1>3. Head(cameraQueue) \in CameraMails
  BY Queues, Taken
<1>4. ~Some(strand[o], MailsOf[c])
  <2>1. ~At(c, <<"strand", o>>)
    BY <1>2
  <2> QED BY <2>1 DEF At, OnStrand
<1>5. \A d \in Conns :
        /\ Single(Append(strand[o], Head(cameraQueue)), MailsOf[d])
        /\ Some(Append(strand[o], Head(cameraQueue)), MailsOf[d])
             <=> Some(strand[o], MailsOf[d]) \/ d = c
  BY <1>1, <1>3, <1>4, PutOnStrand
<1>6. /\ strand'[o] = Append(strand[o], Head(cameraQueue))
      /\ \A q \in Objects \ {o} : strand'[q] = strand[q]
      /\ Objects' = Objects
  BY Shapes DEF MInv, CInv, Objects
<1>7. UNCHANGED <<timeQueue, timeAnswers, stage, responses, request>>
  BY DEF timeVars, connVars
<1>8. \A d \in Conns : Singles(d)'
  BY <1>2, <1>5, <1>6, <1>7 DEF MInv, OneMail, Singles, SingleOnStrands
<1>9. ASSUME NEW d \in Conns \ {c}, NEW p PROVE At(d, p)' <=> At(d, p)
  BY <1>2, <1>5, <1>6, <1>7 DEF At, OnStrand
<1>10. At(c, <<"strand", o>>)' /\ \A p : At(c, p)' => p = <<"strand", o>>
  BY <1>2, <1>5, <1>6, <1>7 DEF At, OnStrand
<1> QED BY <1>2, <1>7, <1>8, <1>9, <1>10, MailMoves
(* From the queue to the answers.                                          *)
LEMMA QueueToAnswers ==
  ASSUME MInv, cameraQueue # <<>>, NEW ok \in BOOLEAN, NEW object \in Nat,
         cameraQueue' = Tail(cameraQueue),
         PostAnswer(Head(cameraQueue), ok, object), StrandsStay,
         UNCHANGED <<timeVars, connVars>>
  PROVE  \A d \in Conns : OneMail(d)' /\ Unanswered(d)'
<1>1. PICK c : c = Head(cameraQueue).client
  OBVIOUS
<1>2. /\ c \in Conns /\ stage[c] = "waiting"
      /\ \A p : At(c, p) <=> p = <<"queue", 0>>
      /\ \A d \in Conns :
           /\ Single(cameraQueue', MailsOf[d])
           /\ Some(cameraQueue', MailsOf[d]) <=> Some(cameraQueue, MailsOf[d]) /\ d # c
  BY <1>1, HeadOfQueue
<1>3. Head(cameraQueue) \in CameraMails
  BY Queues, Taken
<1>4. ~Some(answers, AnswersOf[c])
  <2>1. ~At(c, <<"answers", 0>>)
    BY <1>2
  <2> QED BY <2>1 DEF At
<1>5. \A d \in Conns :
        /\ Single(answers', AnswersOf[d])
        /\ Some(answers', AnswersOf[d]) <=> Some(answers, AnswersOf[d]) \/ d = c
  BY <1>1, <1>3, <1>4, PutInAnswers DEF PostAnswer
<1>6. \A d \in Conns : (\A p : OnStrand(d, p)' <=> OnStrand(d, p)) /\ SingleOnStrands(d)'
  BY StrandsKept
<1>7. UNCHANGED <<timeQueue, timeAnswers, stage, responses, request>>
  BY DEF timeVars, connVars
<1>8. \A d \in Conns : Singles(d)'
  BY <1>2, <1>5, <1>6, <1>7 DEF MInv, OneMail, Singles
<1>9. ASSUME NEW d \in Conns \ {c}, NEW p PROVE At(d, p)' <=> At(d, p)
  BY <1>2, <1>5, <1>6, <1>7 DEF At
<1>10. At(c, <<"answers", 0>>)' /\ \A p : At(c, p)' => p = <<"answers", 0>>
  <2>1. /\ ~Some(timeQueue, Itself[c]) /\ ~Some(timeAnswers, Itself[c])
        /\ \A p : ~OnStrand(c, p)
    BY <1>2, Elsewhere
  <2> QED BY <1>2, <1>5, <1>6, <1>7, <2>1 DEF At
<1> QED BY <1>2, <1>7, <1>8, <1>9, <1>10, MailMoves

(* From the queue to nowhere.                                              *)
LEMMA QueueToNowhere ==
  ASSUME MInv, cameraQueue # <<>>, cameraQueue' = Tail(cameraQueue),
         Forgotten(Head(cameraQueue).client), StrandsStay,
         UNCHANGED <<answers, timeVars, connVars>>
  PROVE  \A d \in Conns : OneMail(d)' /\ Unanswered(d)'
<1>1. PICK c : c = Head(cameraQueue).client
  OBVIOUS
<1>2. /\ c \in Conns /\ stage[c] = "waiting"
      /\ \A p : At(c, p) <=> p = <<"queue", 0>>
      /\ \A d \in Conns :
           /\ Single(cameraQueue', MailsOf[d])
           /\ Some(cameraQueue', MailsOf[d]) <=> Some(cameraQueue, MailsOf[d]) /\ d # c
  BY <1>1, HeadOfQueue
<1>3. \A d \in Conns : (\A p : OnStrand(d, p)' <=> OnStrand(d, p)) /\ SingleOnStrands(d)'
  BY StrandsKept
<1>4. UNCHANGED <<timeQueue, timeAnswers, stage, responses, request>>
  BY DEF timeVars, connVars
<1>5. \A d \in Conns : Singles(d)'
  BY <1>2, <1>3, <1>4 DEF MInv, OneMail, Singles
<1>6. ASSUME NEW d \in Conns \ {c}, NEW p PROVE At(d, p)' <=> At(d, p)
  BY <1>2, <1>3, <1>4 DEF At
<1>7. \A p : ~At(c, p)'
  <2>1. /\ ~Some(answers, AnswersOf[c]) /\ ~Some(timeQueue, Itself[c])
        /\ ~Some(timeAnswers, Itself[c]) /\ \A p : ~OnStrand(c, p)
    BY <1>2, Elsewhere
  <2> QED BY <1>2, <1>3, <1>4, <2>1 DEF At
<1>8. Forgotten(c)'
  BY <1>1, <1>4 DEF Forgotten
<1> QED BY <1>2, <1>4, <1>5, <1>6, <1>7, <1>8, MailMoves DEF HasMail

(* From a strand to the answers.                                           *)
LEMMA StrandToAnswers ==
  ASSUME MInv, NEW o \in Objects, strand[o] # <<>>, NEW ok \in BOOLEAN,
         strand' = [strand EXCEPT ![o] = Tail(@)],
         PostAnswer(Head(strand[o]), ok, o),
         UNCHANGED <<opened, cameraQueue, timeVars, connVars>>
  PROVE  \A d \in Conns : OneMail(d)' /\ Unanswered(d)'
<1>1. PICK c : c = Head(strand[o]).client
  OBVIOUS
<1>2. /\ c \in Conns /\ stage[c] = "waiting" /\ Head(strand[o]) \in CameraMails
      /\ \A p : At(c, p) <=> p = <<"strand", o>>
      /\ \A d \in Conns :
           /\ Single(Tail(strand[o]), MailsOf[d])
           /\ Some(Tail(strand[o]), MailsOf[d]) <=> Some(strand[o], MailsOf[d]) /\ d # c
  BY <1>1, HeadOfStrand
<1>3. o \in Nat
  BY Shapes DEF MInv
<1>4. ~Some(answers, AnswersOf[c])
  <2>1. ~At(c, <<"answers", 0>>)
    BY <1>2
  <2> QED BY <2>1 DEF At
<1>5. \A d \in Conns :
        /\ Single(answers', AnswersOf[d])
        /\ Some(answers', AnswersOf[d]) <=> Some(answers, AnswersOf[d]) \/ d = c
  BY <1>1, <1>2, <1>3, <1>4, PutInAnswers DEF PostAnswer
<1>6. /\ strand'[o] = Tail(strand[o])
      /\ \A q \in Objects \ {o} : strand'[q] = strand[q]
      /\ Objects' = Objects
  BY Shapes DEF MInv, CInv, Objects
<1>7. UNCHANGED <<timeQueue, timeAnswers, stage, responses, request>>
  BY DEF timeVars, connVars
<1>8. \A d \in Conns : Singles(d)'
  BY <1>2, <1>5, <1>6, <1>7 DEF MInv, OneMail, Singles, SingleOnStrands
<1>9. ASSUME NEW d \in Conns \ {c}, NEW p PROVE At(d, p)' <=> At(d, p)
  BY <1>2, <1>5, <1>6, <1>7 DEF At, OnStrand
<1>10. At(c, <<"answers", 0>>)' /\ \A p : At(c, p)' => p = <<"answers", 0>>
  <2>1. /\ ~Some(cameraQueue, MailsOf[c]) /\ ~Some(timeQueue, Itself[c])
        /\ ~Some(timeAnswers, Itself[c])
        /\ \A p : OnStrand(c, p) => p = <<"strand", o>>
    BY <1>2, Elsewhere
  <2>2. \A q \in Objects : Some(strand[q], MailsOf[c]) => q = o
    <3>1. \A q \in Objects : Some(strand[q], MailsOf[c]) => OnStrand(c, <<"strand", q>>)
      BY DEF OnStrand
    <3> QED BY <2>1, <3>1
  <2>3. \A p : ~OnStrand(c, p)'
    BY <1>2, <1>6, <2>2 DEF OnStrand
  <2> QED BY <1>2, <1>5, <1>7, <2>1, <2>3 DEF At
<1> QED BY <1>2, <1>7, <1>8, <1>9, <1>10, MailMoves

(* From the answers to the time service.                                   *)
LEMMA AnswersToTime ==
  ASSUME MInv, answers # <<>>, answers' = Tail(answers),
         timeQueue' = Append(timeQueue, Head(answers).mail.client),
         UNCHANGED <<opened, strand, cameraQueue, timeAnswers, connVars>>
  PROVE  timeQueue' \in Seq(Conns) /\ \A d \in Conns : OneMail(d)' /\ Unanswered(d)'
<1>1. PICK c : c = Head(answers).mail.client
  OBVIOUS
<1>2. /\ c \in Conns /\ stage[c] = "waiting"
      /\ \A p : At(c, p) <=> p = <<"answers", 0>>
      /\ \A d \in Conns :
           /\ Single(answers', AnswersOf[d])
           /\ Some(answers', AnswersOf[d]) <=> Some(answers, AnswersOf[d]) /\ d # c
  BY <1>1, HeadOfAnswers
<1>3. ~Some(timeQueue, Itself[c])
  <2>1. ~At(c, <<"time", 0>>)
    BY <1>2
  <2> QED BY <2>1 DEF At
<1>4. /\ timeQueue' \in Seq(Conns)
      /\ \A d \in Conns :
           /\ Single(timeQueue', Itself[d])
           /\ Some(timeQueue', Itself[d]) <=> Some(timeQueue, Itself[d]) \/ d = c
  BY <1>1, <1>2, <1>3, PutInTime
<1>5. UNCHANGED <<stage, responses, request>> /\ StrandsStay
  BY DEF connVars, StrandsStay, Objects
<1>6. \A d \in Conns : (\A p : OnStrand(d, p)' <=> OnStrand(d, p)) /\ SingleOnStrands(d)'
  BY <1>5, StrandsKept
<1>7. \A d \in Conns : Singles(d)'
  BY <1>2, <1>4, <1>6 DEF MInv, OneMail, Singles
<1>8. ASSUME NEW d \in Conns \ {c}, NEW p PROVE At(d, p)' <=> At(d, p)
  BY <1>2, <1>4, <1>6 DEF At
<1>9. At(c, <<"time", 0>>)' /\ \A p : At(c, p)' => p = <<"time", 0>>
  <2>1. /\ ~Some(cameraQueue, MailsOf[c]) /\ ~Some(timeAnswers, Itself[c])
        /\ \A p : ~OnStrand(c, p)
    BY <1>2, Elsewhere
  <2> QED BY <1>2, <1>4, <1>6, <2>1 DEF At
<1>10. \A d \in Conns : OneMail(d)' /\ Unanswered(d)'
  BY <1>2, <1>5, <1>7, <1>8, <1>9, MailMoves
<1> QED BY <1>4, <1>10

(* To the time service and back.                                           *)
LEMMA TimeToAnswers ==
  ASSUME MInv, timeQueue # <<>>, timeQueue' = Tail(timeQueue),
         timeAnswers' = Append(timeAnswers, Head(timeQueue)),
         UNCHANGED <<opened, strand, cameraQueue, answers, connVars>>
  PROVE  /\ timeQueue' \in Seq(Conns) /\ timeAnswers' \in Seq(Conns)
         /\ \A d \in Conns : OneMail(d)' /\ Unanswered(d)'
<1>1. PICK c : c = Head(timeQueue)
  OBVIOUS
<1>2. /\ c \in Conns /\ stage[c] = "waiting" /\ timeQueue' \in Seq(Conns)
      /\ \A p : At(c, p) <=> p = <<"time", 0>>
      /\ \A d \in Conns :
           /\ Single(timeQueue', Itself[d])
           /\ Some(timeQueue', Itself[d]) <=> Some(timeQueue, Itself[d]) /\ d # c
  <2>1. timeQueue \in Seq(Conns) /\ \A d \in Conns : OneMail(d) /\ Single(timeQueue, Itself[d])
    BY Queues DEF MInv, OneMail, Singles
  <2>2. /\ c \in Conns /\ timeQueue' \in Seq(Conns) /\ Some(timeQueue, Itself[c])
        /\ \A d \in Conns :
             /\ Single(timeQueue', Itself[d])
             /\ Some(timeQueue', Itself[d]) <=> Some(timeQueue, Itself[d]) /\ d # c
    BY <1>1, <2>1, HeadOfTime
  <2>3. At(c, <<"time", 0>>)
    BY <2>2 DEF At
  <2> QED BY <2>1, <2>2, <2>3 DEF OneMail, HasMail
<1>3. ~Some(timeAnswers, Itself[c])
  <2>1. ~At(c, <<"timeAnswers", 0>>)
    BY <1>2
  <2> QED BY <2>1 DEF At
<1>4. /\ timeAnswers' \in Seq(Conns)
      /\ \A d \in Conns :
           /\ Single(timeAnswers', Itself[d])
           /\ Some(timeAnswers', Itself[d]) <=> Some(timeAnswers, Itself[d]) \/ d = c
  BY <1>1, <1>2, <1>3, PutInTime
<1>5. UNCHANGED <<stage, responses, request>> /\ StrandsStay
  BY DEF connVars, StrandsStay, Objects
<1>6. \A d \in Conns : (\A p : OnStrand(d, p)' <=> OnStrand(d, p)) /\ SingleOnStrands(d)'
  BY <1>5, StrandsKept
<1>7. \A d \in Conns : Singles(d)'
  BY <1>2, <1>4, <1>6 DEF MInv, OneMail, Singles
<1>8. ASSUME NEW d \in Conns \ {c}, NEW p PROVE At(d, p)' <=> At(d, p)
  BY <1>2, <1>4, <1>6 DEF At
<1>9. At(c, <<"timeAnswers", 0>>)' /\ \A p : At(c, p)' => p = <<"timeAnswers", 0>>
  <2>1. /\ ~Some(cameraQueue, MailsOf[c]) /\ ~Some(answers, AnswersOf[c])
        /\ \A p : ~OnStrand(c, p)
    BY <1>2, Elsewhere
  <2> QED BY <1>2, <1>4, <1>6, <2>1 DEF At
<1>10. \A d \in Conns : OneMail(d)' /\ Unanswered(d)'
  BY <1>2, <1>5, <1>7, <1>8, <1>9, MailMoves
<1> QED BY <1>2, <1>4, <1>10

(* The response.                                                           *)
LEMMA Responded ==
  ASSUME MInv, NEW c \in Conns, stage[c] = "waiting", Respond(c)
  PROVE  /\ ConnTypeOK(Requests)'
         /\ stage'[c] = "replying" /\ request' = request
         /\ \A d \in Conns \ {c} : stage'[d] = stage[d] /\ responses'[d] = responses[d]
<1>1. responses[c] = 0 /\ ConnTypeOK(Requests)
  BY DEF MInv, Types, Unanswered
<1> QED BY <1>1 DEF Respond, Become, ConnTypeOK, Stages

LEMMA AnswersToResponse ==
  ASSUME MInv, answers # <<>>, answers' = Tail(answers),
         Respond(Head(answers).mail.client),
         UNCHANGED <<opened, strand, cameraQueue, timeVars>>
  PROVE  ConnTypeOK(Requests)' /\ \A d \in Conns : OneMail(d)' /\ Unanswered(d)'
<1>1. PICK c : c = Head(answers).mail.client
  OBVIOUS
<1>2. /\ c \in Conns /\ stage[c] = "waiting"
      /\ \A p : At(c, p) <=> p = <<"answers", 0>>
      /\ \A d \in Conns :
           /\ Single(answers', AnswersOf[d])
           /\ Some(answers', AnswersOf[d]) <=> Some(answers, AnswersOf[d]) /\ d # c
  BY <1>1, HeadOfAnswers
<1>3. /\ ConnTypeOK(Requests)'
      /\ stage'[c] = "replying" /\ request' = request
      /\ \A d \in Conns \ {c} : stage'[d] = stage[d] /\ responses'[d] = responses[d]
  BY <1>1, <1>2, Responded
<1>4. UNCHANGED <<timeQueue, timeAnswers>> /\ StrandsStay
  BY DEF timeVars, StrandsStay, Objects
<1>5. \A d \in Conns : (\A p : OnStrand(d, p)' <=> OnStrand(d, p)) /\ SingleOnStrands(d)'
  BY <1>4, StrandsKept
<1>6. \A d \in Conns : Singles(d)'
  BY <1>2, <1>4, <1>5 DEF MInv, OneMail, Singles
<1>7. ASSUME NEW d \in Conns \ {c}, NEW p PROVE At(d, p)' <=> At(d, p)
  BY <1>2, <1>4, <1>5 DEF At
<1>8. \A p : ~At(c, p)'
  <2>1. /\ ~Some(cameraQueue, MailsOf[c]) /\ ~Some(timeQueue, Itself[c])
        /\ ~Some(timeAnswers, Itself[c]) /\ \A p : ~OnStrand(c, p)
    BY <1>2, Elsewhere
  <2> QED BY <1>2, <1>4, <1>5, <2>1 DEF At
<1>9. \A d \in Conns : OneMail(d)' /\ Unanswered(d)'
  BY <1>2, <1>3, <1>6, <1>7, <1>8, MailMoves DEF HasMail
<1> QED BY <1>3, <1>9

LEMMA TimeToResponse ==
  ASSUME MInv, timeAnswers # <<>>, timeAnswers' = Tail(timeAnswers),
         Respond(Head(timeAnswers)),
         UNCHANGED <<opened, strand, cameraQueue, answers, timeQueue>>
  PROVE  /\ ConnTypeOK(Requests)' /\ timeAnswers' \in Seq(Conns)
         /\ \A d \in Conns : OneMail(d)' /\ Unanswered(d)'
<1>1. PICK c : c = Head(timeAnswers)
  OBVIOUS
<1>2. /\ c \in Conns /\ stage[c] = "waiting" /\ timeAnswers' \in Seq(Conns)
      /\ \A p : At(c, p) <=> p = <<"timeAnswers", 0>>
      /\ \A d \in Conns :
           /\ Single(timeAnswers', Itself[d])
           /\ Some(timeAnswers', Itself[d]) <=> Some(timeAnswers, Itself[d]) /\ d # c
  <2>1. /\ timeAnswers \in Seq(Conns)
        /\ \A d \in Conns : OneMail(d) /\ Single(timeAnswers, Itself[d])
    BY Queues DEF MInv, OneMail, Singles
  <2>2. /\ c \in Conns /\ timeAnswers' \in Seq(Conns) /\ Some(timeAnswers, Itself[c])
        /\ \A d \in Conns :
             /\ Single(timeAnswers', Itself[d])
             /\ Some(timeAnswers', Itself[d]) <=> Some(timeAnswers, Itself[d]) /\ d # c
    BY <1>1, <2>1, HeadOfTime
  <2>3. At(c, <<"timeAnswers", 0>>)
    BY <2>2 DEF At
  <2> QED BY <2>1, <2>2, <2>3 DEF OneMail, HasMail
<1>3. /\ ConnTypeOK(Requests)'
      /\ stage'[c] = "replying" /\ request' = request
      /\ \A d \in Conns \ {c} : stage'[d] = stage[d] /\ responses'[d] = responses[d]
  BY <1>1, <1>2, Responded
<1>4. StrandsStay
  BY DEF StrandsStay, Objects
<1>5. \A d \in Conns : (\A p : OnStrand(d, p)' <=> OnStrand(d, p)) /\ SingleOnStrands(d)'
  BY <1>4, StrandsKept
<1>6. \A d \in Conns : Singles(d)'
  BY <1>2, <1>5 DEF MInv, OneMail, Singles
<1>7. ASSUME NEW d \in Conns \ {c}, NEW p PROVE At(d, p)' <=> At(d, p)
  BY <1>2, <1>5 DEF At
<1>8. \A p : ~At(c, p)'
  <2>1. /\ ~Some(cameraQueue, MailsOf[c]) /\ ~Some(answers, AnswersOf[c])
        /\ ~Some(timeQueue, Itself[c]) /\ \A p : ~OnStrand(c, p)
    BY <1>2, Elsewhere
  <2> QED BY <1>2, <1>5, <2>1 DEF At
<1>9. \A d \in Conns : OneMail(d)' /\ Unanswered(d)'
  BY <1>2, <1>3, <1>6, <1>7, <1>8, MailMoves DEF HasMail
<1> QED BY <1>2, <1>3, <1>9
(* A request is handled, and has no mail yet.                              *)
LEMMA RequestRead ==
  ASSUME MInv, NEW c \in Conns, NEW r \in Requests, NEW then \in {"waiting", "replying"},
         ReadRequest(c, r, then)
  PROVE  /\ ConnTypeOK(Requests)'
         /\ stage[c] = "reading" /\ stage'[c] = then
         /\ request' = [request EXCEPT ![c] = r]
         /\ then = "waiting" => responses'[c] = responses[c]
         /\ \A d \in Conns \ {c} : /\ stage'[d] = stage[d] /\ responses'[d] = responses[d]
                                   /\ request'[d] = request[d]
         /\ ~Some(cameraQueue, MailsOf[c]) /\ ~Some(answers, AnswersOf[c])
         /\ ~Some(timeQueue, Itself[c]) /\ ~Some(timeAnswers, Itself[c])
         /\ \A p : ~OnStrand(c, p)
<1>1. stage[c] = "reading" /\ ConnTypeOK(Requests) /\ responses[c] = 0
  BY DEF MInv, Types, Unanswered, ReadRequest
<1>2. ConnTypeOK(Requests)'
  BY <1>1 DEF ReadRequest, Become, ConnTypeOK, Stages
<1>3. /\ stage'[c] = then
      /\ then = "waiting" => responses'[c] = responses[c]
      /\ request' = [request EXCEPT ![c] = r]
      /\ \A d \in Conns \ {c} : /\ stage'[d] = stage[d] /\ responses'[d] = responses[d]
                                /\ request'[d] = request[d]
  BY <1>1 DEF ReadRequest, Become, ConnTypeOK
<1>4. \A p : ~At(c, p)
  BY <1>1 DEF MInv, OneMail, HasMail
<1>5. /\ Some(cameraQueue, MailsOf[c]) => At(c, <<"queue", 0>>)
      /\ Some(answers, AnswersOf[c]) => At(c, <<"answers", 0>>)
      /\ Some(timeQueue, Itself[c]) => At(c, <<"time", 0>>)
      /\ Some(timeAnswers, Itself[c]) => At(c, <<"timeAnswers", 0>>)
      /\ \A p : OnStrand(c, p) => At(c, p)
  BY DEF At
<1> QED BY <1>1, <1>2, <1>3, <1>4, <1>5

LEMMA RequestToQueue ==
  ASSUME MInv, NEW c \in Conns, NEW r \in Requests, ReadRequest(c, r, "waiting"),
         NEW mail \in CameraMails, mail.client = c, PostToCamera(mail),
         UNCHANGED timeVars
  PROVE  ConnTypeOK(Requests)' /\ \A d \in Conns : OneMail(d)' /\ Unanswered(d)'
<1>1. /\ ConnTypeOK(Requests)'
      /\ stage[c] = "reading" /\ stage'[c] = "waiting" /\ responses'[c] = responses[c]
      /\ \A d \in Conns \ {c} : /\ stage'[d] = stage[d] /\ responses'[d] = responses[d]
                                /\ request'[d] = request[d]
      /\ ~Some(cameraQueue, MailsOf[c]) /\ ~Some(answers, AnswersOf[c])
      /\ ~Some(timeQueue, Itself[c]) /\ ~Some(timeAnswers, Itself[c])
      /\ \A p : ~OnStrand(c, p)
  BY RequestRead
<1>2. /\ cameraQueue' = Append(cameraQueue, mail)
      /\ UNCHANGED <<opened, strand, answers, timeQueue, timeAnswers>>
  BY DEF PostToCamera, listVars, timeVars
<1>3. \A d \in Conns :
        /\ Single(cameraQueue', MailsOf[d])
        /\ Some(cameraQueue', MailsOf[d]) <=> Some(cameraQueue, MailsOf[d]) \/ d = c
  BY <1>1, <1>2, PutInQueue
<1>4. StrandsStay
  BY <1>2 DEF StrandsStay, Objects
<1>5. \A d \in Conns : (\A p : OnStrand(d, p)' <=> OnStrand(d, p)) /\ SingleOnStrands(d)'
  BY <1>4, StrandsKept
<1>6. \A d \in Conns : Singles(d)'
  BY <1>2, <1>3, <1>5 DEF MInv, OneMail, Singles
<1>7. ASSUME NEW d \in Conns \ {c}, NEW p PROVE At(d, p)' <=> At(d, p)
  BY <1>2, <1>3, <1>5 DEF At
<1>8. At(c, <<"queue", 0>>)' /\ \A p : At(c, p)' => p = <<"queue", 0>>
  BY <1>1, <1>2, <1>3, <1>5 DEF At
<1>9. \A d \in Conns : OneMail(d)' /\ Unanswered(d)'
  BY <1>1, <1>6, <1>7, <1>8, MailMoves
<1> QED BY <1>1, <1>9

LEMMA RequestToTime ==
  ASSUME MInv, NEW c \in Conns, NEW r \in Requests, ReadRequest(c, r, "waiting"),
         timeQueue' = Append(timeQueue, c), UNCHANGED <<cameraVars, timeAnswers>>
  PROVE  /\ ConnTypeOK(Requests)' /\ timeQueue' \in Seq(Conns)
         /\ \A d \in Conns : OneMail(d)' /\ Unanswered(d)'
<1>1. /\ ConnTypeOK(Requests)'
      /\ stage[c] = "reading" /\ stage'[c] = "waiting" /\ responses'[c] = responses[c]
      /\ \A d \in Conns \ {c} : /\ stage'[d] = stage[d] /\ responses'[d] = responses[d]
                                /\ request'[d] = request[d]
      /\ ~Some(cameraQueue, MailsOf[c]) /\ ~Some(answers, AnswersOf[c])
      /\ ~Some(timeQueue, Itself[c]) /\ ~Some(timeAnswers, Itself[c])
      /\ \A p : ~OnStrand(c, p)
  BY RequestRead
<1>2. UNCHANGED <<opened, strand, cameraQueue, answers>> /\ StrandsStay
  BY DEF cameraVars, StrandsStay, Objects
<1>3. /\ timeQueue' \in Seq(Conns)
      /\ \A d \in Conns :
           /\ Single(timeQueue', Itself[d])
           /\ Some(timeQueue', Itself[d]) <=> Some(timeQueue, Itself[d]) \/ d = c
  BY <1>1, PutInTime
<1>4. \A d \in Conns : (\A p : OnStrand(d, p)' <=> OnStrand(d, p)) /\ SingleOnStrands(d)'
  BY <1>2, StrandsKept
<1>5. \A d \in Conns : Singles(d)'
  BY <1>2, <1>3, <1>4 DEF MInv, OneMail, Singles
<1>6. ASSUME NEW d \in Conns \ {c}, NEW p PROVE At(d, p)' <=> At(d, p)
  BY <1>2, <1>3, <1>4 DEF At
<1>7. At(c, <<"time", 0>>)' /\ \A p : At(c, p)' => p = <<"time", 0>>
  BY <1>1, <1>2, <1>3, <1>4 DEF At
<1>8. \A d \in Conns : OneMail(d)' /\ Unanswered(d)'
  BY <1>1, <1>5, <1>6, <1>7, MailMoves
<1> QED BY <1>1, <1>3, <1>8

(* A step that moves no mail.                                              *)
LEMMA MailStays ==
  ASSUME MInv, UNCHANGED <<opened, strand, cameraQueue, answers, timeVars>>
  PROVE  \A d \in Conns : Singles(d)' /\ \A p : At(d, p)' <=> At(d, p)
<1>1. UNCHANGED <<timeQueue, timeAnswers>> /\ StrandsStay
  BY DEF timeVars, StrandsStay, Objects
<1>2. \A d \in Conns : (\A p : OnStrand(d, p)' <=> OnStrand(d, p)) /\ SingleOnStrands(d)'
  BY <1>1, StrandsKept
<1>3. \A d \in Conns : Singles(d)'
  BY <1>1, <1>2 DEF MInv, OneMail, Singles
<1>4. ASSUME NEW d \in Conns, NEW p PROVE At(d, p)' <=> At(d, p)
  BY <1>1, <1>2 DEF At
<1> QED BY <1>3, <1>4

LEMMA RequestToResponse ==
  ASSUME MInv, NEW c \in Conns, NEW r \in Requests, ReadRequest(c, r, "replying"),
         UNCHANGED <<opened, strand, cameraQueue, answers, timeVars>>
  PROVE  ConnTypeOK(Requests)' /\ \A d \in Conns : OneMail(d)' /\ Unanswered(d)'
<1>1. /\ ConnTypeOK(Requests)'
      /\ stage[c] = "reading" /\ stage'[c] = "replying"
      /\ \A d \in Conns \ {c} : /\ stage'[d] = stage[d] /\ responses'[d] = responses[d]
                                /\ request'[d] = request[d]
  BY RequestRead
<1>2. \A d \in Conns : Singles(d)' /\ \A p : At(d, p)' <=> At(d, p)
  BY MailStays
<1>3. \A p : ~At(c, p)'
  BY <1>1, <1>2 DEF MInv, OneMail, HasMail
<1>4. \A d \in Conns : OneMail(d)' /\ Unanswered(d)'
  BY <1>1, <1>2, <1>3, MailMoves DEF HasMail
<1> QED BY <1>1, <1>4

(* The connections' own steps, and those that change neither.              *)
LEMMA ConnectionMoves ==
  ASSUME MInv, UNCHANGED <<opened, strand, cameraQueue, answers, timeVars>>,
         UNCHANGED connVars \/ \E c \in Conns : ConnectionStep(c)
  PROVE  /\ ConnTypeOK(Requests)' /\ request' = request
         /\ \A d \in Conns : OneMail(d)' /\ Unanswered(d)'
<1>1. \A d \in Conns : Singles(d)' /\ \A p : At(d, p)' <=> At(d, p)
  BY MailStays
<1>2. ConnTypeOK(Requests) /\ \A d \in Conns : OneMail(d) /\ Unanswered(d)
  BY DEF MInv, Types
<1>3. /\ ConnTypeOK(Requests)' /\ request' = request
      /\ \A d \in Conns : stage'[d] = "waiting" <=> stage[d] = "waiting"
  BY <1>2 DEF ConnTypeOK, connVars, ConnectionStep, Accept, ReadFails, ResponseWritten,
              DeadlineExpires, Become, Stages
<1>4. ASSUME NEW d \in Conns PROVE Unanswered(d)'
  BY <1>2 DEF ConnTypeOK, Unanswered, connVars, ConnectionStep, Accept, ReadFails,
              ResponseWritten, DeadlineExpires, Become
<1>5. ASSUME NEW d \in Conns PROVE OneMail(d)'
  BY <1>1, <1>2, <1>3 DEF OneMail, HasMail, Forgotten
<1> QED BY <1>3, <1>4, <1>5
(* The resets in the queue stay those that were requested.                 *)
LEMMA ResetsStay ==
  ASSUME MInv, request' = request,
         \/ cameraQueue' = cameraQueue
         \/ cameraQueue # <<>> /\ cameraQueue' = Tail(cameraQueue)
  PROVE  ResetsAreRequested'
<1>1. CASE cameraQueue' = cameraQueue
  BY <1>1 DEF MInv, ResetsAreRequested
<1>2. CASE cameraQueue # <<>> /\ cameraQueue' = Tail(cameraQueue)
  <2>1. \A i \in DOMAIN cameraQueue' :
          i + 1 \in DOMAIN cameraQueue /\ cameraQueue'[i] = cameraQueue[i + 1]
    <3>1. cameraQueue \in Seq(CameraMails)
      BY Queues
    <3> QED BY <1>2, <3>1, Taken, Lengths
  <2> QED BY <2>1 DEF MInv, ResetsAreRequested
<1> QED BY <1>1, <1>2

LEMMA ResetsJoin ==
  ASSUME MInv, NEW c \in Conns, NEW r, request' = [request EXCEPT ![c] = r],
         ~Some(cameraQueue, MailsOf[c]),
         \/ cameraQueue' = cameraQueue
         \/ \E mail \in CameraMails :
              /\ cameraQueue' = Append(cameraQueue, mail) /\ mail.client = c
              /\ mail.cmd = "reset" => r = ResetOf(mail.camera, mail.addr)
  PROVE  ResetsAreRequested'
<1>1. /\ cameraQueue \in Seq(CameraMails) /\ request \in [Conns -> Requests \cup {NoRequest}]
      /\ ResetsAreRequested
  BY Queues DEF MInv, Types, ConnTypeOK
<1>2. \A i \in DOMAIN cameraQueue : cameraQueue[i] \in CameraMails /\ cameraQueue[i].client # c
  BY <1>1, Lengths, Whose DEF Some
<1>3. \A i \in DOMAIN cameraQueue : request'[cameraQueue[i].client] = request[cameraQueue[i].client]
  BY <1>1, <1>2, Whose
<1>4. CASE cameraQueue' = cameraQueue
  BY <1>1, <1>3, <1>4 DEF ResetsAreRequested
<1>5. ASSUME NEW mail \in CameraMails, cameraQueue' = Append(cameraQueue, mail),
             mail.client = c, mail.cmd = "reset" => r = ResetOf(mail.camera, mail.addr)
      PROVE  ResetsAreRequested'
  <2>1. /\ Len(cameraQueue) \in Nat /\ DOMAIN cameraQueue = 1..Len(cameraQueue)
        /\ DOMAIN cameraQueue' = 1..(Len(cameraQueue) + 1)
        /\ \A i \in 1..Len(cameraQueue) : cameraQueue'[i] = cameraQueue[i]
        /\ cameraQueue'[Len(cameraQueue) + 1] = mail
    BY <1>1, <1>5, Added, Lengths
  <2>2. request'[c] = r
    BY <1>1
  <2>3. ASSUME NEW i \in DOMAIN cameraQueue', cameraQueue'[i].cmd = "reset"
        PROVE  request'[cameraQueue'[i].client]
                 = ResetOf(cameraQueue'[i].camera, cameraQueue'[i].addr)
    <3>1. CASE i \in DOMAIN cameraQueue
      BY <1>1, <1>3, <2>1, <2>3, <3>1 DEF ResetsAreRequested
    <3>2. CASE i = Len(cameraQueue) + 1
      BY <1>5, <2>1, <2>2, <2>3, <3>2
    <3> QED BY <2>1, <3>1, <3>2
  <2> QED BY <2>3 DEF ResetsAreRequested
<1> QED BY <1>4, <1>5

LEMMA ResetIsRequested ==
  ASSUME MInv, cameraQueue # <<>>, Head(cameraQueue).cmd = "reset"
  PROVE  request[Head(cameraQueue).client]
           = ResetOf(Head(cameraQueue).camera, Head(cameraQueue).addr)
<1>1. 1 \in DOMAIN cameraQueue /\ Head(cameraQueue) = cameraQueue[1]
  BY Queues, Taken, Lengths
<1> QED BY <1>1 DEF MInv, ResetsAreRequested

-----------------------------------------------------------------------------
(* Every step keeps the invariant.                                         *)
LEMMA ThreadKeepsMail ==
  ASSUME MInv, NEW t \in Threads, CameraReaderRuns(t)
  PROVE  /\ camera_info_list_ \subseteq camera_info_list_'
         /\ \/ cameraQueue' = cameraQueue
            \/ cameraQueue # <<>> /\ cameraQueue' = Tail(cameraQueue)
         /\ \A d \in Conns : OneMail(d)' /\ Unanswered(d)'
<1> DEFINE mail == Head(cameraQueue)
<1>1. CInv /\ UNCHANGED <<connVars, timeVars>> /\ RunThread(t)
  BY DEF MInv, CameraReaderRuns
<1>2. ASSUME UNCHANGED <<camera_info_list_, opened, strand, cameraQueue, answers>>
      PROVE  /\ camera_info_list_ \subseteq camera_info_list_'
             /\ cameraQueue' = cameraQueue
             /\ \A d \in Conns : OneMail(d)' /\ Unanswered(d)'
  BY <1>1, <1>2, ConnectionMoves
<1>3. CASE GetImage(t)
  <2>1. /\ cameraQueue # <<>> /\ cameraQueue' = Tail(cameraQueue) /\ HasItem(mail.camera)
        /\ strand' = [strand EXCEPT ![Find(mail.camera)] = Append(@, mail)]
        /\ UNCHANGED <<camera_info_list_, opened, answers>>
    BY <1>3 DEF GetImage, Takes, Handles, listVars
  <2>2. PICK o \in Objects : o = Find(mail.camera)
    BY <1>1, <2>1, Finds
  <2>3. \A d \in Conns : OneMail(d)' /\ Unanswered(d)'
    BY <1>1, <2>1, <2>2, QueueToStrand
  <2> QED BY <2>1, <2>3
<1>4. CASE GetImageOfNoCamera(t)
  BY <1>2, <1>4 DEF GetImageOfNoCamera, listVars
<1>5. ASSUME NEW o \in Objects, ReadClosed(t, o)
      PROVE  /\ camera_info_list_ \subseteq camera_info_list_'
             /\ cameraQueue' = cameraQueue
             /\ \A d \in Conns : OneMail(d)' /\ Unanswered(d)'
  BY <1>1, <1>5, StrandToAnswers DEF ReadClosed, listVars
<1>6. ASSUME NEW o \in Objects, BeginRead(t, o)
      PROVE  /\ camera_info_list_ \subseteq camera_info_list_'
             /\ cameraQueue' = cameraQueue
             /\ \A d \in Conns : OneMail(d)' /\ Unanswered(d)'
  BY <1>2, <1>6 DEF BeginRead, listVars
<1>7. CASE EndRead(t)
  <2>1. /\ thread[t].doing = "reading"
        /\ strand' = [strand EXCEPT ![thread[t].object] = Tail(@)]
        /\ UNCHANGED <<camera_info_list_, opened, cameraQueue>>
    BY <1>7 DEF EndRead, listVars
  <2>2. PICK ok \in BOOLEAN : PostAnswer(thread[t].mail, ok, thread[t].object)
    BY <1>7 DEF EndRead
  <2>3. PICK o \in Objects : o = thread[t].object
    BY <1>1, <2>1, Threading
  <2>4. strand[o] # <<>> /\ thread[t].mail = Head(strand[o])
    BY <1>1, <2>1, <2>3 DEF CInv, ReadsTakeTurns
  <2>5. \A d \in Conns : OneMail(d)' /\ Unanswered(d)'
    BY <1>1, <2>1, <2>2, <2>3, <2>4, StrandToAnswers
  <2> QED BY <2>1, <2>5
<1>8. CASE ReadOfReleased(t)
  BY <1>2, <1>8 DEF ReadOfReleased, listVars
<1>9. ASSUME Takes(t, "reset")
      PROVE  /\ cameraQueue # <<>> /\ cameraQueue' = Tail(cameraQueue)
             /\ mail \in CameraMails
             /\ request[mail.client] = ResetOf(mail.camera, mail.addr)
  <2>1. cameraQueue # <<>> /\ cameraQueue' = Tail(cameraQueue) /\ mail.cmd = "reset"
    BY <1>9 DEF Takes, Handles
  <2> QED BY <2>1, ResetIsRequested, Queues, Taken
<1>10. CASE ResetNewCamera(t)
  <2> DEFINE camera == mail.camera
  <2>1. /\ Takes(t, "reset") /\ camera \notin camera_info_list_
        /\ camera_info_list_' = camera_info_list_ \cup {camera}
        /\ NewItem(camera, camera_item_list_, opened)
        /\ answers' = answers
    BY <1>10 DEF ResetNewCamera
  <2>2. /\ camera \in Cameras /\ camera_item_list_ \in Seq(ItemRecord)
        /\ opened \in Seq(BOOLEAN)
    BY <1>1, <1>9, <2>1 DEF CInv, CameraTypeOK, ItemRecord, CameraMails
  <2>3. StrandsStay
    BY <1>1, <2>1, <2>2, StrandsGrow
  <2>4. Forgotten(mail.client)
    BY <1>9, <2>1 DEF MInv, Forgotten, ResetOf
  <2>5. \A d \in Conns : OneMail(d)' /\ Unanswered(d)'
    BY <1>1, <1>9, <2>1, <2>3, <2>4, QueueToNowhere
  <2> QED BY <1>9, <2>1, <2>5
<1>11. CASE ResetCamera(t)
  <2> DEFINE camera == mail.camera
  <2>1. /\ Takes(t, "reset")
        /\ NewItem(camera, Without(camera), Closed(camera))
        /\ PostAnswer(mail, TRUE, Len(opened'))
        /\ camera_info_list_' = camera_info_list_
    BY <1>11 DEF ResetCamera
  <2>2. /\ camera \in Cameras /\ Without(camera) \in Seq(ItemRecord)
        /\ Closed(camera) \in Seq(BOOLEAN) /\ Len(Closed(camera)) = Len(opened)
    BY <1>1, <1>9, <2>1, ItemRemoved, ItemClosed DEF OthersOf, CameraMails
  <2> HIDE DEF mail
  <2>3. StrandsStay /\ Len(opened') \in Nat
    <3>1. StrandsStay
      BY <1>1, <2>1, <2>2, StrandsGrow
    <3>2. Len(opened') = Len(opened) + 1
      BY <1>1, <2>1, <2>2, ItemMade
    <3> QED BY <1>1, <3>1, <3>2, Shapes
  <2>4. PICK object \in Nat : object = Len(opened')
    BY <2>3
  <2>5. \A d \in Conns : OneMail(d)' /\ Unanswered(d)'
    BY <1>1, <1>9, <2>1, <2>3, <2>4, QueueToAnswers DEF mail
  <2> QED BY <1>9, <2>1, <2>5
<1>12. CASE ResetThrows(t)
  <2>1. /\ Takes(t, "reset") /\ mail.addr = "text"
        /\ opened' = Closed(mail.camera)
        /\ UNCHANGED <<camera_info_list_, strand, answers>>
    BY <1>12 DEF ResetThrows
  <2>2. StrandsStay
    BY <1>1, <2>1, ItemClosed DEF StrandsStay, Objects
  <2>3. Forgotten(mail.client)
    BY <1>9, <2>1 DEF Forgotten, ResetOf
  <2>4. \A d \in Conns : OneMail(d)' /\ Unanswered(d)'
    BY <1>1, <1>9, <2>1, <2>2, <2>3, QueueToNowhere
  <2> QED BY <1>9, <2>1, <2>4
<1> QED
  BY <1>1, <1>3, <1>4, <1>5, <1>6, <1>7, <1>8, <1>10, <1>11, <1>12 DEF RunThread
LEMMA RequestKeepsMail ==
  ASSUME MInv, NEW c \in Conns, ProcessRequest(c)
  PROVE  /\ camera_info_list_' = camera_info_list_
         /\ Types' /\ ResetsAreRequested'
         /\ \A d \in Conns : OneMail(d)' /\ Unanswered(d)'
<1>1. c \in Clients /\ timeQueue \in Seq(Conns) /\ timeAnswers \in Seq(Conns)
  BY ClientsAssumption DEF MInv, Types
<1>2. \A camera \in Cameras : Newest(camera) \in Nat
  BY NewestIs, Shapes DEF MInv
<1>3. ASSUME NEW r \in Requests, ReadRequest(c, r, "waiting"),
             NEW mail \in CameraMails, mail.client = c, PostToCamera(mail),
             mail.cmd = "reset" => r = ResetOf(mail.camera, mail.addr),
             UNCHANGED timeVars
      PROVE  /\ camera_info_list_' = camera_info_list_
             /\ Types' /\ ResetsAreRequested'
             /\ \A d \in Conns : OneMail(d)' /\ Unanswered(d)'
  <2>1. ConnTypeOK(Requests)' /\ \A d \in Conns : OneMail(d)' /\ Unanswered(d)'
    BY <1>3, RequestToQueue
  <2>2. /\ ~Some(cameraQueue, MailsOf[c]) /\ request' = [request EXCEPT ![c] = r]
        /\ cameraQueue' = Append(cameraQueue, mail)
        /\ UNCHANGED <<camera_info_list_, timeQueue, timeAnswers>>
    BY <1>3, RequestRead DEF PostToCamera, listVars, timeVars
  <2>3. ResetsAreRequested'
    BY <1>3, <2>2, ResetsJoin
  <2> QED BY <1>1, <2>1, <2>2, <2>3 DEF Types
<1>4. CASE ReadImage(c)
  <2>1. PICK camera \in Cameras : /\ ImageOf(camera) \in Requests
                                  /\ ReadRequest(c, ImageOf(camera), "waiting")
                                  /\ PostToCamera(ImageMail(c, camera))
                                  /\ UNCHANGED timeVars
    BY <1>4 DEF ReadImage
  <2>2. /\ ImageMail(c, camera) \in CameraMails /\ ImageMail(c, camera).client = c
        /\ ImageMail(c, camera).cmd # "reset"
    BY <1>1, <1>2 DEF ImageMail, CameraMails
  <2> QED BY <1>3, <2>1, <2>2
<1>5. CASE ReadReset(c)
  <2>1. PICK camera \in Cameras, addr \in {"number", "text"} :
          /\ ResetOf(camera, addr) \in Requests
          /\ ReadRequest(c, ResetOf(camera, addr), "waiting")
          /\ PostToCamera(ResetMail(c, camera, addr))
          /\ UNCHANGED timeVars
    BY <1>5 DEF ReadReset
  <2> DEFINE mail == ResetMail(c, camera, addr)
  <2>2. /\ mail \in CameraMails /\ mail.client = c
        /\ mail.camera = camera /\ mail.addr = addr
    BY <1>1, <1>2 DEF ResetMail, CameraMails
  <2> HIDE DEF mail
  <2>3. PostToCamera(mail)
    BY <2>1 DEF mail
  <2> QED BY <1>3, <2>1, <2>2, <2>3
<1>6. CASE ReadTime(c)
  <2>1. /\ TimeRequest \in Requests /\ ReadRequest(c, TimeRequest, "waiting")
        /\ timeQueue' = Append(timeQueue, c) /\ UNCHANGED <<cameraVars, timeAnswers>>
    BY <1>6 DEF ReadTime
  <2>2. /\ ConnTypeOK(Requests)' /\ timeQueue' \in Seq(Conns)
        /\ \A d \in Conns : OneMail(d)' /\ Unanswered(d)'
    BY <2>1, RequestToTime
  <2>3. /\ ~Some(cameraQueue, MailsOf[c])
        /\ request' = [request EXCEPT ![c] = TimeRequest]
        /\ cameraQueue' = cameraQueue /\ camera_info_list_' = camera_info_list_
    BY <2>1, RequestRead DEF cameraVars
  <2>4. ResetsAreRequested'
    BY <2>3, ResetsJoin
  <2> QED BY <1>1, <2>1, <2>2, <2>3, <2>4 DEF Types
<1>7. CASE ReadAtOnce(c)
  <2>1. /\ AtOnce \in Requests /\ ReadRequest(c, AtOnce, "replying")
        /\ UNCHANGED <<camera_info_list_, opened, strand, cameraQueue, answers, timeVars>>
    BY <1>7 DEF ReadAtOnce, cameraVars
  <2>2. ConnTypeOK(Requests)' /\ \A d \in Conns : OneMail(d)' /\ Unanswered(d)'
    BY <2>1, RequestToResponse
  <2>3. /\ ~Some(cameraQueue, MailsOf[c])
        /\ request' = [request EXCEPT ![c] = AtOnce]
    BY <2>1, RequestRead
  <2>4. ResetsAreRequested'
    BY <2>1, <2>3, ResetsJoin
  <2> QED BY <1>1, <2>1, <2>2, <2>4 DEF Types, timeVars
<1> QED BY <1>4, <1>5, <1>6, <1>7 DEF ProcessRequest

LEMMA ServiceKeepsMail ==
  ASSUME MInv, AskTime \/ RespondToAnswer \/ RespondWithTime \/ TimeServiceReceives
  PROVE  /\ camera_info_list_' = camera_info_list_
         /\ Types' /\ ResetsAreRequested'
         /\ \A d \in Conns : OneMail(d)' /\ Unanswered(d)'
<1>1. /\ ConnTypeOK(Requests) /\ timeQueue \in Seq(Conns) /\ timeAnswers \in Seq(Conns)
  BY DEF MInv, Types
<1>2. UNCHANGED connVars => ConnTypeOK(Requests)' /\ request' = request
  BY <1>1 DEF ConnTypeOK, connVars
<1>3. CASE AskTime
  <2>1. /\ answers # <<>> /\ answers' = Tail(answers)
        /\ timeQueue' = Append(timeQueue, Head(answers).mail.client)
        /\ UNCHANGED <<camera_info_list_, opened, strand, cameraQueue, timeAnswers, connVars>>
    BY <1>3 DEF AskTime, TakeAnswer, listVars
  <2>2. timeQueue' \in Seq(Conns) /\ \A d \in Conns : OneMail(d)' /\ Unanswered(d)'
    BY <2>1, AnswersToTime
  <2>3. ResetsAreRequested'
    BY <1>2, <2>1, ResetsStay
  <2> QED BY <1>1, <1>2, <2>1, <2>2, <2>3 DEF Types
<1>4. CASE RespondToAnswer
  <2>1. /\ answers # <<>> /\ answers' = Tail(answers)
        /\ Respond(Head(answers).mail.client)
        /\ UNCHANGED <<camera_info_list_, opened, strand, cameraQueue, timeVars>>
    BY <1>4 DEF RespondToAnswer, TakeAnswer, listVars, timeVars
  <2>2. ConnTypeOK(Requests)' /\ \A d \in Conns : OneMail(d)' /\ Unanswered(d)'
    BY <2>1, AnswersToResponse
  <2>3. ResetsAreRequested'
    BY <2>1, ResetsStay DEF Respond
  <2> QED BY <1>1, <2>1, <2>2, <2>3 DEF Types, timeVars
<1>5. CASE RespondWithTime
  <2>1. /\ timeAnswers # <<>> /\ timeAnswers' = Tail(timeAnswers)
        /\ Respond(Head(timeAnswers))
        /\ UNCHANGED <<camera_info_list_, opened, strand, cameraQueue, answers, timeQueue>>
    BY <1>5 DEF RespondWithTime, cameraVars
  <2>2. /\ ConnTypeOK(Requests)' /\ timeAnswers' \in Seq(Conns)
        /\ \A d \in Conns : OneMail(d)' /\ Unanswered(d)'
    BY <2>1, TimeToResponse
  <2>3. ResetsAreRequested'
    BY <2>1, ResetsStay DEF Respond
  <2> QED BY <1>1, <2>1, <2>2, <2>3 DEF Types
<1>6. CASE TimeServiceReceives
  <2>1. /\ timeQueue # <<>> /\ timeQueue' = Tail(timeQueue)
        /\ timeAnswers' = Append(timeAnswers, Head(timeQueue))
        /\ UNCHANGED <<camera_info_list_, opened, strand, cameraQueue, answers, connVars>>
    BY <1>6 DEF TimeServiceReceives, cameraVars
  <2>2. /\ timeQueue' \in Seq(Conns) /\ timeAnswers' \in Seq(Conns)
        /\ \A d \in Conns : OneMail(d)' /\ Unanswered(d)'
    BY <2>1, TimeToAnswers
  <2>3. ResetsAreRequested'
    BY <1>2, <2>1, ResetsStay
  <2> QED BY <1>2, <2>1, <2>2, <2>3 DEF Types
<1> QED BY <1>3, <1>4, <1>5, <1>6

LEMMA NextKeepsMail ==
  ASSUME MInv, [Next]_vars
  PROVE  MInv'
<1>1. CInv' /\ Configured \subseteq camera_info_list_ /\ Types
  BY NextKeeps DEF MInv
<1> DEFINE Kept == /\ camera_info_list_ \subseteq camera_info_list_'
                   /\ Types' /\ ResetsAreRequested'
                   /\ \A d \in Conns : OneMail(d)' /\ Unanswered(d)'
<1> SUFFICES Kept
  BY <1>1 DEF MInv
<1>2. ASSUME UNCHANGED <<cameraVars, timeVars>>,
             UNCHANGED connVars \/ \E c \in Conns : ConnectionStep(c)
      PROVE  Kept
  <2>1. UNCHANGED <<camera_info_list_, opened, strand, cameraQueue, answers, timeQueue,
                    timeAnswers, timeVars>>
    BY <1>2 DEF cameraVars, timeVars
  <2>2. /\ ConnTypeOK(Requests)' /\ request' = request
        /\ \A d \in Conns : OneMail(d)' /\ Unanswered(d)'
    BY <1>2, <2>1, ConnectionMoves
  <2>3. ResetsAreRequested'
    BY <2>1, <2>2, ResetsStay
  <2> QED BY <1>1, <2>1, <2>2, <2>3 DEF Types
<1>3. CASE UNCHANGED vars
  BY <1>2, <1>3 DEF vars
<1>4. CASE \E c \in Conns : Connection(c)
  BY <1>2, <1>4 DEF Connection
<1>5. CASE \E c \in Conns : ProcessRequest(c)
  BY <1>5, RequestKeepsMail
<1>6. CASE \E t \in Threads : CameraReaderRuns(t)
  <2>1. /\ camera_info_list_ \subseteq camera_info_list_'
        /\ \/ cameraQueue' = cameraQueue
           \/ cameraQueue # <<>> /\ cameraQueue' = Tail(cameraQueue)
        /\ \A d \in Conns : OneMail(d)' /\ Unanswered(d)'
    BY <1>6, ThreadKeepsMail
  <2>2. UNCHANGED <<stage, request, socket, deadline, responses, timeQueue, timeAnswers>>
    BY <1>6 DEF CameraReaderRuns, connVars, timeVars
  <2>3. ResetsAreRequested'
    BY <2>1, <2>2, ResetsStay
  <2> QED BY <1>1, <2>1, <2>2, <2>3 DEF Types, ConnTypeOK
<1>7. CASE ServiceRuns \/ TimeServiceReceives
  BY <1>7, ServiceKeepsMail DEF ServiceRuns
<1> QED BY <1>3, <1>4, <1>5, <1>6, <1>7 DEF Next

LEMMA InitMail == Init => MInv
<1> SUFFICES ASSUME Init PROVE MInv
  OBVIOUS
<1>1. CInv
  BY CameraInitKeeps DEF Init
<1>2. /\ stage = [c \in Conns |-> "none"] /\ request = [c \in Conns |-> NoRequest]
      /\ socket = [c \in Conns |-> FALSE] /\ deadline = [c \in Conns |-> FALSE]
      /\ responses = [c \in Conns |-> 0]
      /\ timeQueue = <<>> /\ timeAnswers = <<>>
      /\ camera_info_list_ = Configured
      /\ strand = [o \in Objects |-> <<>>]
      /\ cameraQueue = <<>> /\ answers = <<>>
  BY DEF Init, ConnInit, CameraInit
<1>3. Types
  BY <1>2 DEF Types, ConnTypeOK, Stages
<1>4. ResetsAreRequested
  BY <1>2 DEF ResetsAreRequested
<1>5. \A R : Single(<<>>, R) /\ ~Some(<<>>, R)
  BY DEF Some, Single
<1>6. ASSUME NEW c \in Conns PROVE Singles(c) /\ ~HasMail(c)
  BY <1>2, <1>5 DEF Singles, SingleOnStrands, HasMail, At, OnStrand
<1>7. ASSUME NEW c \in Conns PROVE OneMail(c) /\ Unanswered(c)
  BY <1>2, <1>6 DEF OneMail, Unanswered, HasMail
<1> QED BY <1>1, <1>2, <1>3, <1>4, <1>7 DEF MInv

-----------------------------------------------------------------------------
(* The places of the definition are those of the invariant.                *)
LEMMA PlacesAre ==
  ASSUME MInv, NEW c \in Conns, NEW p
  PROVE  p \in Places(c) <=>
           \/ \E i \in DOMAIN cameraQueue :
                cameraQueue[i] \in MailsOf[c] /\ p = <<"queue", 0, i>>
           \/ \E o \in Objects : \E i \in DOMAIN strand[o] :
                strand[o][i] \in MailsOf[c] /\ p = <<"strand", o, i>>
           \/ \E i \in DOMAIN answers :
                answers[i] \in AnswersOf[c] /\ p = <<"answers", 0, i>>
           \/ \E i \in DOMAIN timeQueue :
                timeQueue[i] \in Itself[c] /\ p = <<"time", 0, i>>
           \/ \E i \in DOMAIN timeAnswers :
                timeAnswers[i] \in Itself[c] /\ p = <<"timeAnswers", 0, i>>
<1>1. /\ \A i \in DOMAIN cameraQueue : cameraQueue[i] \in MailsOf[c] <=> cameraQueue[i].client = c
      /\ \A o \in Objects : \A i \in DOMAIN strand[o] :
           strand[o][i] \in MailsOf[c] <=> strand[o][i].client = c
      /\ \A i \in DOMAIN answers : answers[i] \in AnswersOf[c] <=> answers[i].mail.client = c
      /\ \A i \in DOMAIN timeQueue : timeQueue[i] \in Itself[c] <=> timeQueue[i] = c
      /\ \A i \in DOMAIN timeAnswers : timeAnswers[i] \in Itself[c] <=> timeAnswers[i] = c
  BY Queues, Lengths, Whose
<1> DEFINE Queued == {<<"queue", 0, i>> :
             i \in {j \in DOMAIN cameraQueue : cameraQueue[j].client = c}}
           OnStrandOf(o) == {<<"strand", o, i>> :
             i \in {j \in DOMAIN strand[o] : strand[o][j].client = c}}
           OnStrands == UNION {OnStrandOf(o) : o \in Objects}
           Answered == {<<"answers", 0, i>> :
             i \in {j \in DOMAIN answers : answers[j].mail.client = c}}
           Asking == {<<"time", 0, i>> :
             i \in {j \in DOMAIN timeQueue : timeQueue[j] = c}}
           Told == {<<"timeAnswers", 0, i>> :
             i \in {j \in DOMAIN timeAnswers : timeAnswers[j] = c}}
<1>2. Places(c) = Queued \cup OnStrands \cup Answered \cup Asking \cup Told
  BY DEF Places
<1>3. p \in Queued <=> \E i \in DOMAIN cameraQueue :
        cameraQueue[i].client = c /\ p = <<"queue", 0, i>>
  OBVIOUS
<1>4. ASSUME NEW o \in Objects
      PROVE  p \in OnStrandOf(o) <=> \E i \in DOMAIN strand[o] :
               strand[o][i].client = c /\ p = <<"strand", o, i>>
  OBVIOUS
<1>5. p \in Answered <=> \E i \in DOMAIN answers :
        answers[i].mail.client = c /\ p = <<"answers", 0, i>>
  OBVIOUS
<1>6. p \in Asking <=> \E i \in DOMAIN timeQueue :
        timeQueue[i] = c /\ p = <<"time", 0, i>>
  OBVIOUS
<1>7. p \in Told <=> \E i \in DOMAIN timeAnswers :
        timeAnswers[i] = c /\ p = <<"timeAnswers", 0, i>>
  OBVIOUS
<1>8. p \in OnStrands <=> \E o \in Objects : p \in OnStrandOf(o)
  <2> HIDE DEF OnStrandOf
  <2> QED OBVIOUS
<1>9. p \in Places(c) <=>
        \/ p \in Queued \/ p \in OnStrands
        \/ p \in Answered \/ p \in Asking \/ p \in Told
  <2> HIDE DEF Queued, OnStrands, Answered, Asking, Told
  <2> QED BY <1>2
<1> HIDE DEF Queued, OnStrandOf, OnStrands, Answered, Asking, Told
<1> QED BY <1>1, <1>3, <1>4, <1>5, <1>6, <1>7, <1>8, <1>9

(* A connection has one mail under way exactly while it waits, unless it   *)
(* asked for a reset that is forgotten: whatever the threads, the resets,  *)
(* the deadlines and the clients do, no connection is answered twice and   *)
(* no image is forgotten.                                                  *)
THEOREM OneMailEach == Spec => []OneMailWhileWaiting
<1>1. MInv => OneMailWhileWaiting
  <2> SUFFICES ASSUME MInv PROVE OneMailWhileWaiting
    OBVIOUS
  <2>1. TypeOK
    BY DEF MInv, Types, TypeOK, CInv
  <2>2. ASSUME NEW c \in Conns
        PROVE  /\ \A p \in Places(c), q \in Places(c) : p = q
               /\ Places(c) # {} <=> HasMail(c)
    <3>1. OneMail(c) /\ Singles(c)
      BY DEF MInv, OneMail
    <3>2. ASSUME NEW p \in Places(c) PROVE At(c, <<p[1], p[2]>>)
      BY PlacesAre DEF At, OnStrand, Some
    <3>3. ASSUME NEW p \in Places(c), NEW q \in Places(c), p[1] = q[1], p[2] = q[2]
          PROVE  p = q
      BY <3>1, <3>3, PlacesAre DEF Singles, SingleOnStrands, Single
    <3>4. ASSUME NEW p \in Places(c), NEW q \in Places(c) PROVE p = q
      <4>1. <<p[1], p[2]>> = <<q[1], q[2]>>
        BY <3>1, <3>2 DEF OneMail
      <4> QED BY <3>3, <4>1
    <3>5. HasMail(c) => Places(c) # {}
      BY PlacesAre DEF HasMail, At, OnStrand, Some
    <3> QED BY <3>2, <3>4, <3>5 DEF HasMail
  <2>3. ASSUME NEW c \in Conns PROVE Cardinality(Places(c)) <= 1
    <3>1. CASE Places(c) = {}
      BY <3>1, FS_EmptySet
    <3>2. CASE Places(c) # {}
      <4>1. PICK p \in Places(c) : TRUE
        BY <3>2
      <4>2. Places(c) = {p}
        BY <2>2, <4>1
      <4> QED BY <4>2, FS_Singleton
    <3> QED BY <3>1, <3>2
  <2>4. \A c \in Conns : OneMail(c)
    BY DEF MInv
  <2> QED BY <2>1, <2>2, <2>3, <2>4 DEF OneMailWhileWaiting, OneMail, Forgotten
<1> QED BY <1>1, InitMail, NextKeepsMail, PTL DEF Spec

-----------------------------------------------------------------------------
(* The connections as their clients see them.  A request is there from     *)
(* when it was read, and a response from when it is being written.         *)
Exchanged(c) ==
  /\ stage[c] \in {"none", "reading"} => request[c] = NoRequest
  /\ stage[c] \in {"waiting", "replying"} => request[c] # NoRequest
  /\ stage[c] \in {"none", "reading", "waiting"} => responses[c] = 0
  /\ stage[c] = "replying" => responses[c] = 1

XInv == ConnTypeOK(Requests) /\ \A c \in Conns : Exchanged(c)

(* All that happens to connections, whatever the service.                  *)
ConnectionsMove ==
  \/ UNCHANGED connVars
  \/ \E c \in Conns : ConnectionStep(c)
  \/ \E c \in Conns, r \in Requests, s \in {"replying", "waiting", "idle"} :
       r # NoRequest /\ ReadRequest(c, r, s)
  \/ \E c \in Conns : stage[c] = "waiting" /\ Respond(c)

(* A step of one connection changes what is seen of that one.              *)
LEMMA SeenOfOne ==
  ASSUME ConnTypeOK(Requests), NEW c \in Conns,
         NEW s, stage' = [stage EXCEPT ![c] = s],
         \A d \in Conns \ {c} : socket'[d] = socket[d]
  PROVE  Links' = [Links EXCEPT ![c] = Link(c)']
<1>1. \A d \in Conns \ {c} : Link(d)' = Link(d)
  BY DEF ConnTypeOK, Link
<1> QED BY <1>1 DEF Links

LEMMA ConnectionExchange ==
  ASSUME XInv, NEW c \in Conns, ConnectionStep(c)
  PROVE  XInv' /\ [Exchange!ExchangeNext]_(Exchange!exchangeVars)
<1> USE DEF XInv
<1>1. UNCHANGED <<request, responses>> /\ AskedOnce' = AskedOnce
  BY DEF ConnectionStep, Accept, ReadFails, ResponseWritten, DeadlineExpires, AskedOnce
<1>2. XInv'
  BY <1>1 DEF ConnTypeOK, ConnectionStep, Accept, ReadFails, ResponseWritten, DeadlineExpires,
              Become, Stages, Exchanged
<1> SUFFICES [Exchange!ExchangeNext]_(Exchange!exchangeVars)
  BY <1>2
<1>3. CASE Accept(c)
  <2>1. Links' = [Links EXCEPT ![c] = "open"]
    BY <1>3, SeenOfOne DEF Accept, Become, ConnTypeOK, Link
  <2>2. Links[c] = "none"
    BY <1>3 DEF Links, Link, Accept
  <2> QED BY <1>1, <2>1, <2>2 DEF Exchange!ExchangeNext, Exchange!Connect,
                                  Exchange!SetLink
<1>4. CASE ReadFails(c) \/ ResponseWritten(c)
  <2>1. Links' = [Links EXCEPT ![c] = "over"]
    <3>1. PICK s \in {"idle", "done"} : stage' = [stage EXCEPT ![c] = s]
      BY <1>4 DEF ReadFails, ResponseWritten, Become
    <3>2. \A d \in Conns \ {c} : socket'[d] = socket[d]
      BY <1>4 DEF ConnTypeOK, ReadFails, ResponseWritten
    <3>3. Link(c)' = "over"
      BY <3>1 DEF ConnTypeOK, Link
    <3> QED BY <3>1, <3>2, <3>3, SeenOfOne
  <2>2. Links[c] \in {"open", "timedOut"}
    BY <1>4 DEF Links, Link, ReadFails, ResponseWritten
  <2>3. AskedOnce[c] = responses[c]
    BY <1>4 DEF AskedOnce, Exchanged, ReadFails, ResponseWritten
  <2> QED BY <1>1, <2>1, <2>2, <2>3 DEF Exchange!ExchangeNext, Exchange!End,
                                        Exchange!SetLink, Exchange!Served
<1>5. CASE DeadlineExpires(c)
  <2>1. /\ \A d \in Conns : stage'[d] = stage[d]
        /\ \A d \in Conns : socket'[d] = IF d = c THEN FALSE ELSE socket[d]
    BY <1>5 DEF DeadlineExpires, ConnTypeOK
  <2>2. \A d \in Conns : Link(d)' = IF d = c /\ Link(c) = "open" THEN "timedOut" ELSE Link(d)
    BY <2>1 DEF Link
  <2>3. CASE Link(c) = "open"
    <3>1. Links' = [Links EXCEPT ![c] = "timedOut"] /\ Links[c] = "open"
      BY <2>2, <2>3 DEF Links
    <3> QED BY <1>1, <3>1 DEF Exchange!ExchangeNext, Exchange!TimeOut,
                              Exchange!SetLink
  <2>4. CASE Link(c) # "open"
    <3>1. Links' = Links
      BY <2>2, <2>4 DEF Links
    <3> QED BY <1>1, <3>1 DEF Exchange!exchangeVars
  <2> QED BY <2>3, <2>4
<1> QED BY <1>3, <1>4, <1>5 DEF ConnectionStep

LEMMA RequestExchange ==
  ASSUME XInv, NEW c \in Conns, NEW r \in Requests, r # NoRequest,
         NEW s \in {"replying", "waiting", "idle"}, ReadRequest(c, r, s)
  PROVE  XInv' /\ Exchange!ExchangeNext
<1> USE DEF XInv
<1>1. /\ stage[c] = "reading" /\ responses[c] = 0 /\ request[c] = NoRequest
      /\ stage' = [stage EXCEPT ![c] = s] /\ request' = [request EXCEPT ![c] = r]
      /\ responses' = [responses EXCEPT ![c] = IF s = "replying" THEN @ + 1 ELSE @]
      /\ UNCHANGED <<socket, deadline>>
  BY DEF ReadRequest, Become, Exchanged
<1>2. XInv'
  BY <1>1 DEF ConnTypeOK, Stages, Exchanged
<1>3. AskedOnce[c] = 0 /\ AskedOnce' = [AskedOnce EXCEPT ![c] = @ + 1]
  <2>1. \A d \in Conns : request'[d] = IF d = c THEN r ELSE request[d]
    BY <1>1 DEF ConnTypeOK
  <2>2. AskedOnce[c] = 0 /\ AskedOnce' = [AskedOnce EXCEPT ![c] = 1]
    BY <1>1, <2>1 DEF AskedOnce
  <2> QED BY <2>2
<1>4. Links[c] \in {"open", "timedOut"}
  BY <1>1 DEF Links, Link
<1>5. Link(c)' = IF s = "idle" THEN "over" ELSE Link(c)
  BY <1>1 DEF Link, ConnTypeOK
<1>6. Links' = [Links EXCEPT ![c] = IF s = "idle" THEN "over" ELSE @]
  BY <1>1, <1>5, SeenOfOne DEF Links
<1>7. CASE s = "idle"
  <2>1. Links' = [Links EXCEPT ![c] = "over"] /\ responses' = responses
    BY <1>1, <1>6, <1>7 DEF ConnTypeOK
  <2> QED BY <1>1, <1>2, <1>3, <1>4, <2>1
          DEF Exchange!ExchangeNext, Exchange!Take, Exchange!SetLink, Exchange!Served
<1>8. CASE s # "idle"
  <2>1. Links' = Links
    BY <1>6, <1>8 DEF Links
  <2>2. responses' = responses \/ responses' = [responses EXCEPT ![c] = @ + 1]
    BY <1>1 DEF ConnTypeOK
  <2> QED BY <1>1, <1>2, <1>3, <1>4, <2>1, <2>2
          DEF Exchange!ExchangeNext, Exchange!Take, Exchange!Count, Exchange!Served
<1> QED BY <1>7, <1>8

LEMMA ResponseExchange ==
  ASSUME XInv, NEW c \in Conns, stage[c] = "waiting", Respond(c)
  PROVE  XInv' /\ Exchange!ExchangeNext
<1> USE DEF XInv
<1>1. /\ responses[c] = 0 /\ request[c] # NoRequest
      /\ stage' = [stage EXCEPT ![c] = "replying"]
      /\ responses' = [responses EXCEPT ![c] = @ + 1]
      /\ UNCHANGED <<request, socket, deadline>>
  BY DEF Respond, Become, Exchanged
<1>2. XInv'
  BY <1>1 DEF ConnTypeOK, Stages, Exchanged
<1>3. AskedOnce[c] = 1 /\ AskedOnce' = AskedOnce
  BY <1>1 DEF AskedOnce
<1>4. Links[c] \in {"open", "timedOut"}
  BY DEF Links, Link
<1>5. Link(c)' = Link(c)
  BY <1>1 DEF Link, ConnTypeOK
<1>6. Links' = Links
  BY <1>1, <1>5, SeenOfOne DEF Links
<1>7. responses[c] < AskedOnce[c]
  BY <1>1, <1>3
<1>8. Exchange!Answer(c)
  BY <1>1, <1>3, <1>4, <1>6, <1>7 DEF Exchange!Answer, Exchange!Count, Exchange!Served
<1> QED BY <1>2, <1>8 DEF Exchange!ExchangeNext

LEMMA MovesExchange ==
  ASSUME XInv, ConnectionsMove
  PROVE  XInv' /\ [Exchange!ExchangeNext]_(Exchange!exchangeVars)
<1>1. ASSUME UNCHANGED connVars
      PROVE  XInv' /\ UNCHANGED Exchange!exchangeVars
  BY <1>1 DEF XInv, ConnTypeOK, Exchanged, connVars, Links, Link, AskedOnce, Exchange!exchangeVars
<1> QED BY <1>1, ConnectionExchange, RequestExchange, ResponseExchange DEF ConnectionsMove

LEMMA InitExchange == ConnInit => XInv /\ Exchange!ExchangeInit
  BY DEF ConnInit, XInv, ConnTypeOK, Stages, Exchanged, Links, Link, AskedOnce,
      Exchange!ExchangeInit

(* What the service does to connections; the one it responds to waits.     *)
LEMMA NextMoves == MInv /\ [Next]_vars => ConnectionsMove
<1> SUFFICES ASSUME MInv, [Next]_vars PROVE ConnectionsMove
  OBVIOUS
<1>1. ASSUME NEW c \in Conns, ProcessRequest(c) PROVE ConnectionsMove
  <2>1. /\ \A k : ImageOf(k) # NoRequest
        /\ \A k, a : ResetOf(k, a) # NoRequest
        /\ TimeRequest # NoRequest /\ AtOnce # NoRequest
    BY DEF ImageOf, ResetOf, TimeRequest, AtOnce, NoRequest
  <2>2. PICK r \in Requests, s \in {"replying", "waiting"} : r # NoRequest /\ ReadRequest(c, r, s)
    BY <1>1, <2>1 DEF ProcessRequest, ReadImage, ReadReset, ReadTime, ReadAtOnce
  <2> QED BY <2>2 DEF ConnectionsMove
<1>2. CASE RespondToAnswer
  <2>1. answers # <<>> /\ Respond(Head(answers).mail.client)
    BY <1>2 DEF RespondToAnswer, TakeAnswer
  <2>2. PICK c : c = Head(answers).mail.client
    OBVIOUS
  <2>3. c \in Conns /\ stage[c] = "waiting"
    BY <2>1, <2>2, HeadOfAnswers
  <2> QED BY <2>1, <2>2, <2>3 DEF ConnectionsMove
<1>3. CASE RespondWithTime
  <2>1. timeAnswers # <<>> /\ Respond(Head(timeAnswers))
    BY <1>3 DEF RespondWithTime
  <2>2. PICK c : c = Head(timeAnswers)
    OBVIOUS
  <2>3. /\ timeAnswers \in Seq(Conns)
        /\ \A d \in Conns : OneMail(d) /\ Single(timeAnswers, Itself[d])
    BY DEF MInv, Types, OneMail, Singles
  <2>4. c \in Conns /\ Some(timeAnswers, Itself[c])
    BY <2>1, <2>2, <2>3, HeadOfTime
  <2>5. At(c, <<"timeAnswers", 0>>)
    BY <2>4 DEF At
  <2>6. stage[c] = "waiting"
    BY <2>3, <2>4, <2>5 DEF OneMail, HasMail
  <2> QED BY <2>1, <2>2, <2>4, <2>6 DEF ConnectionsMove
<1>4. ASSUME NEW c \in Conns, Connection(c) PROVE ConnectionsMove
  BY <1>4 DEF Connection, ConnectionsMove
<1>5. ASSUME \/ AskTime \/ TimeServiceReceives \/ UNCHANGED vars
             \/ \E t \in Threads : CameraReaderRuns(t)
      PROVE  UNCHANGED connVars
  BY <1>5 DEF AskTime, TimeServiceReceives, CameraReaderRuns, vars
<1> QED BY <1>1, <1>2, <1>3, <1>4, <1>5 DEF Next, ServiceRuns, ConnectionsMove

(* The service implements RequestResponse: each client is answered once at *)
(* most, for what it asked and while the service holds its connection,     *)
(* whatever becomes of its mail on strands, threads and the time service.  *)
THEOREM ConnectionsExchange == Spec => ExchangeSpec
<1>1. Init => XInv /\ Exchange!ExchangeInit
  BY InitExchange DEF Init
<1>2. MInv /\ XInv /\ [Next]_vars => XInv' /\ [Exchange!ExchangeNext]_(Exchange!exchangeVars)
  BY NextMoves, MovesExchange
<1> QED BY <1>1, <1>2, InitMail, NextKeepsMail, PTL
        DEF Spec, ExchangeSpec, Exchange!ExchangeSpec
=============================================================================
