------------------------ MODULE CmdServiceHttpProofs ------------------------
(***************************************************************************)
(* Theorems about CmdServiceHttp, for every set of connections, every set  *)
(* of packages and every choice of the other requests.                     *)
(***************************************************************************)
EXTENDS CmdServiceHttp, QueueLemmas, FiniteSetTheorems

-----------------------------------------------------------------------------
(* The inductive invariant.                                                *)
Of(c) == {m \in Mails : m.conn = c}
Written(c) == \E m \in writing : m.conn = c
HasMail(c) == Some(queue, Of(c)) \/ Some(mapQueue, Of(c)) \/ Written(c)

(* A connection's mail is in one place, once, and only while it waits; it  *)
(* is somewhere as long as it waits, if the map calculation is alive.      *)
OneMail(c) ==
  /\ Single(queue, Of(c)) /\ Single(mapQueue, Of(c))
  /\ \A m, n \in writing : m.conn = c /\ n.conn = c => m = n
  /\ Some(queue, Of(c)) => ~Some(mapQueue, Of(c)) /\ ~Written(c)
  /\ Some(mapQueue, Of(c)) => ~Written(c)
  /\ HasMail(c) => stage[c] = "waiting"
  /\ stage[c] = "waiting" /\ mapAlive => HasMail(c)

(* A connection that still waits for something was not responded to.       *)
Unanswered(c) == stage[c] \in {"none", "reading", "waiting", "idle"} => responses[c] = 0

IInv == TypeOK /\ \A c \in Conns : OneMail(c) /\ Unanswered(c)

LEMMA InitIInv == Init => IInv
<1> SUFFICES ASSUME Init PROVE IInv
  OBVIOUS
<1>1. TypeOK
  <2>1. stage \in [Conns -> Stages]
    BY DEF Init, ConnInit, Stages
  <2>2. request \in [Conns -> Requests \cup {NoRequest}]
    BY DEF Init, ConnInit
  <2>3. /\ socket \in [Conns -> BOOLEAN] /\ deadline \in [Conns -> BOOLEAN]
        /\ responses \in [Conns -> 0..1]
    BY DEF Init, ConnInit
  <2>4. queue \in Seq(Mails) /\ mapQueue \in Seq(Mails) /\ writing \subseteq Mails
    BY DEF Init
  <2>5. tagsIn \in Seq(Conns) /\ tagsOut \in Seq(Conns)
    BY DEF Init
  <2>6. mapAlive \in BOOLEAN /\ aborted \in {"no", "tag", "reader"}
    BY DEF Init
  <2> QED BY <2>1, <2>2, <2>3, <2>4, <2>5, <2>6 DEF TypeOK, ConnTypeOK
<1>2. ASSUME NEW c \in Conns PROVE OneMail(c) /\ Unanswered(c)
  <2>1. \A R : Single(<<>>, R) /\ ~Some(<<>>, R)
    BY DEF Some, Single
  <2>2. stage[c] = "none" /\ responses[c] = 0
    BY DEF Init, ConnInit
  <2> QED BY <2>1, <2>2 DEF Init, OneMail, Unanswered, HasMail, Written
<1> QED BY <1>1, <1>2 DEF IInv

-----------------------------------------------------------------------------
(* Steps of connections: of one that does not wait, before and after, or   *)
(* of its deadline.                                                        *)
LEMMA ConnectionKeeps ==
  ASSUME IInv, NEW c \in Conns, Connection(c)
  PROVE  IInv'
<1> USE DEF IInv, Connection, mailVars, tagVars
<1>1. TypeOK'
  BY DEF TypeOK, ConnTypeOK, ConnectionStep, Accept, ReadFails, ResponseWritten,
         DeadlineExpires, Become, Stages
<1>2. ASSUME NEW d \in Conns PROVE OneMail(d)'
  <2>1. stage'[d] = "waiting" <=> stage[d] = "waiting"
    BY DEF TypeOK, ConnTypeOK, ConnectionStep, Accept, ReadFails, ResponseWritten,
           DeadlineExpires, Become
  <2>2. OneMail(d)
    OBVIOUS
  <2> QED BY <2>1, <2>2 DEF OneMail, HasMail, Written, Some, Single
<1>3. ASSUME NEW d \in Conns PROVE Unanswered(d)'
  BY DEF Unanswered, TypeOK, ConnTypeOK, ConnectionStep, Accept, ReadFails,
         ResponseWritten, DeadlineExpires, Become
<1> QED BY <1>1, <1>2, <1>3

(* A request that its handler answers or forgets at once: no mail.         *)
LEMMA RequestWithoutMail ==
  ASSUME IInv, NEW c \in Conns, NEW r \in Requests, NEW s \in {"replying", "idle"},
         ReadRequest(c, r, s), UNCHANGED <<queue, mapQueue, writing, mapAlive>>
  PROVE  /\ ConnTypeOK(Requests)'
         /\ \A d \in Conns : OneMail(d)' /\ Unanswered(d)'
<1> USE DEF IInv
<1>1. ConnTypeOK(Requests)'
  <2>1. responses[c] = 0
    BY DEF Unanswered, ReadRequest
  <2> QED BY <2>1 DEF TypeOK, ConnTypeOK, ReadRequest, Become, Stages
<1>2. ASSUME NEW d \in Conns PROVE OneMail(d)' /\ Unanswered(d)'
  <2>1. stage'[d] = "waiting" <=> stage[d] = "waiting"
    BY DEF TypeOK, ConnTypeOK, ReadRequest, Become
  <2>2. OneMail(d)'
    BY <2>1 DEF OneMail, HasMail, Written, Some, Single
  <2>3. Unanswered(d)'
    BY DEF Unanswered, TypeOK, ConnTypeOK, ReadRequest, Become
  <2> QED BY <2>2, <2>3
<1> QED BY <1>1, <1>2

(* A request that is passed on: its connection waits, and has one mail.    *)
LEMMA RequestWithMail ==
  ASSUME IInv, NEW c \in Conns, NEW r \in Requests, NEW step \in Steps,
         ReadRequest(c, r, "waiting"), PostToSerial(c, step),
         UNCHANGED <<mapQueue, writing, mapAlive>>
  PROVE  /\ ConnTypeOK(Requests)' /\ queue' \in Seq(Mails)
         /\ \A d \in Conns : OneMail(d)' /\ Unanswered(d)'
<1> USE DEF IInv
<1> DEFINE m == Mail("serial", c, step)
<1>1. ConnTypeOK(Requests)'
  BY DEF TypeOK, ConnTypeOK, ReadRequest, Become, Stages
<1>2. m \in Mails /\ m.conn = c
  BY DEF Mail, Mails
<1>3. queue \in Seq(Mails) /\ queue' = Append(queue, m)
  BY DEF TypeOK, PostToSerial
<1>4. ~HasMail(c) /\ \A d \in Conns : OneMail(d)
  BY DEF ReadRequest, OneMail
<1>5. ASSUME NEW d \in Conns
      PROVE  /\ queue' \in Seq(Mails) /\ Single(queue', Of(d))
             /\ Some(queue', Of(d)) <=> Some(queue, Of(d)) \/ m \in Of(d)
  <2>1. Single(queue, Of(d)) /\ (m \in Of(d) => ~Some(queue, Of(d)))
    BY <1>2, <1>4 DEF OneMail, HasMail, Of
  <2> HIDE DEF m
  <2> QED BY <1>2, <1>3, <2>1, AppendEntries
<1>6. ASSUME NEW d \in Conns PROVE OneMail(d)' /\ Unanswered(d)'
  <2>1. m \in Of(d) <=> d = c
    BY <1>2 DEF Of
  <2>2. stage'[d] = IF d = c THEN "waiting" ELSE stage[d]
    BY DEF TypeOK, ConnTypeOK, ReadRequest, Become
  <2>3. Some(mapQueue, Of(d))' <=> Some(mapQueue, Of(d))
    BY DEF Some
  <2>4. Single(mapQueue, Of(d))' <=> Single(mapQueue, Of(d))
    BY DEF Single
  <2>5. Written(d)' <=> Written(d)
    BY DEF Written
  <2>6. OneMail(d)'
    <3> HIDE DEF m
    <3> QED BY <1>4, <1>5, <2>1, <2>2, <2>3, <2>4, <2>5 DEF OneMail, HasMail
  <2>7. Unanswered(d)'
    BY DEF Unanswered, TypeOK, ConnTypeOK, ReadRequest, Become
  <2> QED BY <2>6, <2>7
<1>7. queue' \in Seq(Mails)
  BY <1>5
<1> QED BY <1>1, <1>6, <1>7

LEMMA RequestKeeps ==
  ASSUME IInv, NEW c \in Conns, ProcessRequest(c)
  PROVE  IInv'
<1>1. /\ UNCHANGED <<mapQueue, writing, mapAlive, aborted, tagsOut>>
      /\ queue \in Seq(Mails) /\ mapQueue \in Seq(Mails) /\ writing \subseteq Mails
      /\ mapAlive \in BOOLEAN /\ aborted \in {"no", "tag", "reader"}
      /\ tagsIn \in Seq(Conns) /\ tagsOut \in Seq(Conns)
  BY DEF ProcessRequest, IInv, TypeOK
<1>2. \A k \in OtherKinds : Request(k) \in Requests
  BY DEF Requests
<1>3. \A p \in Commands : CmdRequest(p) \in Requests
  BY DEF Requests
<1>4. {"cmd", "state", "tagState"} \subseteq Steps
  BY DEF Steps
<1>5. CASE "atOnce" \in OtherKinds /\ ReadAtOnce(c)
  <2>1. /\ ConnTypeOK(Requests)' /\ UNCHANGED <<queue, tagsIn>>
        /\ \A d \in Conns : OneMail(d)' /\ Unanswered(d)'
    BY <1>1, <1>2, <1>5, RequestWithoutMail DEF ReadAtOnce
  <2> QED BY <1>1, <2>1 DEF IInv, TypeOK
<1>6. CASE "badTag" \in OtherKinds /\ ReadBadTag(c)
  <2>1. /\ ConnTypeOK(Requests)' /\ UNCHANGED <<queue, tagsIn>>
        /\ \A d \in Conns : OneMail(d)' /\ Unanswered(d)'
    BY <1>1, <1>2, <1>6, RequestWithoutMail DEF ReadBadTag
  <2> QED BY <1>1, <2>1 DEF IInv, TypeOK
<1>7. ASSUME NEW p \in Commands, ReadCommand(c, p) PROVE IInv'
  <2>1. UNCHANGED tagsIn
    BY <1>7 DEF ReadCommand
  <2>2. CASE ReadRequest(c, CmdRequest(p), "idle") /\ UNCHANGED queue
    <3>1. /\ ConnTypeOK(Requests)'
          /\ \A d \in Conns : OneMail(d)' /\ Unanswered(d)'
      BY <1>1, <1>3, <2>2, RequestWithoutMail
    <3> QED BY <1>1, <2>1, <2>2, <3>1 DEF IInv, TypeOK
  <2>3. CASE ReadRequest(c, CmdRequest(p), "waiting") /\ PostToSerial(c, "cmd")
    <3>1. /\ ConnTypeOK(Requests)' /\ queue' \in Seq(Mails)
          /\ \A d \in Conns : OneMail(d)' /\ Unanswered(d)'
      BY <1>1, <1>3, <1>4, <2>3, RequestWithMail
    <3> QED BY <1>1, <2>1, <3>1 DEF IInv, TypeOK
  <2> QED BY <1>7, <2>2, <2>3 DEF ReadCommand
<1>8. CASE "state" \in OtherKinds /\ ReadState(c)
  <2>1. /\ ConnTypeOK(Requests)' /\ queue' \in Seq(Mails) /\ UNCHANGED tagsIn
        /\ \A d \in Conns : OneMail(d)' /\ Unanswered(d)'
    BY <1>1, <1>2, <1>4, <1>8, RequestWithMail DEF ReadState
  <2> QED BY <1>1, <2>1 DEF IInv, TypeOK
<1>9. CASE ReadTag(c)
  <2>1. PICK k \in OtherKinds : ReadRequest(c, Request(k), "waiting")
    BY <1>9 DEF ReadTag
  <2>2. PostToSerial(c, "tagState") /\ tagsIn' = Append(tagsIn, c)
    BY <1>9 DEF ReadTag
  <2>3. /\ ConnTypeOK(Requests)' /\ queue' \in Seq(Mails)
        /\ \A d \in Conns : OneMail(d)' /\ Unanswered(d)'
    BY <1>1, <1>2, <1>4, <2>1, <2>2, RequestWithMail
  <2>4. tagsIn' \in Seq(Conns)
    BY <1>1, <2>2
  <2> QED BY <1>1, <2>3, <2>4 DEF IInv, TypeOK
<1> QED BY <1>5, <1>6, <1>7, <1>8, <1>9 DEF ProcessRequest

-----------------------------------------------------------------------------
(* A mail moves: off the head of the queue, ...                            *)
LEMMA HeadMail ==
  ASSUME IInv, queue # <<>>, NEW c, c = Head(queue).conn
  PROVE  /\ Head(queue) \in Mails /\ c \in Conns
         /\ Tail(queue) \in Seq(Mails) /\ stage[c] = "waiting"
         /\ ~Some(mapQueue, Of(c)) /\ ~Written(c)
         /\ \A d \in Conns :
              /\ Single(Tail(queue), Of(d))
              /\ Some(Tail(queue), Of(d)) <=> Some(queue, Of(d)) /\ d # c
<1>1. queue \in Seq(Mails)
  BY DEF IInv, TypeOK
<1>2. Head(queue) \in Mails /\ Tail(queue) \in Seq(Mails)
  BY <1>1
<1>3. c \in Conns
  BY <1>2 DEF Mails
<1>4. \A d \in Conns : OneMail(d) /\ (Head(queue) \in Of(d) <=> d = c)
  BY <1>2 DEF IInv, Of
<1>5. ASSUME NEW d \in Conns
      PROVE  /\ Single(Tail(queue), Of(d))
             /\ Some(Tail(queue), Of(d)) <=> Some(queue, Of(d)) /\ Head(queue) \notin Of(d)
             /\ Head(queue) \in Of(d) => Some(queue, Of(d))
  <2>1. Single(queue, Of(d))
    BY <1>4 DEF OneMail
  <2> QED BY <1>1, <2>1, TailEntries
<1>6. Some(queue, Of(c))
  BY <1>3, <1>4, <1>5
<1> QED BY <1>2, <1>3, <1>4, <1>5, <1>6 DEF OneMail, HasMail

(* ... off the head of the queue of the map calculation, ...               *)
LEMMA MapHeadMail ==
  ASSUME IInv, mapQueue # <<>>, NEW c, c = Head(mapQueue).conn
  PROVE  /\ Head(mapQueue) \in Mails /\ c \in Conns
         /\ Tail(mapQueue) \in Seq(Mails) /\ stage[c] = "waiting"
         /\ ~Some(queue, Of(c)) /\ ~Written(c)
         /\ \A d \in Conns :
              /\ Single(Tail(mapQueue), Of(d))
              /\ Some(Tail(mapQueue), Of(d)) <=> Some(mapQueue, Of(d)) /\ d # c
<1>1. mapQueue \in Seq(Mails)
  BY DEF IInv, TypeOK
<1>2. Head(mapQueue) \in Mails /\ Tail(mapQueue) \in Seq(Mails)
  BY <1>1
<1>3. c \in Conns
  BY <1>2 DEF Mails
<1>4. \A d \in Conns : OneMail(d) /\ (Head(mapQueue) \in Of(d) <=> d = c)
  BY <1>2 DEF IInv, Of
<1>5. ASSUME NEW d \in Conns
      PROVE  /\ Single(Tail(mapQueue), Of(d))
             /\ Some(Tail(mapQueue), Of(d))
                  <=> Some(mapQueue, Of(d)) /\ Head(mapQueue) \notin Of(d)
             /\ Head(mapQueue) \in Of(d) => Some(mapQueue, Of(d))
  <2>1. Single(mapQueue, Of(d))
    BY <1>4 DEF OneMail
  <2> QED BY <1>1, <2>1, TailEntries
<1>6. Some(mapQueue, Of(c))
  BY <1>3, <1>4, <1>5
<1> QED BY <1>2, <1>3, <1>4, <1>5, <1>6 DEF OneMail, HasMail

(* ... and to the end of one, where its connection has no other.           *)
LEMMA PostMail ==
  ASSUME NEW q \in Seq(Mails), NEW m \in Mails,
         \A d \in Conns : Single(q, Of(d)), ~Some(q, Of(m.conn))
  PROVE  /\ Append(q, m) \in Seq(Mails)
         /\ \A d \in Conns :
              /\ Single(Append(q, m), Of(d))
              /\ Some(Append(q, m), Of(d)) <=> Some(q, Of(d)) \/ d = m.conn
<1>1. ASSUME NEW d \in Conns
      PROVE  /\ Append(q, m) \in Seq(Mails) /\ Single(Append(q, m), Of(d))
             /\ Some(Append(q, m), Of(d)) <=> Some(q, Of(d)) \/ d = m.conn
  <2>1. m \in Of(d) <=> d = m.conn
    BY DEF Of
  <2>2. m \in Of(d) => ~Some(q, Of(d))
    BY <2>1
  <2> QED BY <2>1, <2>2, AppendEntries
<1> QED BY <1>1

(* What follows for every connection when the mail of c moves and nothing  *)
(* else does: c has it in one place, or waits no longer, or the map        *)
(* calculation died on it.                                                 *)
LEMMA MailMoves ==
  ASSUME IInv, NEW c \in Conns, stage[c] = "waiting",
         \A d \in Conns \ {c} :
           /\ Some(queue', Of(d)) <=> Some(queue, Of(d))
           /\ Some(mapQueue', Of(d)) <=> Some(mapQueue, Of(d))
           /\ Written(d)' <=> Written(d)
           /\ stage'[d] = stage[d] /\ responses'[d] = responses[d],
         \A d \in Conns :
           /\ Single(queue', Of(d)) /\ Single(mapQueue', Of(d))
           /\ \A m, n \in writing' : m.conn = d /\ n.conn = d => m = n,
         Some(queue', Of(c)) => ~Some(mapQueue', Of(c)) /\ ~Written(c)',
         Some(mapQueue', Of(c)) => ~Written(c)',
         HasMail(c)' => stage'[c] = "waiting",
         stage'[c] = "waiting" => (HasMail(c)' \/ ~mapAlive') /\ responses'[c] = 0,
         stage'[c] \in {"waiting", "replying"},
         mapAlive' => mapAlive
  PROVE  \A d \in Conns : OneMail(d)' /\ Unanswered(d)'
<1>1. \A d \in Conns : OneMail(d) /\ Unanswered(d)
  BY DEF IInv
<1>2. ASSUME NEW d \in Conns, d # c PROVE OneMail(d)' /\ Unanswered(d)'
  BY <1>1, <1>2 DEF OneMail, HasMail, Unanswered
<1>3. OneMail(c)' /\ Unanswered(c)'
  BY DEF OneMail, HasMail, Unanswered
<1> QED BY <1>2, <1>3

-----------------------------------------------------------------------------
(* The ways a mail moves.  The first one of the queue is answered, or its  *)
(* chain goes on, behind all the others of the queue; ...                  *)
LEMMA Requeued ==
  ASSUME IInv, queue # <<>>, NEW c, c = Head(queue).conn,
         NEW a \in Mails, a.conn = c, queue' = Append(Tail(queue), a),
         UNCHANGED <<connVars, mapQueue, writing, mapAlive>>
  PROVE  queue' \in Seq(Mails) /\ \A d \in Conns : OneMail(d)' /\ Unanswered(d)'
<1>1. /\ c \in Conns /\ stage[c] = "waiting"
      /\ Tail(queue) \in Seq(Mails)
      /\ ~Some(mapQueue, Of(c)) /\ ~Written(c)
      /\ \A d \in Conns :
           /\ Single(Tail(queue), Of(d))
           /\ Some(Tail(queue), Of(d)) <=> Some(queue, Of(d)) /\ d # c
  BY HeadMail
<1>2. \A d \in Conns : OneMail(d) /\ Unanswered(d)
  BY DEF IInv
<1>3. ~Some(Tail(queue), Of(a.conn))
  BY <1>1
<1>4. /\ queue' \in Seq(Mails)
      /\ \A d \in Conns :
           /\ Single(queue', Of(d))
           /\ Some(queue', Of(d)) <=> Some(queue, Of(d)) \/ d = c
  BY <1>1, <1>3, PostMail
<1>5. /\ \A d \in Conns : Written(d)' <=> Written(d)
      /\ mapQueue' = mapQueue /\ mapAlive' = mapAlive
      /\ stage' = stage /\ responses' = responses
  BY DEF Written, connVars
<1>6. \A d \in Conns : /\ Single(mapQueue', Of(d))
                       /\ \A k, n \in writing' : k.conn = d /\ n.conn = d => k = n
  BY <1>2, <1>5 DEF OneMail
<1>7. HasMail(c)' /\ ~Some(mapQueue', Of(c)) /\ ~Written(c)'
  BY <1>1, <1>4, <1>5 DEF HasMail
<1>8. responses[c] = 0
  BY <1>1, <1>2 DEF Unanswered
<1>9. \A d \in Conns : OneMail(d)' /\ Unanswered(d)'
  BY <1>1, <1>4, <1>5, <1>6, <1>7, <1>8, MailMoves
<1> QED BY <1>4, <1>9

(* ... its frame is written; ...                                           *)
LEMMA PutOnWire ==
  ASSUME IInv, queue # <<>>, queue' = Tail(queue), writing' = writing \cup {Head(queue)},
         UNCHANGED <<connVars, mapQueue, mapAlive>>
  PROVE  /\ queue' \in Seq(Mails) /\ writing' \subseteq Mails
         /\ \A d \in Conns : OneMail(d)' /\ Unanswered(d)'
<1>1. PICK c : c = Head(queue).conn
  OBVIOUS
<1>2. /\ c \in Conns /\ stage[c] = "waiting"
      /\ queue' \in Seq(Mails) /\ Head(queue) \in Mails
      /\ ~Some(mapQueue, Of(c)) /\ ~Written(c)
      /\ \A d \in Conns :
           /\ Single(queue', Of(d))
           /\ Some(queue', Of(d)) <=> Some(queue, Of(d)) /\ d # c
  BY <1>1, HeadMail
<1>3. \A d \in Conns : OneMail(d) /\ Unanswered(d)
  BY DEF IInv
<1>4. /\ \A d \in Conns : Written(d)' <=> Written(d) \/ d = c
      /\ mapQueue' = mapQueue /\ mapAlive' = mapAlive
      /\ stage' = stage /\ responses' = responses
  BY <1>1 DEF Written, connVars
<1>5. \A d \in Conns : /\ Single(mapQueue', Of(d))
                       /\ \A k, n \in writing' : k.conn = d /\ n.conn = d => k = n
  BY <1>1, <1>2, <1>3, <1>4 DEF OneMail, Written
<1>6. HasMail(c)' /\ ~Some(queue', Of(c)) /\ ~Some(mapQueue', Of(c))
  BY <1>2, <1>4 DEF HasMail
<1>7. responses[c] = 0
  BY <1>2, <1>3 DEF Unanswered
<1>8. \A d \in Conns : OneMail(d)' /\ Unanswered(d)'
  BY <1>2, <1>4, <1>5, <1>6, <1>7, MailMoves
<1>9. writing' \subseteq Mails
  BY <1>2 DEF IInv, TypeOK
<1> QED BY <1>2, <1>8, <1>9

(* ... the map calculation is asked; ...                                   *)
LEMMA PutToMap ==
  ASSUME IInv, queue # <<>>, NEW c, c = Head(queue).conn, queue' = Tail(queue),
         NEW a \in Mails, a.conn = c, mapQueue' = Append(mapQueue, a),
         UNCHANGED <<connVars, writing, mapAlive>>
  PROVE  /\ queue' \in Seq(Mails) /\ mapQueue' \in Seq(Mails)
         /\ \A d \in Conns : OneMail(d)' /\ Unanswered(d)'
<1>1. /\ c \in Conns /\ stage[c] = "waiting"
      /\ queue' \in Seq(Mails)
      /\ ~Some(mapQueue, Of(c)) /\ ~Written(c)
      /\ \A d \in Conns :
           /\ Single(queue', Of(d))
           /\ Some(queue', Of(d)) <=> Some(queue, Of(d)) /\ d # c
  BY HeadMail
<1>2. mapQueue \in Seq(Mails) /\ \A d \in Conns : OneMail(d) /\ Unanswered(d)
  BY DEF IInv, TypeOK
<1>3. \A d \in Conns : Single(mapQueue, Of(d))
  BY <1>2 DEF OneMail
<1>4. ~Some(mapQueue, Of(a.conn))
  BY <1>1
<1>5. /\ mapQueue' \in Seq(Mails)
      /\ \A d \in Conns :
           /\ Single(mapQueue', Of(d))
           /\ Some(mapQueue', Of(d)) <=> Some(mapQueue, Of(d)) \/ d = c
  BY <1>2, <1>3, <1>4, PostMail
<1>6. /\ \A d \in Conns : Written(d)' <=> Written(d)
      /\ mapAlive' = mapAlive /\ stage' = stage /\ responses' = responses
  BY DEF Written, connVars
<1>7. \A d \in Conns : \A k, n \in writing' : k.conn = d /\ n.conn = d => k = n
  BY <1>2 DEF OneMail
<1>8. HasMail(c)' /\ ~Some(queue', Of(c)) /\ ~Written(c)'
  BY <1>1, <1>5, <1>6 DEF HasMail
<1>9. responses[c] = 0
  BY <1>1, <1>2 DEF Unanswered
<1>10. \A d \in Conns : OneMail(d)' /\ Unanswered(d)'
  BY <1>1, <1>5, <1>6, <1>7, <1>8, <1>9, MailMoves
<1> QED BY <1>1, <1>5, <1>10

(* ... or it was the last answer, and the connection is responded to.      *)
LEMMA RespondedTo ==
  ASSUME IInv, queue # <<>>, Respond(conn), queue' = Tail(queue),
         UNCHANGED <<mapQueue, writing, mapAlive>>
  PROVE  /\ queue' \in Seq(Mails) /\ ConnTypeOK(Requests)'
         /\ \A d \in Conns : OneMail(d)' /\ Unanswered(d)'
<1>1. PICK c : c = Head(queue).conn
  OBVIOUS
<1>2. /\ c \in Conns /\ stage[c] = "waiting"
      /\ queue' \in Seq(Mails)
      /\ ~Some(mapQueue, Of(c)) /\ ~Written(c)
      /\ \A d \in Conns :
           /\ Single(queue', Of(d))
           /\ Some(queue', Of(d)) <=> Some(queue, Of(d)) /\ d # c
  BY <1>1, HeadMail
<1>3. ConnTypeOK(Requests) /\ \A d \in Conns : OneMail(d) /\ Unanswered(d)
  BY DEF IInv, TypeOK
<1>4. responses[c] = 0
  BY <1>2, <1>3 DEF Unanswered
<1>5. /\ stage' = [stage EXCEPT ![c] = "replying"]
      /\ responses' = [responses EXCEPT ![c] = @ + 1]
      /\ UNCHANGED <<request, socket, deadline>>
  BY <1>1 DEF Respond, Become, conn
<1>6. ConnTypeOK(Requests)'
  BY <1>2, <1>3, <1>4, <1>5 DEF ConnTypeOK, Stages
<1>7. /\ stage'[c] = "replying"
      /\ \A d \in Conns \ {c} : stage'[d] = stage[d] /\ responses'[d] = responses[d]
  BY <1>2, <1>3, <1>5 DEF ConnTypeOK
<1>8. /\ \A d \in Conns : Written(d)' <=> Written(d)
      /\ mapQueue' = mapQueue /\ mapAlive' = mapAlive
  BY DEF Written
<1>9. \A d \in Conns : /\ Single(mapQueue', Of(d))
                       /\ \A k, n \in writing' : k.conn = d /\ n.conn = d => k = n
  BY <1>3, <1>8 DEF OneMail
<1>10. ~HasMail(c)' /\ ~Some(queue', Of(c)) /\ ~Some(mapQueue', Of(c)) /\ ~Written(c)'
  BY <1>2, <1>8 DEF HasMail
<1>11. \A d \in Conns : OneMail(d)' /\ Unanswered(d)'
  BY <1>2, <1>7, <1>8, <1>9, <1>10, MailMoves
<1> QED BY <1>2, <1>6, <1>11

(* A frame was written: its answer is posted.                              *)
LEMMA OffTheWire ==
  ASSUME IInv, NEW m \in writing, NEW a \in Mails, a.conn = m.conn,
         queue' = Append(queue, a), writing' = writing \ {m},
         UNCHANGED <<connVars, mapQueue, mapAlive>>
  PROVE  /\ queue' \in Seq(Mails) /\ writing' \subseteq Mails
         /\ \A d \in Conns : OneMail(d)' /\ Unanswered(d)'
<1>1. PICK c : c = m.conn
  OBVIOUS
<1>2. /\ queue \in Seq(Mails) /\ writing \subseteq Mails
      /\ \A d \in Conns : OneMail(d) /\ Unanswered(d)
  BY DEF IInv, TypeOK
<1>3. c \in Conns
  BY <1>1, <1>2 DEF Mails
<1>4. Written(c) /\ ~Some(queue, Of(c)) /\ ~Some(mapQueue, Of(c)) /\ stage[c] = "waiting"
  BY <1>1, <1>2, <1>3 DEF Written, OneMail, HasMail
<1>5. \A d \in Conns : Single(queue, Of(d))
  BY <1>2 DEF OneMail
<1>6. ~Some(queue, Of(a.conn))
  BY <1>1, <1>4
<1>7. /\ queue' \in Seq(Mails)
      /\ \A d \in Conns :
           /\ Single(queue', Of(d))
           /\ Some(queue', Of(d)) <=> Some(queue, Of(d)) \/ d = c
  BY <1>1, <1>2, <1>5, <1>6, PostMail
<1>8. ~Written(c)'
  BY <1>1, <1>2, <1>3 DEF Written, OneMail
<1>9. /\ \A d \in Conns \ {c} : Written(d)' <=> Written(d)
      /\ mapQueue' = mapQueue /\ mapAlive' = mapAlive
      /\ stage' = stage /\ responses' = responses
  BY <1>1 DEF Written, connVars
<1>10. \A d \in Conns : /\ Single(mapQueue', Of(d))
                        /\ \A k, n \in writing' : k.conn = d /\ n.conn = d => k = n
  BY <1>2, <1>9 DEF OneMail
<1>11. HasMail(c)' /\ ~Some(mapQueue', Of(c))
  BY <1>3, <1>4, <1>7, <1>9 DEF HasMail
<1>12. responses[c] = 0
  BY <1>2, <1>3, <1>4 DEF Unanswered
<1>13. \A d \in Conns : OneMail(d)' /\ Unanswered(d)'
  BY <1>3, <1>4, <1>7, <1>8, <1>9, <1>10, <1>11, <1>12, MailMoves
<1> QED BY <1>2, <1>7, <1>13

(* The map calculation answers, ...                                        *)
LEMMA BackFromMap ==
  ASSUME IInv, mapQueue # <<>>, mapQueue' = Tail(mapQueue),
         NEW a \in Mails, a.conn = Head(mapQueue).conn, queue' = Append(queue, a),
         UNCHANGED <<connVars, writing, mapAlive>>
  PROVE  /\ queue' \in Seq(Mails) /\ mapQueue' \in Seq(Mails)
         /\ \A d \in Conns : OneMail(d)' /\ Unanswered(d)'
<1>1. PICK c : c = Head(mapQueue).conn
  OBVIOUS
<1>2. /\ c \in Conns /\ stage[c] = "waiting"
      /\ mapQueue' \in Seq(Mails)
      /\ ~Some(queue, Of(c)) /\ ~Written(c)
      /\ \A d \in Conns :
           /\ Single(mapQueue', Of(d))
           /\ Some(mapQueue', Of(d)) <=> Some(mapQueue, Of(d)) /\ d # c
  BY <1>1, MapHeadMail
<1>3. queue \in Seq(Mails) /\ \A d \in Conns : OneMail(d) /\ Unanswered(d)
  BY DEF IInv, TypeOK
<1>4. \A d \in Conns : Single(queue, Of(d))
  BY <1>3 DEF OneMail
<1>5. ~Some(queue, Of(a.conn))
  BY <1>1, <1>2
<1>6. /\ queue' \in Seq(Mails)
      /\ \A d \in Conns :
           /\ Single(queue', Of(d))
           /\ Some(queue', Of(d)) <=> Some(queue, Of(d)) \/ d = c
  BY <1>1, <1>3, <1>4, <1>5, PostMail
<1>7. /\ \A d \in Conns : Written(d)' <=> Written(d)
      /\ mapAlive' = mapAlive /\ stage' = stage /\ responses' = responses
  BY DEF Written, connVars
<1>8. \A d \in Conns : \A k, n \in writing' : k.conn = d /\ n.conn = d => k = n
  BY <1>3 DEF OneMail
<1>9. HasMail(c)' /\ ~Some(mapQueue', Of(c)) /\ ~Written(c)'
  BY <1>2, <1>6, <1>7 DEF HasMail
<1>10. responses[c] = 0
  BY <1>2, <1>3 DEF Unanswered
<1>11. \A d \in Conns : OneMail(d)' /\ Unanswered(d)'
  BY <1>2, <1>6, <1>7, <1>8, <1>9, <1>10, MailMoves
<1> QED BY <1>2, <1>6, <1>11

(* ... or dies on the mail.                                                *)
LEMMA LostInMap ==
  ASSUME IInv, mapQueue # <<>>, mapQueue' = Tail(mapQueue), mapAlive' = FALSE,
         UNCHANGED <<connVars, queue, writing>>
  PROVE  mapQueue' \in Seq(Mails) /\ \A d \in Conns : OneMail(d)' /\ Unanswered(d)'
<1>1. PICK c : c = Head(mapQueue).conn
  OBVIOUS
<1>2. /\ c \in Conns /\ stage[c] = "waiting"
      /\ mapQueue' \in Seq(Mails)
      /\ ~Some(queue, Of(c)) /\ ~Written(c)
      /\ \A d \in Conns :
           /\ Single(mapQueue', Of(d))
           /\ Some(mapQueue', Of(d)) <=> Some(mapQueue, Of(d)) /\ d # c
  BY <1>1, MapHeadMail
<1>3. \A d \in Conns : OneMail(d) /\ Unanswered(d)
  BY DEF IInv
<1>4. /\ \A d \in Conns : Written(d)' <=> Written(d)
      /\ queue' = queue /\ ~mapAlive' /\ stage' = stage /\ responses' = responses
  BY DEF Written, connVars
<1>5. \A d \in Conns : /\ Single(queue', Of(d))
                       /\ \A k, n \in writing' : k.conn = d /\ n.conn = d => k = n
  BY <1>3, <1>4 DEF OneMail
<1>6. ~Some(queue', Of(c)) /\ ~Some(mapQueue', Of(c)) /\ ~Written(c)'
  BY <1>2, <1>4
<1>7. responses[c] = 0
  BY <1>2, <1>3 DEF Unanswered
<1>8. \A d \in Conns : OneMail(d)' /\ Unanswered(d)'
  BY <1>2, <1>4, <1>5, <1>6, <1>7, MailMoves DEF HasMail
<1> QED BY <1>2, <1>8

-----------------------------------------------------------------------------
(* Every step keeps the invariant.                                         *)
LEMMA StepKeepsIInv == IInv /\ [Next]_vars => IInv'
<1> SUFFICES ASSUME IInv, [Next]_vars PROVE IInv'
  OBVIOUS
<1>0. /\ ConnTypeOK(Requests)
      /\ queue \in Seq(Mails) /\ mapQueue \in Seq(Mails) /\ writing \subseteq Mails
      /\ mapAlive \in BOOLEAN /\ aborted \in {"no", "tag", "reader"}
      /\ tagsIn \in Seq(Conns) /\ tagsOut \in Seq(Conns)
  BY DEF IInv, TypeOK
<1>1. UNCHANGED connVars => ConnTypeOK(Requests)'
  BY <1>0 DEF ConnTypeOK, connVars
<1>2. \A m \in Mails, ok \in BOOLEAN : Answer(m, ok) \in Mails /\ Answer(m, ok).conn = m.conn
  BY DEF Answer, Mails
<1>3. queue # <<>> => Head(queue) \in Mails /\ conn \in Conns /\ Head(queue).conn = conn
  BY <1>0, HeadMail DEF conn
<1>4. mapQueue # <<>> => Head(mapQueue) \in Mails
  BY <1>0
<1>5. CASE SerialReceives
  <2>1. /\ queue # <<>> /\ tagsOut' \in Seq(Conns)
        /\ UNCHANGED <<connVars, mapQueue, mapAlive, aborted, tagsIn>>
    BY <1>0, <1>3, <1>5 DEF SerialReceives, conn
  <2>2. ASSUME NEW ok \in BOOLEAN, queue' = Append(Tail(queue), Answer(Head(queue), ok)),
               UNCHANGED writing
        PROVE  IInv'
    <3>1. queue' \in Seq(Mails) /\ \A d \in Conns : OneMail(d)' /\ Unanswered(d)'
      BY <1>2, <1>3, <2>1, <2>2, Requeued
    <3> QED BY <1>0, <1>1, <2>1, <2>2, <3>1 DEF IInv, TypeOK
  <2>3. CASE queue' = Tail(queue) /\ writing' = writing \cup {Head(queue)}
    <3>1. /\ queue' \in Seq(Mails) /\ writing' \subseteq Mails
          /\ \A d \in Conns : OneMail(d)' /\ Unanswered(d)'
      BY <2>1, <2>3, PutOnWire
    <3> QED BY <1>0, <1>1, <2>1, <3>1 DEF IInv, TypeOK
  <2> QED BY <1>5, <2>2, <2>3 DEF SerialReceives
<1>6. ASSUME NEW m \in writing, SerialWritten(m) PROVE IInv'
  <2>1. PICK ok \in BOOLEAN : queue' = Append(queue, Answer(m, ok))
    BY <1>6 DEF SerialWritten
  <2>2. /\ writing' = writing \ {m}
        /\ UNCHANGED <<connVars, mapQueue, mapAlive, aborted, tagsIn, tagsOut>>
    BY <1>6 DEF SerialWritten, tagVars
  <2>3. /\ queue' \in Seq(Mails) /\ writing' \subseteq Mails
        /\ \A d \in Conns : OneMail(d)' /\ Unanswered(d)'
    BY <1>0, <1>2, <2>1, <2>2, OffTheWire
  <2> QED BY <1>0, <1>1, <2>2, <2>3 DEF IInv, TypeOK
<1>7. CASE MapCalcReceives
  <2>1. PICK ok \in BOOLEAN : queue' = Append(queue, Answer(Head(mapQueue), ok))
    BY <1>7 DEF MapCalcReceives
  <2>2. /\ mapQueue # <<>> /\ mapQueue' = Tail(mapQueue)
        /\ UNCHANGED <<connVars, writing, mapAlive, aborted, tagsIn, tagsOut>>
    BY <1>7 DEF MapCalcReceives, tagVars
  <2>3. /\ queue' \in Seq(Mails) /\ mapQueue' \in Seq(Mails)
        /\ \A d \in Conns : OneMail(d)' /\ Unanswered(d)'
    BY <1>2, <1>4, <2>1, <2>2, BackFromMap
  <2> QED BY <1>0, <1>1, <2>2, <2>3 DEF IInv, TypeOK
<1>8. CASE MapCalcThrows
  <2>1. /\ mapQueue # <<>> /\ mapQueue' = Tail(mapQueue) /\ mapAlive' = FALSE
        /\ UNCHANGED <<connVars, queue, writing, aborted, tagsIn, tagsOut>>
    BY <1>8 DEF MapCalcThrows, tagVars
  <2>2. mapQueue' \in Seq(Mails) /\ \A d \in Conns : OneMail(d)' /\ Unanswered(d)'
    BY <2>1, LostInMap
  <2> QED BY <1>0, <1>1, <2>1, <2>2 DEF IInv, TypeOK
<1>9. CASE AnswerIsLast
  <2>1. /\ queue # <<>> /\ Respond(conn) /\ queue' = Tail(queue)
        /\ UNCHANGED <<mapQueue, writing, mapAlive, aborted, tagsIn, tagsOut>>
    BY <1>9 DEF AnswerIsLast, Runs, tagVars
  <2>2. /\ queue' \in Seq(Mails) /\ ConnTypeOK(Requests)'
        /\ \A d \in Conns : OneMail(d)' /\ Unanswered(d)'
    BY <2>1, RespondedTo
  <2> QED BY <1>0, <2>1, <2>2 DEF IInv, TypeOK
<1>10. CASE AskMap
  <2> DEFINE a == Mail("map", conn, IF Head(queue).step = "state" THEN "stateMap" ELSE "tagMap")
  <2>1. /\ queue # <<>> /\ queue' = Tail(queue) /\ mapQueue' = Append(mapQueue, a)
        /\ UNCHANGED <<connVars, writing, mapAlive, aborted, tagsIn, tagsOut>>
    BY <1>10 DEF AskMap, Runs, tagVars
  <2>2. a \in Mails /\ a.conn = Head(queue).conn
    BY <1>3, <2>1 DEF Mail, Mails, Steps
  <2> HIDE DEF a
  <2>3. /\ queue' \in Seq(Mails) /\ mapQueue' \in Seq(Mails)
        /\ \A d \in Conns : OneMail(d)' /\ Unanswered(d)'
    BY <2>1, <2>2, PutToMap
  <2> QED BY <1>0, <1>1, <2>1, <2>3 DEF IInv, TypeOK
<1>11. CASE AssertFails \/ ReaderStops
  <2>1. /\ aborted' \in {"tag", "reader"}
        /\ UNCHANGED <<connVars, queue, mapQueue, writing, mapAlive, tagsIn, tagsOut>>
    BY <1>11 DEF AssertFails, ReaderStops, mailVars, tagVars
  <2>2. ASSUME NEW d \in Conns PROVE OneMail(d)' /\ Unanswered(d)'
    BY <2>1 DEF IInv, OneMail, Unanswered, HasMail, Written, connVars
  <2> QED BY <1>0, <1>1, <2>1, <2>2 DEF IInv, TypeOK
<1>12. CASE SendTag
  <2> DEFINE a == Mail("serial", conn, "tag")
  <2>1. /\ queue # <<>> /\ queue' = Append(Tail(queue), a)
        /\ UNCHANGED <<connVars, mapQueue, writing, mapAlive, aborted, tagsIn, tagsOut>>
    BY <1>12 DEF SendTag, Runs, tagVars
  <2>2. a \in Mails /\ a.conn = Head(queue).conn
    BY <1>3, <2>1 DEF Mail, Mails, Steps
  <2> HIDE DEF a
  <2>3. queue' \in Seq(Mails) /\ \A d \in Conns : OneMail(d)' /\ Unanswered(d)'
    BY <2>1, <2>2, Requeued
  <2> QED BY <1>0, <1>1, <2>1, <2>3 DEF IInv, TypeOK
<1>13. CASE UNCHANGED vars
  <2>1. UNCHANGED <<connVars, queue, mapQueue, writing, mapAlive, aborted, tagsIn, tagsOut>>
    BY <1>13 DEF vars, mailVars, tagVars
  <2>2. ASSUME NEW d \in Conns PROVE OneMail(d)' /\ Unanswered(d)'
    BY <2>1 DEF IInv, OneMail, Unanswered, HasMail, Written, connVars
  <2> QED BY <1>0, <1>1, <2>1, <2>2 DEF IInv, TypeOK
<1>14. ASSUME NEW c \in Conns, ReadIllTypedTag(c) PROVE IInv'
  <2>1. /\ Request("illTypedTag") \in Requests /\ aborted' = "tag"
        /\ ReadRequest(c, Request("illTypedTag"), "idle")
        /\ UNCHANGED <<queue, mapQueue, writing, mapAlive, tagsIn, tagsOut>>
    BY <1>14 DEF ReadIllTypedTag, Requests, mailVars, tagVars
  <2>2. ConnTypeOK(Requests)' /\ \A d \in Conns : OneMail(d)' /\ Unanswered(d)'
    BY <2>1, RequestWithoutMail
  <2> QED BY <1>0, <2>1, <2>2 DEF IInv, TypeOK
<1> QED
  BY <1>5, <1>6, <1>7, <1>8, <1>9, <1>10, <1>11, <1>12, <1>13, <1>14, ConnectionKeeps,
     RequestKeeps
     DEF Next, RunHandler, RunMapHandler

-----------------------------------------------------------------------------
(* At most one of a kind is at most one position, ...                      *)
LEMMA OnePosition ==
  ASSUME NEW q \in Seq(Mails), NEW c, Single(q, Of(c))
  PROVE  Cardinality({i \in DOMAIN q : q[i].conn = c}) = IF Some(q, Of(c)) THEN 1 ELSE 0
<1> DEFINE P == {i \in DOMAIN q : q[i].conn = c}
<1>1. \A i \in DOMAIN q : q[i] \in Mails
  OBVIOUS
<1>2. P = {i \in DOMAIN q : q[i] \in Of(c)}
  BY <1>1 DEF Of
<1>3. CASE Some(q, Of(c))
  <2>1. PICK i \in DOMAIN q : q[i] \in Of(c)
    BY <1>3 DEF Some
  <2>2. P = {i}
    BY <1>2, <2>1 DEF Single
  <2> QED BY <1>3, <2>2, FS_Singleton
<1>4. CASE ~Some(q, Of(c))
  <2>1. P = {}
    BY <1>2, <1>4 DEF Some
  <2> QED BY <1>4, <2>1, FS_EmptySet
<1> QED BY <1>3, <1>4

(* ... and at most one frame of a connection is written.                   *)
LEMMA OneWrite ==
  ASSUME NEW c, \A m, n \in writing : m.conn = c /\ n.conn = c => m = n
  PROVE  Cardinality({m \in writing : m.conn = c}) = IF Written(c) THEN 1 ELSE 0
<1>1. CASE Written(c)
  <2>1. PICK m \in writing : m.conn = c
    BY <1>1 DEF Written
  <2>2. {n \in writing : n.conn = c} = {m}
    BY <2>1
  <2> QED BY <1>1, <2>2, FS_Singleton
<1>2. CASE ~Written(c)
  <2>1. {n \in writing : n.conn = c} = {}
    BY <1>2 DEF Written
  <2> QED BY <1>2, <2>1, FS_EmptySet
<1> QED BY <1>1, <1>2

(* A connection has one mail under way exactly while it waits, unless the  *)
(* map calculation died on it: whatever the serial controller, the map     *)
(* calculation, the deadlines and the clients do, no connection is         *)
(* answered twice and none that waits is forgotten.                        *)
THEOREM OneMailEach == Spec => []OneMailWhileWaiting
<1>1. IInv => OneMailWhileWaiting
  <2> SUFFICES ASSUME IInv PROVE OneMailWhileWaiting
    OBVIOUS
  <2>1. TypeOK /\ queue \in Seq(Mails) /\ mapQueue \in Seq(Mails)
    BY DEF IInv, TypeOK
  <2>2. ASSUME NEW c \in Conns
        PROVE  /\ InFlight(c) <= 1
               /\ InFlight(c) = 1 => stage[c] = "waiting"
               /\ stage[c] = "waiting" /\ mapAlive => InFlight(c) = 1
    <3>1. OneMail(c)
      BY DEF IInv
    <3>2. InFlight(c) = (IF Some(queue, Of(c)) THEN 1 ELSE 0)
                          + (IF Some(mapQueue, Of(c)) THEN 1 ELSE 0)
                          + (IF Written(c) THEN 1 ELSE 0)
      BY <2>1, <3>1, OnePosition, OneWrite DEF InFlight, OneMail
    <3>3. InFlight(c) = IF HasMail(c) THEN 1 ELSE 0
      BY <3>1, <3>2 DEF OneMail, HasMail
    <3> QED BY <3>1, <3>3 DEF OneMail
  <2> QED BY <2>1, <2>2 DEF OneMailWhileWaiting
<1> QED BY <1>1, InitIInv, StepKeepsIInv, PTL DEF Spec

-----------------------------------------------------------------------------
(* The order of tags.  A list of tags on its way has five places to pass,  *)
(* which its mail names: asking for the state, answered, asking the map    *)
(* calculation, answered, sent to the serial controller.                   *)
Tagging(m) == m.step \in {"tagState", "tagMap"} \/ (m.step = "tag" /\ m.at = "serial")
Rank(m) == IF m.step = "tagState" THEN (IF m.at = "serial" THEN 0 ELSE 1)
           ELSE IF m.step = "tagMap" THEN (IF m.at = "map" THEN 2 ELSE 3)
           ELSE 4

(* The tags on their way, in the two queues.                               *)
Flying(q, mq) ==
  {m \in Mails : Tagging(m) /\ (\/ \E i \in DOMAIN q : q[i] = m
                                \/ \E i \in DOMAIN mq : mq[i] = m)}

(* The order in which tags came in.                                        *)
CameIn(t, a)    == \E k \in DOMAIN t : t[k] = a
Before(t, a, b) == \E k, l \in DOMAIN t : k < l /\ t[k] = a /\ t[l] = b

(* A mail for the map calculation is in its queue, and no other is.        *)
Shape(q, mq) ==
  /\ \A i \in DOMAIN q : /\ q[i].at # "map"
                         /\ q[i].step \in {"stateMap", "tagMap"} => q[i].at = "service"
  /\ \A i \in DOMAIN mq : mq[i].at = "map" /\ mq[i].step \in {"stateMap", "tagMap"}

(* Whoever is ahead, in a later place or in front in the same, came first. *)
Lined(q, t) ==
  \A i, j \in DOMAIN q :
    i < j /\ Tagging(q[i]) /\ Tagging(q[j]) /\ Rank(q[i]) = Rank(q[j])
      => Before(t, q[i].conn, q[j].conn)
Ordered(q, mq, t) ==
  /\ \A m, n \in Flying(q, mq) : Rank(m) > Rank(n) => Before(t, m.conn, n.conn)
  /\ Lined(q, t) /\ Lined(mq, t)

(* A mail in front of all others of its place, and one behind them.        *)
Leads(h, F, t) ==
  \A n \in F : /\ Rank(n) <= Rank(h) => Before(t, h.conn, n.conn)
               /\ Rank(n) > Rank(h) => Before(t, n.conn, h.conn)
Follows(a, F, t) ==
  \A n \in F : /\ Rank(n) < Rank(a) => Before(t, a.conn, n.conn)
               /\ Rank(n) >= Rank(a) => Before(t, n.conn, a.conn)

LEMMA RankType == \A m : Rank(m) \in 0..4
BY DEF Rank

(* The head of a place goes behind the others of the next place.           *)
LEMMA LeadsFollows ==
  ASSUME NEW h, NEW a, NEW F, NEW t, Leads(h, F, t),
         a.conn = h.conn, Rank(a) = Rank(h) + 1
  PROVE  Follows(a, F, t)
BY RankType DEF Leads, Follows

(* Taking the head of a queue leaves the others in order.                  *)
LEMMA TailOrder ==
  ASSUME NEW q \in Seq(Mails), q # <<>>, NEW t, Lined(q, t)
  PROVE  /\ Lined(Tail(q), t)
         /\ \A i \in DOMAIN Tail(q) : \E j \in DOMAIN q : q[j] = Tail(q)[i]
         /\ \E j \in DOMAIN q : q[j] = Head(q)
         /\ \A i \in DOMAIN Tail(q) :
              Tagging(Head(q)) /\ Tagging(Tail(q)[i]) /\ Rank(Tail(q)[i]) = Rank(Head(q))
                => Before(t, Head(q).conn, Tail(q)[i].conn)
<1>1. /\ Len(q) \in Nat /\ Len(q) > 0 /\ DOMAIN q = 1..Len(q) /\ Head(q) = q[1]
      /\ DOMAIN Tail(q) = 1..(Len(q) - 1)
      /\ \A i \in 1..(Len(q) - 1) : Tail(q)[i] = q[i + 1]
  OBVIOUS
<1>2. 1 \in DOMAIN q /\ \A i \in DOMAIN Tail(q) :
        i \in Int /\ i + 1 \in DOMAIN q /\ 1 < i + 1 /\ Tail(q)[i] = q[i + 1]
  BY <1>1
<1>3. \A i, j \in DOMAIN Tail(q) : i < j => i + 1 < j + 1
  BY <1>2
<1>4. Lined(Tail(q), t)
  BY <1>2, <1>3 DEF Lined
<1>5. \A i \in DOMAIN Tail(q) :
        Tagging(q[1]) /\ Tagging(q[i + 1]) /\ Rank(q[i + 1]) = Rank(q[1])
          => Before(t, q[1].conn, q[i + 1].conn)
  BY <1>2 DEF Lined
<1> QED BY <1>1, <1>2, <1>4, <1>5

(* Posting behind the others keeps them in order.                          *)
LEMMA AppendOrder ==
  ASSUME NEW q \in Seq(Mails), NEW a \in Mails, NEW t, Lined(q, t),
         \A i \in DOMAIN q : Tagging(a) /\ Tagging(q[i]) /\ Rank(q[i]) = Rank(a)
                               => Before(t, q[i].conn, a.conn)
  PROVE  /\ Lined(Append(q, a), t)
         /\ \A i \in DOMAIN Append(q, a) :
              Append(q, a)[i] = a \/ \E j \in DOMAIN q : q[j] = Append(q, a)[i]
<1>1. /\ Len(q) \in Nat /\ DOMAIN q = 1..Len(q)
      /\ DOMAIN Append(q, a) = 1..(Len(q) + 1)
      /\ \A i \in 1..Len(q) : Append(q, a)[i] = q[i]
      /\ Append(q, a)[Len(q) + 1] = a
  OBVIOUS
<1>2. \A i, j \in DOMAIN Append(q, a) :
        i < j => /\ i \in DOMAIN q /\ Append(q, a)[i] = q[i]
                 /\ \/ j \in DOMAIN q /\ Append(q, a)[j] = q[j]
                    \/ Append(q, a)[j] = a
  BY <1>1
<1>3. Lined(Append(q, a), t)
  <2> SUFFICES ASSUME NEW i \in DOMAIN Append(q, a), NEW j \in DOMAIN Append(q, a), i < j,
                      Tagging(Append(q, a)[i]), Tagging(Append(q, a)[j]),
                      Rank(Append(q, a)[i]) = Rank(Append(q, a)[j])
               PROVE  Before(t, Append(q, a)[i].conn, Append(q, a)[j].conn)
    BY DEF Lined
  <2>1. i \in DOMAIN q /\ Append(q, a)[i] = q[i]
    BY <1>2
  <2>2. CASE j \in DOMAIN q /\ Append(q, a)[j] = q[j]
    BY <2>1, <2>2 DEF Lined
  <2>3. CASE Append(q, a)[j] = a
    BY <2>1, <2>3
  <2> QED BY <1>2, <2>2, <2>3
<1>4. \A i \in DOMAIN Append(q, a) :
        Append(q, a)[i] = a \/ \E j \in DOMAIN q : q[j] = Append(q, a)[i]
  BY <1>1
<1> QED BY <1>3, <1>4

-----------------------------------------------------------------------------
(* The same for both queues together.                                      *)
LEMMA TakeFromQueue ==
  ASSUME NEW q \in Seq(Mails), NEW mq \in Seq(Mails), q # <<>>, NEW t,
         Shape(q, mq), Ordered(q, mq, t)
  PROVE  /\ Shape(Tail(q), mq) /\ Ordered(Tail(q), mq, t)
         /\ Flying(Tail(q), mq) \subseteq Flying(q, mq)
         /\ Tagging(Head(q)) => /\ Head(q) \in Flying(q, mq)
                                /\ Leads(Head(q), Flying(Tail(q), mq), t)
<1>1. Lined(q, t) /\ Lined(mq, t)
  BY DEF Ordered
<1>2. /\ Lined(Tail(q), t)
      /\ \A i \in DOMAIN Tail(q) : \E j \in DOMAIN q : q[j] = Tail(q)[i]
      /\ \E j \in DOMAIN q : q[j] = Head(q)
      /\ \A i \in DOMAIN Tail(q) :
           Tagging(Head(q)) /\ Tagging(Tail(q)[i]) /\ Rank(Tail(q)[i]) = Rank(Head(q))
             => Before(t, Head(q).conn, Tail(q)[i].conn)
  BY <1>1, TailOrder
<1>3. Flying(Tail(q), mq) \subseteq Flying(q, mq)
  BY <1>2 DEF Flying
<1>4. Shape(Tail(q), mq)
  BY <1>2 DEF Shape
<1>5. Ordered(Tail(q), mq, t)
  BY <1>1, <1>2, <1>3 DEF Ordered
<1>6. ASSUME Tagging(Head(q))
      PROVE  Head(q) \in Flying(q, mq) /\ Leads(Head(q), Flying(Tail(q), mq), t)
  <2>1. Head(q) \in Mails
    OBVIOUS
  <2>2. Head(q) \in Flying(q, mq)
    BY <1>2, <1>6, <2>1 DEF Flying
  <2>3. ASSUME NEW n \in Flying(Tail(q), mq), Rank(n) = Rank(Head(q))
        PROVE  Before(t, Head(q).conn, n.conn)
    <3>1. CASE \E i \in DOMAIN Tail(q) : Tail(q)[i] = n
      BY <1>2, <1>6, <2>3, <3>1 DEF Flying
    <3>2. CASE \E i \in DOMAIN mq : mq[i] = n
      <4>1. n.at = "map" /\ n.step \in {"stateMap", "tagMap"} /\ Tagging(n)
        BY <2>3, <3>2 DEF Shape, Flying
      <4>2. Rank(n) = 2
        BY <4>1 DEF Rank, Tagging
      <4>3. Head(q).at # "map"
        BY <1>2 DEF Shape
      <4>4. Rank(Head(q)) # 2
        BY <4>3 DEF Rank
      <4> QED BY <2>3, <4>2, <4>4
    <3> QED BY <2>3, <3>1, <3>2 DEF Flying
  <2>4. Leads(Head(q), Flying(Tail(q), mq), t)
    BY <1>3, <2>2, <2>3, RankType DEF Leads, Ordered
  <2> QED BY <2>2, <2>4
<1> QED BY <1>3, <1>4, <1>5, <1>6

LEMMA TakeFromMap ==
  ASSUME NEW q \in Seq(Mails), NEW mq \in Seq(Mails), mq # <<>>, NEW t,
         Shape(q, mq), Ordered(q, mq, t)
  PROVE  /\ Shape(q, Tail(mq)) /\ Ordered(q, Tail(mq), t)
         /\ Flying(q, Tail(mq)) \subseteq Flying(q, mq)
         /\ Head(mq).at = "map" /\ Head(mq).step \in {"stateMap", "tagMap"}
         /\ Tagging(Head(mq)) => /\ Head(mq) \in Flying(q, mq)
                                 /\ Leads(Head(mq), Flying(q, Tail(mq)), t)
<1>1. Lined(q, t) /\ Lined(mq, t)
  BY DEF Ordered
<1>2. /\ Lined(Tail(mq), t)
      /\ \A i \in DOMAIN Tail(mq) : \E j \in DOMAIN mq : mq[j] = Tail(mq)[i]
      /\ \E j \in DOMAIN mq : mq[j] = Head(mq)
      /\ \A i \in DOMAIN Tail(mq) :
           Tagging(Head(mq)) /\ Tagging(Tail(mq)[i]) /\ Rank(Tail(mq)[i]) = Rank(Head(mq))
             => Before(t, Head(mq).conn, Tail(mq)[i].conn)
  BY <1>1, TailOrder
<1>3. Flying(q, Tail(mq)) \subseteq Flying(q, mq)
  BY <1>2 DEF Flying
<1>4. Shape(q, Tail(mq)) /\ Head(mq).at = "map" /\ Head(mq).step \in {"stateMap", "tagMap"}
  BY <1>2 DEF Shape
<1>5. Ordered(q, Tail(mq), t)
  BY <1>1, <1>2, <1>3 DEF Ordered
<1>6. ASSUME Tagging(Head(mq))
      PROVE  Head(mq) \in Flying(q, mq) /\ Leads(Head(mq), Flying(q, Tail(mq)), t)
  <2>1. Head(mq) \in Mails
    OBVIOUS
  <2>2. Head(mq) \in Flying(q, mq)
    BY <1>2, <1>6, <2>1 DEF Flying
  <2>3. ASSUME NEW n \in Flying(q, Tail(mq)), Rank(n) = Rank(Head(mq))
        PROVE  Before(t, Head(mq).conn, n.conn)
    <3>1. CASE \E i \in DOMAIN Tail(mq) : Tail(mq)[i] = n
      BY <1>2, <1>6, <2>3, <3>1 DEF Flying
    <3>2. CASE \E i \in DOMAIN q : q[i] = n
      <4>1. n.at # "map"
        BY <3>2 DEF Shape
      <4>2. Rank(n) # 2
        BY <4>1 DEF Rank
      <4>3. Rank(Head(mq)) = 2
        BY <1>4, <1>6 DEF Rank, Tagging
      <4> QED BY <2>3, <4>2, <4>3
    <3> QED BY <2>3, <3>1, <3>2 DEF Flying
  <2>4. Leads(Head(mq), Flying(q, Tail(mq)), t)
    BY <1>3, <2>2, <2>3, RankType DEF Leads, Ordered
  <2> QED BY <2>2, <2>4
<1> QED BY <1>3, <1>4, <1>5, <1>6

LEMMA PostToQueue ==
  ASSUME NEW q \in Seq(Mails), NEW mq \in Seq(Mails), NEW a \in Mails, NEW t,
         Shape(q, mq), Ordered(q, mq, t),
         a.at # "map", a.step \in {"stateMap", "tagMap"} => a.at = "service",
         Tagging(a) => Follows(a, Flying(q, mq), t)
  PROVE  /\ Shape(Append(q, a), mq) /\ Ordered(Append(q, a), mq, t)
         /\ \A n \in Flying(Append(q, a), mq) : n \in Flying(q, mq) \/ n = a
<1>1. Lined(q, t) /\ Lined(mq, t)
  BY DEF Ordered
<1>2. \A i \in DOMAIN q : Tagging(q[i]) => q[i] \in Flying(q, mq)
  BY DEF Flying
<1>3. /\ Lined(Append(q, a), t)
      /\ \A i \in DOMAIN Append(q, a) :
           Append(q, a)[i] = a \/ \E j \in DOMAIN q : q[j] = Append(q, a)[i]
  <2>1. \A i \in DOMAIN q : Tagging(a) /\ Tagging(q[i]) /\ Rank(q[i]) = Rank(a)
                              => Before(t, q[i].conn, a.conn)
    BY <1>2, RankType DEF Follows
  <2> QED BY <1>1, <2>1, AppendOrder
<1>4. \A n \in Flying(Append(q, a), mq) : Tagging(n) /\ (n \in Flying(q, mq) \/ n = a)
  BY <1>3 DEF Flying
<1>5. Shape(Append(q, a), mq)
  BY <1>3 DEF Shape
<1>6. Ordered(Append(q, a), mq, t)
  <2>1. ASSUME NEW m \in Flying(Append(q, a), mq),
               NEW n \in Flying(Append(q, a), mq), Rank(m) > Rank(n)
        PROVE  Before(t, m.conn, n.conn)
    <3>1. Rank(m) \in Int /\ Rank(n) \in Int /\ Rank(a) \in Int
      BY RankType
    <3>2. CASE m = a
      BY <1>4, <2>1, <3>1, <3>2 DEF Follows
    <3>3. CASE n = a
      BY <1>4, <2>1, <3>1, <3>3 DEF Follows
    <3>4. CASE m # a /\ n # a
      BY <1>4, <2>1, <3>4 DEF Ordered
    <3> QED BY <3>2, <3>3, <3>4
  <2> QED BY <1>1, <1>3, <2>1 DEF Ordered
<1> QED BY <1>4, <1>5, <1>6

LEMMA PostToMap ==
  ASSUME NEW q \in Seq(Mails), NEW mq \in Seq(Mails), NEW a \in Mails, NEW t,
         Shape(q, mq), Ordered(q, mq, t),
         a.at = "map", a.step \in {"stateMap", "tagMap"},
         Tagging(a) => Follows(a, Flying(q, mq), t)
  PROVE  /\ Shape(q, Append(mq, a)) /\ Ordered(q, Append(mq, a), t)
         /\ \A n \in Flying(q, Append(mq, a)) : n \in Flying(q, mq) \/ n = a
<1>1. Lined(q, t) /\ Lined(mq, t)
  BY DEF Ordered
<1>2. \A i \in DOMAIN mq : Tagging(mq[i]) => mq[i] \in Flying(q, mq)
  BY DEF Flying
<1>3. /\ Lined(Append(mq, a), t)
      /\ \A i \in DOMAIN Append(mq, a) :
           Append(mq, a)[i] = a \/ \E j \in DOMAIN mq : mq[j] = Append(mq, a)[i]
  <2>1. \A i \in DOMAIN mq : Tagging(a) /\ Tagging(mq[i]) /\ Rank(mq[i]) = Rank(a)
                               => Before(t, mq[i].conn, a.conn)
    BY <1>2, RankType DEF Follows
  <2> QED BY <1>1, <2>1, AppendOrder
<1>4. \A n \in Flying(q, Append(mq, a)) : Tagging(n) /\ (n \in Flying(q, mq) \/ n = a)
  BY <1>3 DEF Flying
<1>5. Shape(q, Append(mq, a))
  BY <1>3 DEF Shape
<1>6. Ordered(q, Append(mq, a), t)
  <2>1. ASSUME NEW m \in Flying(q, Append(mq, a)),
               NEW n \in Flying(q, Append(mq, a)), Rank(m) > Rank(n)
        PROVE  Before(t, m.conn, n.conn)
    <3>1. Rank(m) \in Int /\ Rank(n) \in Int /\ Rank(a) \in Int
      BY RankType
    <3>2. CASE m = a
      BY <1>4, <2>1, <3>1, <3>2 DEF Follows
    <3>3. CASE n = a
      BY <1>4, <2>1, <3>1, <3>3 DEF Follows
    <3>4. CASE m # a /\ n # a
      BY <1>4, <2>1, <3>4 DEF Ordered
    <3> QED BY <3>2, <3>3, <3>4
  <2> QED BY <1>1, <1>3, <2>1 DEF Ordered
<1> QED BY <1>4, <1>5, <1>6

-----------------------------------------------------------------------------
(* The tags that are out left in the order in which they came in, and      *)
(* before all that are on their way.                                       *)
OutBefore(out, t, c) == \A i \in DOMAIN out : Before(t, out[i], c)
Tags(q, mq, t, out) ==
  /\ Shape(q, mq) /\ Ordered(q, mq, t)
  /\ \A n \in Flying(q, mq) : CameIn(t, n.conn) /\ OutBefore(out, t, n.conn)
  /\ \A i \in DOMAIN out : CameIn(t, out[i])
  /\ \A i, j \in DOMAIN out : i < j => Before(t, out[i], out[j])

First(h, F, t, out) ==
  Tagging(h) => Leads(h, F, t) /\ CameIn(t, h.conn) /\ OutBefore(out, t, h.conn)
Last(a, F, t, out) ==
  Tagging(a) => Follows(a, F, t) /\ CameIn(t, a.conn) /\ OutBefore(out, t, a.conn)

LEMMA FirstIsLast ==
  ASSUME NEW h, NEW a, NEW F, NEW t, NEW out, First(h, F, t, out),
         Tagging(a) => Tagging(h) /\ a.conn = h.conn /\ Rank(a) = Rank(h) + 1
  PROVE  Last(a, F, t, out)
BY LeadsFollows DEF First, Last

LEMMA TagsTake ==
  ASSUME NEW q \in Seq(Mails), NEW mq \in Seq(Mails), q # <<>>, NEW t, NEW out,
         Tags(q, mq, t, out)
  PROVE  Tags(Tail(q), mq, t, out) /\ First(Head(q), Flying(Tail(q), mq), t, out)
<1>1. /\ Shape(Tail(q), mq) /\ Ordered(Tail(q), mq, t)
      /\ Flying(Tail(q), mq) \subseteq Flying(q, mq)
      /\ Tagging(Head(q)) => /\ Head(q) \in Flying(q, mq)
                             /\ Leads(Head(q), Flying(Tail(q), mq), t)
  BY TakeFromQueue DEF Tags
<1> QED BY <1>1 DEF Tags, First

LEMMA TagsTakeMap ==
  ASSUME NEW q \in Seq(Mails), NEW mq \in Seq(Mails), mq # <<>>, NEW t, NEW out,
         Tags(q, mq, t, out)
  PROVE  /\ Tags(q, Tail(mq), t, out) /\ First(Head(mq), Flying(q, Tail(mq)), t, out)
         /\ Head(mq).at = "map" /\ Head(mq).step \in {"stateMap", "tagMap"}
<1>1. /\ Shape(q, Tail(mq)) /\ Ordered(q, Tail(mq), t)
      /\ Flying(q, Tail(mq)) \subseteq Flying(q, mq)
      /\ Head(mq).at = "map" /\ Head(mq).step \in {"stateMap", "tagMap"}
      /\ Tagging(Head(mq)) => /\ Head(mq) \in Flying(q, mq)
                              /\ Leads(Head(mq), Flying(q, Tail(mq)), t)
  BY TakeFromMap DEF Tags
<1> QED BY <1>1 DEF Tags, First

LEMMA TagsPost ==
  ASSUME NEW q \in Seq(Mails), NEW mq \in Seq(Mails), NEW a \in Mails, NEW t, NEW out,
         Tags(q, mq, t, out), Last(a, Flying(q, mq), t, out),
         a.at # "map", a.step \in {"stateMap", "tagMap"} => a.at = "service"
  PROVE  Tags(Append(q, a), mq, t, out)
<1>1. /\ Shape(Append(q, a), mq) /\ Ordered(Append(q, a), mq, t)
      /\ \A n \in Flying(Append(q, a), mq) : n \in Flying(q, mq) \/ n = a
  BY PostToQueue DEF Tags, Last
<1>2. \A n \in Flying(Append(q, a), mq) : Tagging(n)
  BY DEF Flying
<1>3. \A n \in Flying(Append(q, a), mq) : CameIn(t, n.conn) /\ OutBefore(out, t, n.conn)
  BY <1>1, <1>2 DEF Tags, Last
<1> QED BY <1>1, <1>3 DEF Tags

LEMMA TagsPostMap ==
  ASSUME NEW q \in Seq(Mails), NEW mq \in Seq(Mails), NEW a \in Mails, NEW t, NEW out,
         Tags(q, mq, t, out), Last(a, Flying(q, mq), t, out),
         a.at = "map", a.step \in {"stateMap", "tagMap"}
  PROVE  Tags(q, Append(mq, a), t, out)
<1>1. /\ Shape(q, Append(mq, a)) /\ Ordered(q, Append(mq, a), t)
      /\ \A n \in Flying(q, Append(mq, a)) : n \in Flying(q, mq) \/ n = a
  BY PostToMap DEF Tags, Last
<1>2. \A n \in Flying(q, Append(mq, a)) : Tagging(n)
  BY DEF Flying
<1>3. \A n \in Flying(q, Append(mq, a)) : CameIn(t, n.conn) /\ OutBefore(out, t, n.conn)
  BY <1>1, <1>2 DEF Tags, Last
<1> QED BY <1>1, <1>3 DEF Tags

(* A list of tags comes in: it is behind all others.                       *)
LEMMA TagsCome ==
  ASSUME NEW q \in Seq(Mails), NEW mq \in Seq(Mails), NEW t \in Seq(Conns),
         NEW out, NEW c \in Conns, Tags(q, mq, t, out)
  PROVE  /\ Tags(q, mq, Append(t, c), out) /\ CameIn(Append(t, c), c)
         /\ \A n \in Flying(q, mq) : Before(Append(t, c), n.conn, c)
         /\ OutBefore(out, Append(t, c), c)
<1> DEFINE u == Append(t, c)
<1>1. /\ Len(t) \in Nat /\ DOMAIN t = 1..Len(t) /\ DOMAIN u = 1..(Len(t) + 1)
      /\ \A k \in 1..Len(t) : u[k] = t[k]
      /\ u[Len(t) + 1] = c
  OBVIOUS
<1>2. /\ \A k \in DOMAIN t : k \in DOMAIN u /\ u[k] = t[k] /\ k < Len(t) + 1
      /\ Len(t) + 1 \in DOMAIN u
  BY <1>1
<1> HIDE DEF u
<1>3. \A a, b : Before(t, a, b) => Before(u, a, b)
  BY <1>2 DEF Before
<1>4. \A a : CameIn(t, a) => CameIn(u, a) /\ Before(u, a, c)
  BY <1>1, <1>2 DEF CameIn, Before
<1>5. CameIn(u, c)
  BY <1>1, <1>2 DEF CameIn
<1>6. Lined(q, u) /\ Lined(mq, u)
  BY <1>3 DEF Tags, Ordered, Lined
<1>7. Ordered(q, mq, u)
  BY <1>3, <1>6 DEF Tags, Ordered
<1>8. /\ \A n \in Flying(q, mq) :
           CameIn(u, n.conn) /\ OutBefore(out, u, n.conn) /\ Before(u, n.conn, c)
      /\ \A i \in DOMAIN out : CameIn(u, out[i]) /\ Before(u, out[i], c)
  BY <1>3, <1>4 DEF Tags, OutBefore
<1>9. Tags(q, mq, u, out)
  BY <1>3, <1>7, <1>8 DEF Tags
<1> QED BY <1>5, <1>8, <1>9 DEF u, OutBefore

(* A list of tags is out: it came before all that are on their way.        *)
LEMMA TagsLeave ==
  ASSUME NEW q \in Seq(Mails), NEW mq \in Seq(Mails), NEW t, NEW out \in Seq(Conns),
         NEW c \in Conns, Tags(q, mq, t, out), CameIn(t, c), OutBefore(out, t, c),
         \A n \in Flying(q, mq) : Before(t, c, n.conn)
  PROVE  Tags(q, mq, t, Append(out, c))
<1> DEFINE new == Append(out, c)
<1>1. /\ Len(out) \in Nat /\ DOMAIN out = 1..Len(out) /\ DOMAIN new = 1..(Len(out) + 1)
      /\ \A i \in 1..Len(out) : new[i] = out[i]
      /\ new[Len(out) + 1] = c
  OBVIOUS
<1>2. /\ \A i \in DOMAIN new : (i \in DOMAIN out /\ new[i] = out[i]) \/ new[i] = c
      /\ \A i, j \in DOMAIN new :
           i < j => /\ i \in DOMAIN out /\ new[i] = out[i]
                    /\ (j \in DOMAIN out /\ new[j] = out[j]) \/ new[j] = c
  BY <1>1
<1> HIDE DEF new
<1>3. \A i \in DOMAIN new : CameIn(t, new[i])
  BY <1>2 DEF Tags
<1>4. \A i, j \in DOMAIN new : i < j => Before(t, new[i], new[j])
  BY <1>2 DEF Tags, OutBefore
<1>5. \A n \in Flying(q, mq) : OutBefore(new, t, n.conn)
  BY <1>2 DEF Tags, OutBefore
<1> QED BY <1>3, <1>4, <1>5 DEF Tags, new

-----------------------------------------------------------------------------
(* What the order of tags needs: the two queues, and that nothing but a    *)
(* command or a list of tags is written.                                   *)
InOrder == Tags(queue, mapQueue, tagsIn, tagsOut)
WritingShape == \A m \in writing : m.step \in {"cmd", "tag"}
OInv == IInv /\ InOrder /\ WritingShape

LEMMA InitOInv == Init => OInv
<1> SUFFICES ASSUME Init PROVE InOrder /\ WritingShape
  BY InitIInv DEF OInv
<1>1. Flying(<<>>, <<>>) = {} /\ \A e : Lined(<<>>, e)
  <2>1. DOMAIN <<>> = {}
    OBVIOUS
  <2>2. \A e : Lined(<<>>, e)
    BY <2>1 DEF Lined
  <2>3. ASSUME NEW q, DOMAIN q = {} PROVE Flying(q, q) = {}
    BY <2>3 DEF Flying
  <2> QED BY <2>1, <2>2, <2>3
<1>2. Shape(<<>>, <<>>)
  BY DEF Shape
<1>3. Tags(<<>>, <<>>, <<>>, <<>>)
  BY <1>1, <1>2 DEF Tags, Ordered
<1>4. queue = <<>> /\ mapQueue = <<>> /\ tagsIn = <<>> /\ tagsOut = <<>> /\ writing = {}
  BY DEF Init
<1> QED BY <1>3, <1>4 DEF InOrder, WritingShape

(* A mail of a step that is no list of tags goes to the serial controller. *)
LEMMA PostOther ==
  ASSUME OInv, NEW a \in Mails, a.at # "map", ~Tagging(a),
         a.step \notin {"stateMap", "tagMap"}
  PROVE  Tags(Append(queue, a), mapQueue, tagsIn, tagsOut)
<1>1. queue \in Seq(Mails) /\ mapQueue \in Seq(Mails) /\ Tags(queue, mapQueue, tagsIn, tagsOut)
  BY DEF OInv, IInv, TypeOK, InOrder
<1>2. Last(a, Flying(queue, mapQueue), tagsIn, tagsOut)
  BY DEF Last
<1> QED BY <1>1, <1>2, TagsPost

LEMMA RequestKeepsOrder ==
  ASSUME OInv, NEW c \in Conns, ProcessRequest(c)
  PROVE  InOrder' /\ WritingShape'
<1>1. /\ UNCHANGED <<mapQueue, writing, tagsOut>>
      /\ queue \in Seq(Mails) /\ mapQueue \in Seq(Mails)
      /\ tagsIn \in Seq(Conns) /\ tagsOut \in Seq(Conns)
      /\ Tags(queue, mapQueue, tagsIn, tagsOut)
  BY DEF ProcessRequest, OInv, IInv, TypeOK, InOrder
<1>2. WritingShape'
  BY <1>1 DEF OInv, WritingShape
<1>3. CASE UNCHANGED <<queue, tagsIn>>
  BY <1>1, <1>2, <1>3 DEF InOrder
<1>4. ASSUME NEW step \in {"cmd", "state"}, PostToSerial(c, step), UNCHANGED tagsIn
      PROVE  InOrder' /\ WritingShape'
  <2> DEFINE a == Mail("serial", c, step)
  <2>1. /\ a \in Mails /\ a.at # "map" /\ ~Tagging(a)
        /\ a.step \notin {"stateMap", "tagMap"}
    BY <1>4 DEF Mail, Mails, Steps, Tagging
  <2>2. queue' = Append(queue, a)
    BY <1>4 DEF PostToSerial
  <2> HIDE DEF a
  <2> QED BY <1>1, <1>2, <1>4, <2>1, <2>2, PostOther DEF InOrder
<1>5. CASE ReadTag(c)
  <2> DEFINE a == Mail("serial", c, "tagState")
             u == Append(tagsIn, c)
  <2>1. queue' = Append(queue, a) /\ tagsIn' = u
    BY <1>5 DEF ReadTag, PostToSerial
  <2>2. /\ a \in Mails /\ a.at = "serial" /\ a.step = "tagState" /\ a.conn = c /\ Rank(a) = 0
    BY DEF Mail, Mails, Steps, Rank
  <2>3. /\ Tags(queue, mapQueue, u, tagsOut) /\ CameIn(u, c)
        /\ \A n \in Flying(queue, mapQueue) : Before(u, n.conn, c)
        /\ OutBefore(tagsOut, u, c)
    BY <1>1, TagsCome
  <2> HIDE DEF a, u
  <2>4. Last(a, Flying(queue, mapQueue), u, tagsOut)
    BY <2>2, <2>3, RankType DEF Last, Follows
  <2>5. Tags(Append(queue, a), mapQueue, u, tagsOut)
    BY <1>1, <2>2, <2>3, <2>4, TagsPost
  <2> QED BY <1>1, <1>2, <2>1, <2>5 DEF InOrder
<1>6. \/ UNCHANGED <<queue, tagsIn>>
      \/ \E step \in {"cmd", "state"} : PostToSerial(c, step) /\ UNCHANGED tagsIn
      \/ ReadTag(c)
  BY DEF ProcessRequest, ReadAtOnce, ReadCommand, ReadState, ReadBadTag
<1> QED BY <1>3, <1>4, <1>5, <1>6

LEMMA SerialKeepsOrder ==
  ASSUME OInv, SerialReceives
  PROVE  InOrder' /\ WritingShape'
<1>1. PICK h : h = Head(queue)
  OBVIOUS
<1>2. /\ queue # <<>> /\ h.at = "serial" /\ mapQueue' = mapQueue /\ tagsIn' = tagsIn
      /\ tagsOut' = IF h.step = "tag" THEN Append(tagsOut, h.conn) ELSE tagsOut
  BY <1>1 DEF SerialReceives
<1>3. /\ queue \in Seq(Mails) /\ mapQueue \in Seq(Mails) /\ tagsOut \in Seq(Conns)
      /\ Tags(queue, mapQueue, tagsIn, tagsOut) /\ WritingShape
  BY DEF OInv, IInv, TypeOK, InOrder
<1>4. h \in Mails /\ h.conn \in Conns /\ Tail(queue) \in Seq(Mails)
  <2>1. h \in Mails /\ Tail(queue) \in Seq(Mails)
    BY <1>1, <1>2, <1>3
  <2> QED BY <2>1 DEF Mails
<1>5. h.step \notin {"stateMap", "tagMap"}
  <2>1. 1 \in DOMAIN queue /\ h = queue[1]
    BY <1>1, <1>2, <1>3
  <2> QED BY <1>2, <1>3, <2>1 DEF Tags, Shape
<1>6. /\ Tags(Tail(queue), mapQueue, tagsIn, tagsOut)
      /\ First(h, Flying(Tail(queue), mapQueue), tagsIn, tagsOut)
  BY <1>1, <1>2, <1>3, TagsTake
<1>7. Tags(Tail(queue), mapQueue, tagsIn, tagsOut')
  <2>1. CASE h.step = "tag"
    <3>1. Tagging(h) /\ Rank(h) = 4
      BY <1>2, <2>1 DEF Tagging, Rank
    <3>2. /\ CameIn(tagsIn, h.conn) /\ OutBefore(tagsOut, tagsIn, h.conn)
          /\ \A n \in Flying(Tail(queue), mapQueue) : Before(tagsIn, h.conn, n.conn)
      BY <1>6, <3>1, RankType DEF First, Leads
    <3>3. Tags(Tail(queue), mapQueue, tagsIn, Append(tagsOut, h.conn))
      BY <1>3, <1>4, <1>6, <3>2, TagsLeave
    <3> QED BY <1>2, <2>1, <3>3
  <2>2. CASE h.step # "tag"
    BY <1>2, <1>6, <2>2
  <2> QED BY <2>1, <2>2
<1>8. ASSUME NEW ok \in BOOLEAN, queue' = Append(Tail(queue), Answer(h, ok)),
             UNCHANGED writing
      PROVE  InOrder' /\ WritingShape'
  <2> DEFINE a == Answer(h, ok)
  <2>1. a \in Mails /\ a.at = "service" /\ a.step = h.step /\ a.conn = h.conn
    BY <1>4 DEF Answer, Mails
  <2> HIDE DEF a
  <2>2. Tagging(a) => Tagging(h) /\ Rank(a) = Rank(h) + 1 /\ h.step # "tag"
    BY <1>2, <1>5, <2>1 DEF Tagging, Rank
  <2>3. Last(a, Flying(Tail(queue), mapQueue), tagsIn, tagsOut')
    <3>1. CASE Tagging(a)
      <4>1. tagsOut' = tagsOut
        BY <1>2, <2>2, <3>1
      <4> QED BY <1>6, <2>1, <2>2, <4>1, FirstIsLast
    <3>2. CASE ~Tagging(a)
      BY <3>2 DEF Last
    <3> QED BY <3>1, <3>2
  <2>4. Tags(Append(Tail(queue), a), mapQueue, tagsIn, tagsOut')
    BY <1>3, <1>4, <1>7, <2>1, <2>3, TagsPost
  <2> QED BY <1>2, <1>3, <1>8, <2>4 DEF InOrder, WritingShape, a
<1>9. CASE h.step \in {"cmd", "tag"} /\ queue' = Tail(queue) /\ writing' = writing \cup {h}
  BY <1>2, <1>3, <1>7, <1>9 DEF InOrder, WritingShape
<1> QED BY <1>1, <1>8, <1>9 DEF SerialReceives

(* The other steps.                                                        *)
LEMMA StepKeepsOrder ==
  ASSUME OInv, [Next]_vars
  PROVE  InOrder' /\ WritingShape'
<1>1. /\ queue \in Seq(Mails) /\ mapQueue \in Seq(Mails) /\ writing \subseteq Mails
      /\ Tags(queue, mapQueue, tagsIn, tagsOut) /\ WritingShape
  BY DEF OInv, IInv, TypeOK, InOrder
<1>2. ASSUME UNCHANGED <<queue, mapQueue, writing, tagsIn, tagsOut>>
      PROVE  InOrder' /\ WritingShape'
  BY <1>1, <1>2 DEF InOrder, WritingShape
<1>3. ASSUME NEW c \in Conns, Connection(c) PROVE InOrder' /\ WritingShape'
  BY <1>2, <1>3 DEF Connection, mailVars, tagVars
<1>4. ASSUME AssertFails \/ ReaderStops \/ \E c \in Conns : ReadIllTypedTag(c)
      PROVE  InOrder' /\ WritingShape'
  BY <1>2, <1>4 DEF AssertFails, ReaderStops, ReadIllTypedTag, mailVars, tagVars
<1>5. CASE UNCHANGED vars
  BY <1>2, <1>5 DEF vars, mailVars, tagVars
<1>6. ASSUME NEW m \in writing, SerialWritten(m) PROVE InOrder' /\ WritingShape'
  <2>1. PICK ok \in BOOLEAN : queue' = Append(queue, Answer(m, ok))
    BY <1>6 DEF SerialWritten
  <2>2. writing' = writing \ {m} /\ UNCHANGED <<mapQueue, tagsIn, tagsOut>>
    BY <1>6 DEF SerialWritten, tagVars
  <2>3. m \in Mails /\ m.step \in {"cmd", "tag"}
    BY <1>1 DEF WritingShape
  <2>4. /\ Answer(m, ok) \in Mails /\ Answer(m, ok).at # "map" /\ ~Tagging(Answer(m, ok))
        /\ Answer(m, ok).step \notin {"stateMap", "tagMap"}
    BY <2>3 DEF Answer, Mails, Tagging
  <2>5. Tags(queue', mapQueue, tagsIn, tagsOut)
    BY <2>1, <2>4, PostOther
  <2> QED BY <1>1, <2>2, <2>5 DEF InOrder, WritingShape
<1>7. CASE MapCalcReceives
  <2>1. PICK ok \in BOOLEAN : queue' = Append(queue, Answer(Head(mapQueue), ok))
    BY <1>7 DEF MapCalcReceives
  <2>2. /\ mapQueue # <<>> /\ mapQueue' = Tail(mapQueue)
        /\ UNCHANGED <<writing, tagsIn, tagsOut>>
    BY <1>7 DEF MapCalcReceives, tagVars
  <2>3. PICK h : h = Head(mapQueue)
    OBVIOUS
  <2>4. h \in Mails /\ Tail(mapQueue) \in Seq(Mails)
    BY <1>1, <2>2, <2>3
  <2>5. /\ Tags(queue, Tail(mapQueue), tagsIn, tagsOut)
        /\ First(h, Flying(queue, Tail(mapQueue)), tagsIn, tagsOut)
        /\ h.at = "map" /\ h.step \in {"stateMap", "tagMap"}
    BY <1>1, <2>2, <2>3, TagsTakeMap
  <2> DEFINE a == Answer(h, ok)
  <2>6. a \in Mails /\ a.at = "service" /\ a.step = h.step /\ a.conn = h.conn
    BY <2>4 DEF Answer, Mails
  <2> HIDE DEF a
  <2>7. Tagging(a) => Tagging(h) /\ Rank(a) = Rank(h) + 1
    BY <2>5, <2>6 DEF Tagging, Rank
  <2>8. Last(a, Flying(queue, Tail(mapQueue)), tagsIn, tagsOut)
    BY <2>5, <2>6, <2>7, FirstIsLast
  <2>9. Tags(Append(queue, a), Tail(mapQueue), tagsIn, tagsOut)
    BY <1>1, <2>4, <2>5, <2>6, <2>8, TagsPost
  <2> QED BY <1>1, <2>1, <2>2, <2>3, <2>9 DEF InOrder, WritingShape, a
<1>8. CASE MapCalcThrows
  <2>1. /\ mapQueue # <<>> /\ mapQueue' = Tail(mapQueue)
        /\ UNCHANGED <<queue, writing, tagsIn, tagsOut>>
    BY <1>8 DEF MapCalcThrows, tagVars
  <2>2. Tags(queue, Tail(mapQueue), tagsIn, tagsOut)
    BY <1>1, <2>1, TagsTakeMap
  <2> QED BY <1>1, <2>1, <2>2 DEF InOrder, WritingShape
<1>9. CASE AnswerIsLast
  <2>1. /\ queue # <<>> /\ queue' = Tail(queue)
        /\ UNCHANGED <<mapQueue, writing, tagsIn, tagsOut>>
    BY <1>9 DEF AnswerIsLast, Runs, tagVars
  <2>2. Tags(Tail(queue), mapQueue, tagsIn, tagsOut)
    BY <1>1, <2>1, TagsTake
  <2> QED BY <1>1, <2>1, <2>2 DEF InOrder, WritingShape
<1>10. ASSUME queue # <<>>
       PROVE  /\ Head(queue) \in Mails /\ Tail(queue) \in Seq(Mails)
              /\ Head(queue).conn \in Conns
              /\ Tags(Tail(queue), mapQueue, tagsIn, tagsOut)
              /\ First(Head(queue), Flying(Tail(queue), mapQueue), tagsIn, tagsOut)
  <2>1. Head(queue) \in Mails /\ Tail(queue) \in Seq(Mails)
    BY <1>1, <1>10
  <2>2. Head(queue).conn \in Conns
    BY <2>1 DEF Mails
  <2> QED BY <1>1, <1>10, <2>1, <2>2, TagsTake
<1>11. CASE AskMap
  <2>1. PICK h : h = Head(queue)
    OBVIOUS
  <2> DEFINE a == Mail("map", h.conn, IF h.step = "state" THEN "stateMap" ELSE "tagMap")
  <2>2. /\ queue # <<>> /\ h.step \in {"state", "tagState"} /\ h.at = "service"
        /\ queue' = Tail(queue) /\ mapQueue' = Append(mapQueue, a)
        /\ UNCHANGED <<writing, tagsIn, tagsOut>>
    BY <1>11, <2>1 DEF AskMap, Runs, conn, tagVars
  <2>3. /\ a \in Mails /\ a.at = "map" /\ a.step \in {"stateMap", "tagMap"}
        /\ a.conn = h.conn /\ (a.step = "tagMap" => h.step = "tagState")
    BY <1>10, <2>1, <2>2 DEF Mail, Mails, Steps
  <2> HIDE DEF a
  <2>4. Tagging(a) => Tagging(h) /\ Rank(a) = Rank(h) + 1
    BY <2>2, <2>3 DEF Tagging, Rank
  <2>5. Last(a, Flying(Tail(queue), mapQueue), tagsIn, tagsOut)
    BY <1>10, <2>1, <2>2, <2>3, <2>4, FirstIsLast
  <2>6. Tags(Tail(queue), Append(mapQueue, a), tagsIn, tagsOut)
    BY <1>1, <1>10, <2>2, <2>3, <2>5, TagsPostMap
  <2> QED BY <1>1, <2>2, <2>6 DEF InOrder, WritingShape
<1>12. CASE SendTag
  <2>1. PICK h : h = Head(queue)
    OBVIOUS
  <2> DEFINE a == Mail("serial", h.conn, "tag")
  <2>2. /\ queue # <<>> /\ h.step = "tagMap" /\ h.at = "service"
        /\ queue' = Append(Tail(queue), a)
        /\ UNCHANGED <<mapQueue, writing, tagsIn, tagsOut>>
    BY <1>12, <2>1 DEF SendTag, Runs, conn, tagVars
  <2>3. a \in Mails /\ a.at = "serial" /\ a.step = "tag" /\ a.conn = h.conn
    BY <1>10, <2>1, <2>2 DEF Mail, Mails, Steps
  <2> HIDE DEF a
  <2>4. Tagging(h) /\ Rank(a) = Rank(h) + 1
    BY <2>2, <2>3 DEF Tagging, Rank
  <2>5. Last(a, Flying(Tail(queue), mapQueue), tagsIn, tagsOut)
    BY <1>10, <2>1, <2>2, <2>3, <2>4, FirstIsLast
  <2>6. Tags(Append(Tail(queue), a), mapQueue, tagsIn, tagsOut)
    BY <1>1, <1>10, <2>2, <2>3, <2>5, TagsPost
  <2> QED BY <1>1, <2>2, <2>6 DEF InOrder, WritingShape
<1> QED
  BY <1>3, <1>4, <1>5, <1>6, <1>7, <1>8, <1>9, <1>11, <1>12, SerialKeepsOrder, RequestKeepsOrder
     DEF Next, RunHandler, RunMapHandler

(* Lists of tags reach the serial controller in the order in which their   *)
(* requests came in, though the queues of two threads lie between and      *)
(* other mails overtake them.                                              *)
THEOREM TagsInOrder == Spec => []TagsStayInOrder
<1>1. OInv /\ [Next]_vars => OInv'
  BY StepKeepsIInv, StepKeepsOrder DEF OInv
<1>2. OInv => TagsStayInOrder
  BY DEF OInv, InOrder, Tags, Before, TagsStayInOrder
<1> QED BY <1>1, <1>2, InitOInv, PTL DEF Spec

-----------------------------------------------------------------------------
(* The connections as their clients see them.  A request is there from     *)
(* when it was read, and a response from when it is being written.         *)
Exchanged(c) ==
  /\ stage[c] \in {"none", "reading"} => request[c] = NoRequest
  /\ stage[c] \in {"waiting", "replying"} => request[c] # NoRequest
  /\ stage[c] \in {"none", "reading", "waiting"} => responses[c] = 0
  /\ stage[c] = "replying" => responses[c] = 1

XInv == ConnTypeOK(Requests) /\ \A c \in Conns : Exchanged(c)

(* All that happens to connections, whatever the service.                  *)
ConnectionsMove ==
  \/ UNCHANGED connVars
  \/ \E c \in Conns : ConnectionStep(c)
  \/ \E c \in Conns, r \in Requests, s \in {"replying", "waiting", "idle"} :
       r # NoRequest /\ ReadRequest(c, r, s)
  \/ \E c \in Conns : stage[c] = "waiting" /\ Respond(c)

(* A step of one connection changes what is seen of that one.              *)
LEMMA SeenOfOne ==
  ASSUME ConnTypeOK(Requests), NEW c \in Conns,
         NEW s, stage' = [stage EXCEPT ![c] = s],
         \A d \in Conns \ {c} : socket'[d] = socket[d]
  PROVE  Links' = [Links EXCEPT ![c] = Link(c)']
<1>1. \A d \in Conns \ {c} : Link(d)' = Link(d)
  BY DEF ConnTypeOK, Link
<1> QED BY <1>1 DEF Links

LEMMA ConnectionExchange ==
  ASSUME XInv, NEW c \in Conns, ConnectionStep(c)
  PROVE  XInv' /\ [Exchange!ExchangeNext]_(Exchange!exchangeVars)
<1> USE DEF XInv
<1>1. UNCHANGED <<request, responses>> /\ AskedOnce' = AskedOnce
  BY DEF ConnectionStep, Accept, ReadFails, ResponseWritten, DeadlineExpires, AskedOnce
<1>2. XInv'
  BY <1>1 DEF ConnTypeOK, ConnectionStep, Accept, ReadFails, ResponseWritten, DeadlineExpires,
              Become, Stages, Exchanged
<1> SUFFICES [Exchange!ExchangeNext]_(Exchange!exchangeVars)
  BY <1>2
<1>3. CASE Accept(c)
  <2>1. Links' = [Links EXCEPT ![c] = "open"]
    BY <1>3, SeenOfOne DEF Accept, Become, ConnTypeOK, Link
  <2>2. Links[c] = "none"
    BY <1>3 DEF Links, Link, Accept
  <2> QED BY <1>1, <2>1, <2>2 DEF Exchange!ExchangeNext, Exchange!Connect,
                                  Exchange!SetLink
<1>4. CASE ReadFails(c) \/ ResponseWritten(c)
  <2>1. Links' = [Links EXCEPT ![c] = "over"]
    <3>1. PICK s \in {"idle", "done"} : stage' = [stage EXCEPT ![c] = s]
      BY <1>4 DEF ReadFails, ResponseWritten, Become
    <3>2. \A d \in Conns \ {c} : socket'[d] = socket[d]
      BY <1>4 DEF ConnTypeOK, ReadFails, ResponseWritten
    <3>3. Link(c)' = "over"
      BY <3>1 DEF ConnTypeOK, Link
    <3> QED BY <3>1, <3>2, <3>3, SeenOfOne
  <2>2. Links[c] \in {"open", "timedOut"}
    BY <1>4 DEF Links, Link, ReadFails, ResponseWritten
  <2>3. AskedOnce[c] = responses[c]
    BY <1>4 DEF AskedOnce, Exchanged, ReadFails, ResponseWritten
  <2> QED BY <1>1, <2>1, <2>2, <2>3 DEF Exchange!ExchangeNext, Exchange!End,
                                        Exchange!SetLink, Exchange!Served
<1>5. CASE DeadlineExpires(c)
  <2>1. /\ \A d \in Conns : stage'[d] = stage[d]
        /\ \A d \in Conns : socket'[d] = IF d = c THEN FALSE ELSE socket[d]
    BY <1>5 DEF DeadlineExpires, ConnTypeOK
  <2>2. \A d \in Conns : Link(d)' = IF d = c /\ Link(c) = "open" THEN "timedOut" ELSE Link(d)
    BY <2>1 DEF Link
  <2>3. CASE Link(c) = "open"
    <3>1. Links' = [Links EXCEPT ![c] = "timedOut"] /\ Links[c] = "open"
      BY <2>2, <2>3 DEF Links
    <3> QED BY <1>1, <3>1 DEF Exchange!ExchangeNext, Exchange!TimeOut,
                              Exchange!SetLink
  <2>4. CASE Link(c) # "open"
    <3>1. Links' = Links
      BY <2>2, <2>4 DEF Links
    <3> QED BY <1>1, <3>1 DEF Exchange!exchangeVars
  <2> QED BY <2>3, <2>4
<1> QED BY <1>3, <1>4, <1>5 DEF ConnectionStep

LEMMA RequestExchange ==
  ASSUME XInv, NEW c \in Conns, NEW r \in Requests, r # NoRequest,
         NEW s \in {"replying", "waiting", "idle"}, ReadRequest(c, r, s)
  PROVE  XInv' /\ Exchange!ExchangeNext
<1> USE DEF XInv
<1>1. /\ stage[c] = "reading" /\ responses[c] = 0 /\ request[c] = NoRequest
      /\ stage' = [stage EXCEPT ![c] = s] /\ request' = [request EXCEPT ![c] = r]
      /\ responses' = [responses EXCEPT ![c] = IF s = "replying" THEN @ + 1 ELSE @]
      /\ UNCHANGED <<socket, deadline>>
  BY DEF ReadRequest, Become, Exchanged
<1>2. XInv'
  BY <1>1 DEF ConnTypeOK, Stages, Exchanged
<1>3. AskedOnce[c] = 0 /\ AskedOnce' = [AskedOnce EXCEPT ![c] = @ + 1]
  <2>1. \A d \in Conns : request'[d] = IF d = c THEN r ELSE request[d]
    BY <1>1 DEF ConnTypeOK
  <2>2. AskedOnce[c] = 0 /\ AskedOnce' = [AskedOnce EXCEPT ![c] = 1]
    BY <1>1, <2>1 DEF AskedOnce
  <2> QED BY <2>2
<1>4. Links[c] \in {"open", "timedOut"}
  BY <1>1 DEF Links, Link
<1>5. Link(c)' = IF s = "idle" THEN "over" ELSE Link(c)
  BY <1>1 DEF Link, ConnTypeOK
<1>6. Links' = [Links EXCEPT ![c] = IF s = "idle" THEN "over" ELSE @]
  BY <1>1, <1>5, SeenOfOne DEF Links
<1>7. CASE s = "idle"
  <2>1. Links' = [Links EXCEPT ![c] = "over"] /\ responses' = responses
    BY <1>1, <1>6, <1>7 DEF ConnTypeOK
  <2> QED BY <1>1, <1>2, <1>3, <1>4, <2>1
          DEF Exchange!ExchangeNext, Exchange!Take, Exchange!SetLink, Exchange!Served
<1>8. CASE s # "idle"
  <2>1. Links' = Links
    BY <1>6, <1>8 DEF Links
  <2>2. responses' = responses \/ responses' = [responses EXCEPT ![c] = @ + 1]
    BY <1>1 DEF ConnTypeOK
  <2> QED BY <1>1, <1>2, <1>3, <1>4, <2>1, <2>2
          DEF Exchange!ExchangeNext, Exchange!Take, Exchange!Count, Exchange!Served
<1> QED BY <1>7, <1>8

LEMMA ResponseExchange ==
  ASSUME XInv, NEW c \in Conns, stage[c] = "waiting", Respond(c)
  PROVE  XInv' /\ Exchange!ExchangeNext
<1> USE DEF XInv
<1>1. /\ responses[c] = 0 /\ request[c] # NoRequest
      /\ stage' = [stage EXCEPT ![c] = "replying"]
      /\ responses' = [responses EXCEPT ![c] = @ + 1]
      /\ UNCHANGED <<request, socket, deadline>>
  BY DEF Respond, Become, Exchanged
<1>2. XInv'
  BY <1>1 DEF ConnTypeOK, Stages, Exchanged
<1>3. AskedOnce[c] = 1 /\ AskedOnce' = AskedOnce
  BY <1>1 DEF AskedOnce
<1>4. Links[c] \in {"open", "timedOut"}
  BY DEF Links, Link
<1>5. Link(c)' = Link(c)
  BY <1>1 DEF Link, ConnTypeOK
<1>6. Links' = Links
  BY <1>1, <1>5, SeenOfOne DEF Links
<1>7. responses[c] < AskedOnce[c]
  BY <1>1, <1>3
<1>8. Exchange!Answer(c)
  BY <1>1, <1>3, <1>4, <1>6, <1>7 DEF Exchange!Answer, Exchange!Count, Exchange!Served
<1> QED BY <1>2, <1>8 DEF Exchange!ExchangeNext

LEMMA MovesExchange ==
  ASSUME XInv, ConnectionsMove
  PROVE  XInv' /\ [Exchange!ExchangeNext]_(Exchange!exchangeVars)
<1>1. ASSUME UNCHANGED connVars
      PROVE  XInv' /\ UNCHANGED Exchange!exchangeVars
  BY <1>1 DEF XInv, ConnTypeOK, Exchanged, connVars, Links, Link, AskedOnce, Exchange!exchangeVars
<1> QED BY <1>1, ConnectionExchange, RequestExchange, ResponseExchange DEF ConnectionsMove

LEMMA InitExchange == ConnInit => XInv /\ Exchange!ExchangeInit
  BY DEF ConnInit, XInv, ConnTypeOK, Stages, Exchanged, Links, Link, AskedOnce,
      Exchange!ExchangeInit

(* What the service does to connections; the one it responds to waits.     *)
LEMMA NextMoves == IInv /\ [Next]_vars => ConnectionsMove
<1> SUFFICES ASSUME IInv, [Next]_vars PROVE ConnectionsMove
  OBVIOUS
<1>1. \A k \in OtherKinds : Request(k) \in Requests /\ Request(k) # NoRequest
  <2>1. "none" \notin OtherKinds
    BY OtherKindsAssumption DEF Kinds
  <2> QED BY <2>1 DEF Request, Requests, NoRequest
<1>2. \A p \in Commands : CmdRequest(p) \in Requests /\ CmdRequest(p) # NoRequest
  BY DEF CmdRequest, Requests, NoRequest
<1>3. ASSUME NEW c \in Conns, ProcessRequest(c) PROVE ConnectionsMove
  <2>1. PICK r \in Requests, s \in {"replying", "waiting", "idle"} :
          r # NoRequest /\ ReadRequest(c, r, s)
    BY <1>1, <1>2, <1>3 DEF ProcessRequest, ReadAtOnce, ReadCommand, ReadState, ReadTag, ReadBadTag
  <2> QED BY <2>1 DEF ConnectionsMove
<1>4. CASE AnswerIsLast
  <2>1. queue # <<>> /\ Respond(conn) /\ conn = Head(queue).conn
    BY <1>4 DEF AnswerIsLast, Runs, conn
  <2>2. conn \in Conns /\ stage[conn] = "waiting"
    BY <2>1, HeadMail
  <2> QED BY <2>1, <2>2 DEF ConnectionsMove
<1>5. ASSUME NEW c \in Conns, Connection(c) PROVE ConnectionsMove
  BY <1>5 DEF Connection, ConnectionsMove
<1>6. ASSUME \/ SerialReceives \/ AskMap \/ AssertFails \/ SendTag \/ RunMapHandler
             \/ ReaderStops
             \/ \E m \in writing : SerialWritten(m)
             \/ UNCHANGED vars
      PROVE  UNCHANGED connVars
  BY <1>6 DEF SerialReceives, AskMap, AssertFails, SendTag, RunMapHandler, MapCalcReceives,
              MapCalcThrows, ReaderStops, SerialWritten, vars
<1>7. ASSUME NEW c \in Conns, ReadIllTypedTag(c) PROVE ConnectionsMove
  BY <1>1, <1>7 DEF ReadIllTypedTag, ConnectionsMove
<1> QED BY <1>3, <1>4, <1>5, <1>6, <1>7 DEF Next, RunHandler, ConnectionsMove

(* The service implements RequestResponse: each client is answered once at *)
(* most, for what it asked and while the service holds its connection,     *)
(* through however many queues and threads the answer came.                *)
THEOREM ConnectionsExchange == Spec => ExchangeSpec
<1>1. Init => XInv /\ Exchange!ExchangeInit
  BY InitExchange DEF Init
<1>2. IInv /\ XInv /\ [Next]_vars => XInv' /\ [Exchange!ExchangeNext]_(Exchange!exchangeVars)
  BY NextMoves, MovesExchange
<1> QED BY <1>1, <1>2, InitIInv, StepKeepsIInv, PTL
        DEF Spec, ExchangeSpec, Exchange!ExchangeSpec
=============================================================================
