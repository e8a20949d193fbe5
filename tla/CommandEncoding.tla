-------------------------- MODULE CommandEncoding --------------------------
(***************************************************************************)
(* What becomes of a client's command: its fields are read from JSON and   *)
(* checked, the command is turned into a mail (process_json_message), and  *)
(* the mail into the bytes of a frame (sendData2Serial).  One command at a *)
(* time; SerialController says in which order frames go out, with which    *)
(* ids.  The texts of answers are left out: a ping is answered at once,    *)
(* and any other command that does not become a frame is refused.          *)
(***************************************************************************)
EXTENDS Integers, Sequences, FiniteSets

CONSTANTS
  Requests,  \* the commands a client may send
  Ids        \* the package ids nextId may have reached

LastId == 62766  \* after it nextId starts again with 1
ASSUME IdsAssumption == Ids \subseteq 1..LastId

VARIABLES
  request,  \* what the client sent
  mail,     \* Cmd2Serial, or what stands for its absence
  frame     \* the bytes given to async_write

encodingVars == <<request, mail, frame>>

NotYet  == [what |-> "notYet"]
Refused == [what |-> "refused"]
Pong    == [what |-> "pong"]
Mail(additionCmd, content) ==
  [what |-> "mail", additionCmd |-> additionCmd, content |-> content]
Frame(bytes) == [what |-> "frame", bytes |-> bytes]

Int16(n) == ((n + 32768) % 65536) - 32768
Uint8(n) == n % 256
LittleEndian(n) == <<n % 256, (n % 65536) \div 256>>

AdditionCmd ==
  [takeoff |-> 1, land |-> 2, stop |-> 3, keep |-> 4, move |-> 10,
   rotate |-> 11, high |-> 12, speed |-> 13, led |-> 14, gotoPosition |-> 15,
   flyMode |-> 16, calibrate |-> 90, JoyCon |-> 111, JoyConSimple |-> 112,
   JoyConGyro |-> 116, ping |-> 251, emergencyStop |-> 252, unlock |-> 253]

MoveClass  == {"takeoff", "land", "stop", "move", "rotate", "keep", "high",
               "speed", "flyMode", "gotoPosition", "led"}
PlainClass == {"emergencyStop", "unlock", "calibrate"}
NeedRepeat == MoveClass \cup PlainClass

(* A request has the name of its command, whether its fields are there and *)
(* are integers of the width they are read with (`good` of the code), the  *)
(* direction of a move or a rotation, the numbers that are checked, the    *)
(* one that is not, the rockers of a joystick and its buttons, in the      *)
(* order of struct JoyCon.                                                 *)
NumbersOf(cmd) ==
  CASE cmd \in {"takeoff", "move", "rotate", "high", "speed"} -> 1
    [] cmd \in {"gotoPosition", "led"} -> 3
    [] OTHER -> 0

ASSUME RequestsAssumption ==
  \A r \in Requests :
    /\ r.cmd \in DOMAIN AdditionCmd /\ r.good \in BOOLEAN
    /\ r.good => /\ r.numbers \in [1..NumbersOf(r.cmd) -> Int] /\ r.mode \in Int
                 /\ r.rockers \in [1..4 -> Int] /\ r.buttons \in [1..14 -> Int]

-----------------------------------------------------------------------------
(* process_json_message: the checks.                                       *)

Limits ==
  [takeoff |-> 0..32767, move |-> 0..32767, rotate |-> 0..360, high |-> 0..32767,
   speed |-> 1..32767, gotoPosition |-> 0..32767, led |-> 0..255]

InLimits(r) == \A i \in DOMAIN r.numbers : r.numbers[i] \in Limits[r.cmd]

Ways == [move |-> {"up", "down", "left", "right", "forward", "back"},
         rotate |-> {"cw", "ccw"}]

Acceptable(r) ==
  /\ r.good
  /\ InLimits(r)
  /\ r.cmd \in DOMAIN Ways => r.way \in Ways[r.cmd]

(* ... and the movement of a command, as int16_t on four axes.             *)
Still == [axis \in {"x", "y", "z", "cw"} |-> 0]

AxisOf == [up |-> "y", down |-> "y", left |-> "z", right |-> "z",
           forward |-> "x", back |-> "x", cw |-> "cw", ccw |-> "cw"]
SignOf == [up |-> 1, down |-> -1, left |-> -1, right |-> 1,
           forward |-> 1, back |-> -1, cw |-> 1, ccw |-> -1]

(* Move and rotate.                                                        *)
Directed(r) ==
  [Still EXCEPT ![AxisOf[r.way]] = Int16(SignOf[r.way] * r.numbers[1])]

(* The request's x is to the right, its y forward, and its h up.           *)
Goto(r) ==
  [Still EXCEPT !.x = Int16(r.numbers[2]), !.z = Int16(r.numbers[1]),
                !.y = Int16(r.numbers[3])]

Led(r) ==
  [Still EXCEPT !.x = r.numbers[1], !.y = r.numbers[2], !.z = r.numbers[3],
                !.cw = Int16(r.mode)]

MoveCmd(r) ==
  CASE r.cmd \in {"takeoff", "high"} -> [Still EXCEPT !.y = Int16(r.numbers[1])]
    [] r.cmd = "speed"               -> [Still EXCEPT !.x = Int16(r.numbers[1])]
    [] r.cmd = "flyMode"             -> [Still EXCEPT !.x = Int16(r.mode)]
    [] r.cmd = "land"                -> Still
    [] r.cmd = "gotoPosition"        -> Goto(r)
    [] r.cmd = "led"                 -> Led(r)
    [] r.cmd \in DOMAIN Ways         -> Directed(r)

(* analysisJoyCon and analysisJoyConSimple.                                *)
JoyCon(r) == [rockers |-> r.rockers, buttons |-> r.buttons]
SimpleButtons == <<1, 2, 3, 4, 13, 14>>  \* the four back ones, add and reduce
JoyConSimple(r) ==
  [rockers |-> r.rockers,
   buttons |-> [i \in DOMAIN SimpleButtons |-> r.buttons[SimpleButtons[i]]]]

(* Stop and keep come without a moveCmdPtr, a gyro without a joyConPtr.    *)
NoContent == [is |-> "nullptr"]
Content(r) ==
  CASE r.cmd \in MoveClass \ {"stop", "keep"} -> MoveCmd(r)
    [] r.cmd = "JoyCon"       -> JoyCon(r)
    [] r.cmd = "JoyConSimple" -> JoyConSimple(r)
    [] OTHER                  -> NoContent

(* A ping has its pong at once: no mail goes to the serial controller.     *)
PingPong ==
  /\ mail = NotYet /\ request.cmd = "ping" /\ request.good
  /\ mail' = Pong
  /\ UNCHANGED <<request, frame>>

ProcessJsonMessage ==
  /\ mail = NotYet /\ ~(request.cmd = "ping" /\ request.good)
  /\ mail' = IF Acceptable(request) THEN Mail(request.cmd, Content(request))
                                    ELSE Refused
  /\ UNCHANGED <<request, frame>>

-----------------------------------------------------------------------------
(* sendData2Serial: the bytes.                                             *)

(* Mutant: the axes in the order of struct MoveCmd.                        *)
MoveBytesInStructOrder(m) ==
  LittleEndian(m.x) \o LittleEndian(m.z) \o LittleEndian(m.y) \o LittleEndian(m.cw)

MoveBytes(m) ==
  LittleEndian(m.x) \o LittleEndian(m.y) \o LittleEndian(m.z) \o LittleEndian(m.cw)

(* A rocker has a byte for each of its two directions.                     *)
RockerBytes(n) == <<Uint8(IF n > 0 THEN n ELSE 0), Uint8(IF n < 0 THEN -n ELSE 0)>>

JoyBytes(j) ==
  RockerBytes(j.rockers[1]) \o RockerBytes(j.rockers[2])
    \o RockerBytes(j.rockers[3]) \o RockerBytes(j.rockers[4])
    \o [i \in DOMAIN j.buttons |-> Uint8(j.buttons[i])]

Payload(m) ==
  CASE m.additionCmd \in MoveClass                 -> MoveBytes(m.content)
    [] m.additionCmd \in {"JoyCon", "JoyConSimple"} -> JoyBytes(m.content)
    [] OTHER                                       -> <<>>

(* The exclusive or of bytes has the bits that are set in an odd number of *)
(* them.                                                                   *)
Weight == <<1, 2, 4, 8, 16, 32, 64, 128>>
Bit(byte, i) == (byte \div Weight[i]) % 2
Odd(bytes, i) == Cardinality({k \in DOMAIN bytes : Bit(bytes[k], i) = 1}) % 2
Xor(bytes) ==
  LET odd(i) == Odd(bytes, i)
  IN odd(1) + 2 * odd(2) + 4 * odd(3) + 8 * odd(4)
       + 16 * odd(5) + 32 * odd(6) + 64 * odd(7) + 128 * odd(8)

(* Mutant: the checksum leaves out the id.                                 *)
SealBeforeId(code, payload, id) ==
  <<170, code, Len(payload) + 2>> \o payload \o LittleEndian(id)
    \o <<Xor(payload), 187>>

(* makeADataBuffer, with the layout every frame has.                       *)
Seal(code, payload, id) ==
  <<170, code, Len(payload) + 2>> \o payload \o LittleEndian(id)
    \o <<Xor(payload \o LittleEndian(id)), 187>>

NullPointer(m) ==
  /\ m.additionCmd \in MoveClass \cup {"JoyCon", "JoyConSimple", "JoyConGyro"}
  /\ m.content = NoContent

SendData2Serial ==
  /\ mail.what = "mail" /\ frame = NotYet
  /\ IF NullPointer(mail)
     THEN frame' = Refused
     ELSE \E id \in IF mail.additionCmd \in NeedRepeat THEN Ids ELSE {0} :
            frame' = Frame(Seal(AdditionCmd[mail.additionCmd], Payload(mail), id))
  /\ UNCHANGED <<request, mail>>

EncodingInit == request \in Requests /\ mail = NotYet /\ frame = NotYet
EncodingNext == PingPong \/ ProcessJsonMessage \/ SendData2Serial
EncodingSpec == EncodingInit /\ [][EncodingNext]_encodingVars

-----------------------------------------------------------------------------
(* How the airplane reads a frame, by the comments on struct MoveCmd and   *)
(* struct JoyCon: +forward and -back, and so on.                           *)
Bytes == frame.bytes
Signed16(i) == Int16(Bytes[i] + 256 * Bytes[i + 1])
Forward == Signed16(4)
Up      == Signed16(6)
Right   == Signed16(8)
Cw      == Signed16(10)
Rocker(k) == Bytes[2 * k + 2] - Bytes[2 * k + 3]

When(condition, n) == IF condition THEN n ELSE 0

(* A frame of the move class says what the request says.                   *)
SaysMovement(r) ==
  LET n(i) == r.numbers[i]
      on(way) == When(r.way = way, n(1))
  IN CASE r.cmd = "move" ->
            /\ Forward = on("forward") - on("back") /\ Right = on("right") - on("left")
            /\ Up = on("up") - on("down") /\ Cw = 0
       [] r.cmd = "rotate" ->
            Cw = on("cw") - on("ccw") /\ Forward = 0 /\ Right = 0 /\ Up = 0
       [] r.cmd = "gotoPosition" ->
            Right = n(1) /\ Forward = n(2) /\ Up = n(3) /\ Cw = 0
       [] r.cmd \in {"takeoff", "high"} -> Up = n(1) /\ Forward = 0 /\ Right = 0
       [] r.cmd = "speed" -> Forward = n(1) /\ n(1) > 0
       [] r.cmd = "led" ->
            /\ <<Forward, Up, Right>> = <<n(1), n(2), n(3)>>
            /\ (Cw - r.mode) % 65536 = 0
       [] r.cmd = "flyMode" -> (Forward - r.mode) % 65536 = 0
       [] OTHER -> TRUE

(* What is sent means what was asked for: no accepted number overflows the *)
(* two bytes it is given, no direction or axis is swapped; a rocker is     *)
(* exact as long as it fits a byte (the comment on it says -127~+127, the  *)
(* code checks for 16 bits only), and a mode is exact in its low 16 bits.  *)
FrameSaysRequest ==
  frame.what = "frame" =>
    /\ request.good
    /\ Bytes[2] = AdditionCmd[request.cmd]
    /\ request.cmd \in MoveClass => SaysMovement(request)
    /\ request.cmd \in {"JoyCon", "JoyConSimple"} =>
         \A k \in 1..4 : request.rockers[k] \in -255..255
                           => Rocker(k) = request.rockers[k]

(* A frame tells its own length, its ends are marked, its checksum covers  *)
(* all that is between, and the id is not zero exactly if the command is   *)
(* one that is repeated.                                                   *)
FrameIsWhole ==
  frame.what = "frame" =>
    LET length == Len(Bytes)
    IN /\ length = Bytes[3] + 5
       /\ Bytes[1] = 170 /\ Bytes[length] = 187
       /\ Xor(SubSeq(Bytes, 4, length - 1)) = 0
       /\ \A i \in 1..length : Bytes[i] \in 0..255
       /\ LET id == Bytes[length - 3] + 256 * Bytes[length - 2]
          IN IF request.cmd \in NeedRepeat THEN id \in Ids ELSE id = 0
=============================================================================
