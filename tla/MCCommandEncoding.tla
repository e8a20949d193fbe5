------------------------- MODULE MCCommandEncoding -------------------------
(* Requests for CommandEncoding: each command with numbers at and next to  *)
(* every limit the code checks and every limit of the widths it uses.      *)
EXTENDS CommandEncoding

Numbers == {-32769, -1, 0, 1, 127, 128, 255, 256, 360, 361,
            32767, 32768, 65535, 65536}
Few     == {-1, 0, 255, 256, 32767, 32768}
Rockers == {-32768, -256, -255, -127, -1, 0, 1, 127, 255, 256, 32767}

NoButtons == [i \in 1..14 |-> 0]
Blank(cmd) == [cmd |-> cmd, good |-> TRUE, way |-> "none", numbers |-> <<>>,
               mode |-> 0, rockers |-> <<0, 0, 0, 0>>, buttons |-> NoButtons]

OneNumber ==
  {[Blank(c) EXCEPT !.numbers = <<n>>] : c \in {"takeoff", "high", "speed"}, n \in Numbers}
Directions ==
  {[Blank(c) EXCEPT !.numbers = <<n>>, !.way = w] :
     c \in {"move", "rotate"}, n \in Numbers, w \in DOMAIN AxisOf \cup {"none"}}
ThreeNumbers ==
  {[Blank(c) EXCEPT !.numbers = <<i, j, k>>, !.mode = m] :
     c \in {"gotoPosition", "led"}, i \in Few, j \in Few, k \in Few, m \in {0, 65537}}
Modes == {[Blank("flyMode") EXCEPT !.mode = n] : n \in Numbers}
Joysticks ==
  {[Blank(c) EXCEPT !.rockers = <<a, b, -b, 1>>] :
     c \in {"JoyCon", "JoyConSimple"}, a \in Rockers, b \in Rockers \ {-32768}}
  \cup {[Blank(c) EXCEPT !.buttons = [NoButtons EXCEPT ![i] = n]] :
          c \in {"JoyCon", "JoyConSimple"}, i \in 1..14, n \in {-128, 1, 127}}
Bare == {Blank(c) : c \in {"land", "stop", "keep", "ping", "emergencyStop",
                           "unlock", "calibrate", "JoyConGyro"}}
NotGood == {[Blank(c) EXCEPT !.good = FALSE] :
              c \in {"takeoff", "move", "led", "flyMode", "JoyCon"}}

AllRequests == OneNumber \cup Directions \cup ThreeNumbers \cup Modes
                 \cup Joysticks \cup Bare \cup NotGood
=============================================================================
