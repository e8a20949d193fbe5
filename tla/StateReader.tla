---------------------------- MODULE StateReader ----------------------------
(***************************************************************************)
(* The state reader: a loop that collects what the flight controller sends *)
(* on the serial port and looks for the delimiter a state begins with.     *)
(* Opening the port starts a loop; when setting the baud rate fails, the   *)
(* next command closes the port, opens it and starts another, on the same  *)
(* read buffer.  Everything runs on the one thread of ioc_cmd, but a read  *)
(* completes some time before its handler runs.                            *)
(*                                                                         *)
(* The loop reads with an async_read that has no completion condition and  *)
(* a buffer without limit: it takes in one read after the other and        *)
(* completes only with an error.  So what comes after the check of         *)
(* FindAfterStart, the state and its publication, is never reached, and is *)
(* not modelled.                                                           *)
(***************************************************************************)
EXTENDS Naturals, Sequences, FiniteSets, SequencesExt

CONSTANTS
  DelimLength,  \* the length of delimStart; four in the code
  MaxOpenings,  \* bound: how often the port may be initialised
  MaxBytes      \* bound: how many bytes the flight controller sends

ASSUME StateReaderAssumption ==
  /\ DelimLength \in Nat \ {0}
  /\ MaxOpenings \in Nat /\ MaxBytes \in Nat

VARIABLES
  impl,      \* the implementation the build chose
  initOk,    \* SerialController's: the port need not be initialised again
  isOpen,    \* the port is open
  openings,  \* how often initPort ran; also the name of its loop
  loop,      \* the loop each opening started, and the read it waits for
  buffer,    \* readBuffer_: what is in it to be read
  received,  \* how many bytes came in
  overtaken, \* history: loops whose next handler waited when initPort ran
  stopped    \* "no", or what ended the program

portVars == <<initOk, isOpen, openings>>
vars == <<impl, portVars, loop, buffer, received, overtaken, stopped>>

Openings == 1..MaxOpenings
Byte == {0, 170}
delimStart == [i \in 1..DelimLength |-> 170]

(* What a loop waits for: to be begun, a read, the handler of a read that  *)
(* has bytes or an error; or it ended, or was never started.  Two reads    *)
(* into one buffer at a time are given the same memory: both are mixed.    *)
NoLoop == [at |-> "none", bytes |-> <<>>, mixed |-> FALSE]
Waits(at) == {k \in Openings : loop[k].at = at}
Reads == Waits("reading") \cup Waits("data")

-----------------------------------------------------------------------------
(* The loop k starts a read into the buffer, on the port if that is open.  *)
(* Every read that is under way in the loops ls is mixed with it.          *)
StartRead(ls, k, open) ==
  LET others == {j \in Openings \ {k} : ls[j].at \in {"reading", "data"}}
  IN [j \in Openings |->
        CASE j = k /\ ~open   -> [NoLoop EXCEPT !.at = "error"]
          [] j = k /\ open    -> [NoLoop EXCEPT !.at = "reading", !.mixed = others # {}]
          [] j \in others     -> [ls[j] EXCEPT !.mixed = @ \/ open]
          [] OTHER            -> ls[j]]

(* findAfterStart looks at the buffer after it was drained into a string,  *)
(* so what it looks at is empty.                                           *)
FindAfterStart == IF IsPrefix(delimStart, <<>>) THEN stopped ELSE "assertion"

(* The beginning of the loop: the buffer is drained into a string.  If the *)
(* delimiter is in there the check of findAfterStart is next, otherwise    *)
(* what was there is lost and a read is started.                           *)
FindStart(ls, k, open) ==
  /\ buffer' = <<>>
  /\ IF \E i \in DOMAIN buffer :
          IsPrefix(delimStart, SubSeq(buffer, i, Len(buffer)))
     THEN stopped' = FindAfterStart /\ loop' = [ls EXCEPT ![k].at = "ended"]
     ELSE stopped' = stopped /\ loop' = StartRead(ls, k, open)

(* Closing the port: the reads that wait complete with an error.           *)
Cancelled == [k \in Openings |->
                IF loop[k].at = "reading" THEN [NoLoop EXCEPT !.at = "error"]
                                          ELSE loop[k]]

(* start(): one implementation begins the loop in the call, the other one  *)
(* posts it to the thread.                                                 *)
Start(ls, k) ==
  \/ impl = "Normal" /\ FindStart(ls, k, TRUE)
  \/ /\ impl = "Co"
     /\ loop' = [ls EXCEPT ![k].at = "spawned"]
     /\ UNCHANGED <<buffer, stopped>>

Overtake == overtaken' = overtaken \cup Waits("data") \cup Waits("spawned")

(* Mutant: a port that is open is kept, with the read that waits on it.    *)
InitPortKeepsOpen ==
  /\ ~initOk /\ openings < MaxOpenings
  /\ openings' = openings + 1
  /\ isOpen' = TRUE /\ initOk' \in BOOLEAN
  /\ Start(loop, openings')
  /\ Overtake /\ UNCHANGED <<impl, received>>

(* Mutant: the port is initialised again although that was done.           *)
InitPortAlways ==
  /\ openings < MaxOpenings
  /\ openings' = openings + 1
  /\ isOpen' = TRUE /\ initOk' = TRUE
  /\ Start(Cancelled, openings')
  /\ Overtake /\ UNCHANGED <<impl, received>>

(* A command finds initOk false: the port is closed and opened, which      *)
(* starts the loop, and then the baud rate is set.                         *)
InitPort ==
  /\ ~initOk /\ openings < MaxOpenings
  /\ openings' = openings + 1
  /\ \/ /\ isOpen' = TRUE /\ initOk' \in BOOLEAN
        /\ Start(Cancelled, openings')
     \/ /\ isOpen' = FALSE /\ initOk' = FALSE
        /\ loop' = Cancelled
        /\ UNCHANGED <<buffer, stopped>>
  /\ Overtake /\ UNCHANGED <<impl, received>>

(* A loop that was posted begins, whatever became of the port meanwhile.   *)
Begin(k) ==
  /\ loop[k].at = "spawned"
  /\ FindStart(loop, k, isOpen)
  /\ UNCHANGED <<impl, portVars, overtaken, received>>

(* Bytes come in for one of the reads that wait, or its read fails.        *)
BytesArrive(k) ==
  /\ loop[k].at = "reading"
  /\ \E n \in 1..2 : \E bytes \in [1..n -> Byte] :
       /\ received + n <= MaxBytes
       /\ received' = received + n
       /\ loop' = [loop EXCEPT ![k].at = "data", ![k].bytes = bytes]
  /\ UNCHANGED <<impl, portVars, overtaken, buffer, stopped>>

ReadFails(k) ==
  /\ loop[k].at = "reading"
  /\ loop' = [loop EXCEPT ![k] = [NoLoop EXCEPT !.at = "error"]]
  /\ UNCHANGED <<impl, portVars, overtaken, buffer, received, stopped>>

(* What a read adds to the buffer.  Mixed with another one, it had memory  *)
(* that the other wrote to as well: any bytes.                             *)
Committed(l) == IF l.mixed THEN [DOMAIN l.bytes -> Byte] ELSE {l.bytes}

(* Mutant: the read ends with the first bytes (transfer_at_least), and the *)
(* loop looks at them.                                                     *)
TakeBytesOnce(k) ==
  /\ loop[k].at = "data"
  /\ IF IsPrefix(delimStart, loop[k].bytes)
     THEN stopped' = "assertion" /\ loop' = loop
     ELSE stopped' = stopped /\ loop' = StartRead(loop, k, isOpen)
  /\ UNCHANGED <<impl, portVars, overtaken, buffer, received>>

(* The read's own handler: the bytes are there, and there was no error, so *)
(* it starts the next one, on the port as it is now.  The memory of mixed  *)
(* reads may also have been given back: then anything may happen.          *)
TakeBytes(k) ==
  /\ loop[k].at = "data"
  /\ \/ /\ \E bytes \in Committed(loop[k]) : buffer' = buffer \o bytes
        /\ loop' = StartRead(loop, k, isOpen)
        /\ UNCHANGED stopped
     \/ /\ loop[k].mixed
        /\ stopped' = "memory"
        /\ UNCHANGED <<loop, buffer>>
  /\ UNCHANGED <<impl, portVars, overtaken, received>>

(* The handler of the whole read is called, with an error: the loop ends,  *)
(* and the bytes stay in the buffer.                                       *)
EndLoop(k) ==
  /\ loop[k].at = "error"
  /\ loop' = [loop EXCEPT ![k].at = "ended"]
  /\ UNCHANGED <<impl, portVars, overtaken, buffer, received, stopped>>

-----------------------------------------------------------------------------
Init ==
  /\ impl \in {"Normal", "Co"}
  /\ initOk = FALSE /\ isOpen = FALSE /\ openings = 0
  /\ loop = [k \in Openings |-> NoLoop]
  /\ buffer = <<>> /\ received = 0 /\ overtaken = {}
  /\ stopped = "no"

LoopStep(k) == \/ Begin(k)
               \/ BytesArrive(k)
               \/ ReadFails(k)
               \/ TakeBytes(k)
               \/ EndLoop(k)

Next == stopped = "no" /\ (InitPort \/ \E k \in Openings : LoopStep(k))

Spec == Init /\ [][Next]_vars

-----------------------------------------------------------------------------
(* The type invariant.  Bytes wait with a read that has completed, and     *)
(* nowhere else.                                                           *)
TypeOK ==
  /\ impl \in {"Normal", "Co"}
  /\ initOk \in BOOLEAN /\ isOpen \in BOOLEAN
  /\ openings \in 0..MaxOpenings /\ received \in 0..MaxBytes
  /\ loop \in [Openings -> [at : {"none", "spawned", "reading", "data", "error", "ended"},
                            bytes : Seq(Byte), mixed : BOOLEAN]]
  /\ \A k \in Openings : loop[k].bytes # <<>> <=> loop[k].at = "data"
  /\ buffer \in Seq(Byte) /\ overtaken \subseteq Openings
  /\ stopped \in {"no", "assertion", "memory"}

(* The types; and whatever the flight controller sends, the program goes   *)
(* on as long as the port was opened once.  Only a second opening can find *)
(* a delimiter in the buffer (findAfterStart), or two loops on one buffer. *)
FirstLoopIsSafe ==
  /\ TypeOK
  /\ stopped # "no" => Cardinality({k \in Openings : loop[k].at # "none"}) > 1

(* A loop of an earlier opening does not read from a port that was opened  *)
(* after it, unless initPort overtook its handler or its beginning.        *)
OldLoopsEnd == \A k \in Reads : k = openings \/ k \in overtaken

(* Once the port is initialised and no loop is left, because the device    *)
(* failed a read, none is ever started again: GET /AirplaneState answers   *)
(* with what it has for as long as the program runs.                       *)
EndedForGood ==
  [](initOk /\ Waits("none") \cup Waits("ended") = Openings
       => [](Waits("none") \cup Waits("ended") = Openings))

(* What the assertion in findAfterStart says of its branch: "check next    *)
(* start tag error, never go there !!!".                                   *)
NeverGoThere == stopped # "assertion"
=============================================================================
