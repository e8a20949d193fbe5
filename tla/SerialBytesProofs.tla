-------------------------- MODULE SerialBytesProofs ------------------------
(***************************************************************************)
(* Theorems about the bytes on the two serial lines: StateReader, which    *)
(* reads those that come from the airplane, for every length of the        *)
(* delimiter, every number of openings and every amount of bytes; and      *)
(* CommandEncoding, which makes those that go to it, for every set of      *)
(* requests with any integers as their fields and every set of ids.        *)
(***************************************************************************)
EXTENDS StateReader, CommandEncoding, FiniteSetTheorems, SequenceTheorems, TLAPS

Ats == {"none", "spawned", "reading", "data", "error", "ended"}
LoopRecord == [at : Ats, bytes : Seq(Byte), mixed : BOOLEAN]

(* What may be the loops: bytes wait where a read has completed.           *)
Loops == {ls \in [Openings -> LoopRecord] :
            \A k \in Openings : ls[k].bytes # <<>> <=> ls[k].at = "data"}
Begun(ls) == {k \in Openings : ls[k].at # "none"}

-----------------------------------------------------------------------------
(* What the operators do to the loops.                                     *)
LEMMA NoLoopType == \A at \in Ats : [NoLoop EXCEPT !.at = at] \in LoopRecord
<1>1. <<>> \in Seq(Byte)
  OBVIOUS
<1> QED BY <1>1 DEF NoLoop, LoopRecord, Ats

LEMMA StartReadLoops ==
  ASSUME NEW ls \in Loops, NEW k \in Openings, NEW open \in BOOLEAN,
         ls[k].at = "data" \/ ls[k].bytes = <<>>
  PROVE  /\ StartRead(ls, k, open) \in Loops
         /\ StartRead(ls, k, open)[k].at = IF open THEN "reading" ELSE "error"
         /\ \A j \in Openings \ {k} : StartRead(ls, k, open)[j].at = ls[j].at
         /\ \A j \in Openings :
              StartRead(ls, k, open)[j].mixed =>
                ls[j].mixed \/ \E i \in Begun(ls) \cup {k} : i # j
<1> DEFINE others == {j \in Openings \ {k} : ls[j].at \in {"reading", "data"}}
           new == StartRead(ls, k, open)
<1>1. /\ ls \in [Openings -> LoopRecord]
      /\ \A j \in Openings : ls[j].bytes # <<>> <=> ls[j].at = "data"
  BY DEF Loops
<1>2. /\ new[k] = IF open THEN [NoLoop EXCEPT !.at = "reading", !.mixed = others # {}]
                          ELSE [NoLoop EXCEPT !.at = "error"]
      /\ \A j \in Openings \ {k} :
           new[j] = IF j \in others THEN [ls[j] EXCEPT !.mixed = @ \/ open] ELSE ls[j]
      /\ DOMAIN new = Openings /\ new = [j \in Openings |-> new[j]]
  BY DEF StartRead
<1> HIDE DEF new
<1>3. /\ new[k] \in LoopRecord /\ new[k].bytes = <<>>
      /\ new[k].at = IF open THEN "reading" ELSE "error"
      /\ new[k].mixed => others # {}
  <2>1. <<>> \in Seq(Byte)
    OBVIOUS
  <2> QED BY <1>2, <2>1 DEF NoLoop, LoopRecord, Ats
<1>4. ASSUME NEW j \in Openings \ {k}
      PROVE  /\ new[j] \in LoopRecord /\ new[j].bytes = ls[j].bytes
             /\ new[j].at = ls[j].at
             /\ new[j].mixed => ls[j].mixed \/ j \in others
  BY <1>1, <1>2 DEF LoopRecord
<1>5. new \in Loops
  <2>1. \A j \in Openings : new[j] \in LoopRecord
    BY <1>3, <1>4
  <2>2. \A j \in Openings : new[j].bytes # <<>> <=> new[j].at = "data"
    BY <1>1, <1>3, <1>4
  <2> QED BY <1>2, <2>1, <2>2 DEF Loops
<1>6. ASSUME NEW j \in Openings, new[j].mixed
      PROVE  ls[j].mixed \/ \E i \in Begun(ls) \cup {k} : i # j
  BY <1>3, <1>4, <1>6 DEF Begun
<1> QED BY <1>3, <1>4, <1>5, <1>6 DEF new

LEMMA CancelledLoops ==
  ASSUME loop \in Loops
  PROVE  /\ Cancelled \in Loops
         /\ \A k \in Openings : /\ Cancelled[k].at = IF loop[k].at = "reading" THEN "error"
                                                     ELSE loop[k].at
                                /\ Cancelled[k].mixed => loop[k].mixed
                                /\ loop[k].bytes = <<>> => Cancelled[k].bytes = <<>>
<1>1. [NoLoop EXCEPT !.at = "error"] \in LoopRecord
  BY NoLoopType DEF Ats
<1>2. Cancelled \in [Openings -> LoopRecord]
  BY <1>1 DEF Cancelled, Loops
<1> QED BY <1>1, <1>2 DEF Cancelled, Loops, NoLoop

LEMMA SetAt ==
  ASSUME NEW ls \in Loops, NEW k \in Openings, ls[k].bytes = <<>>,
         NEW at \in Ats \ {"data"}
  PROVE  /\ [ls EXCEPT ![k].at = at] \in Loops
         /\ [ls EXCEPT ![k].at = at][k].at = at
         /\ \A j \in Openings \ {k} : [ls EXCEPT ![k].at = at][j] = ls[j]
         /\ [ls EXCEPT ![k].at = at][k].mixed = ls[k].mixed
<1> DEFINE new == [ls EXCEPT ![k].at = at]
<1>1. ls \in [Openings -> LoopRecord] /\ ls[k] \in LoopRecord
  BY DEF Loops
<1>2. /\ DOMAIN new = Openings /\ new = [j \in Openings |-> new[j]]
      /\ new[k] = [ls[k] EXCEPT !.at = at]
      /\ \A j \in Openings \ {k} : new[j] = ls[j]
  BY <1>1
<1> HIDE DEF new
<1>3. /\ new[k] \in LoopRecord /\ new[k].at = at
      /\ new[k].mixed = ls[k].mixed /\ new[k].bytes = <<>>
  BY <1>1, <1>2 DEF LoopRecord
<1>4. \A j \in Openings : new[j] \in LoopRecord
  BY <1>1, <1>2, <1>3
<1>5. \A j \in Openings : new[j].bytes # <<>> <=> new[j].at = "data"
  BY <1>2, <1>3 DEF Loops
<1> QED BY <1>2, <1>3, <1>4, <1>5 DEF Loops, new

-----------------------------------------------------------------------------
(* The inductive invariant.                                                *)
LoopType == loop \in Loops

(* The loops are those of the openings there were.                         *)
BegunByOpening == Begun(loop) \subseteq 1..openings

(* A loop other than the newest one waits for nothing but its end, unless  *)
(* initPort overtook it.                                                   *)
OldLoops ==
  \A k \in Openings :
    loop[k].at \in {"spawned", "reading", "data"} => k = openings \/ k \in overtaken

(* Bytes in the buffer, and reads that are mixed, take a loop that has     *)
(* begun, and one more; so does the end of the program.                    *)
Two == \E i, j \in Begun(loop) : i # j
BufferIsOfLoop == buffer # <<>> => \E i \in Openings : loop[i].at \notin {"none", "spawned"}
MixedIsTwo     == \A i \in Openings : loop[i].mixed => \E j \in Begun(loop) : j # i
StoppedIsTwo   == stopped # "no" => Two

RInv == TypeOK /\ LoopType /\ BegunByOpening /\ OldLoops /\ BufferIsOfLoop
          /\ MixedIsTwo /\ StoppedIsTwo

LEMMA InitRInv == Init => RInv
<1> SUFFICES ASSUME Init PROVE RInv
  OBVIOUS
<1>1. <<>> \in Seq(Byte)
  OBVIOUS
<1>2. loop \in Loops /\ \A k \in Openings : loop[k] = NoLoop
  <2>1. NoLoop \in LoopRecord
    BY <1>1 DEF NoLoop, LoopRecord, Ats
  <2> QED BY <2>1 DEF Init, Loops, NoLoop
<1>3. TypeOK
  <2>1. /\ loop \in [Openings -> [at : Ats, bytes : Seq(Byte), mixed : BOOLEAN]]
        /\ \A k \in Openings : loop[k].bytes # <<>> <=> loop[k].at = "data"
    BY <1>2 DEF Loops, LoopRecord
  <2>2. 0 \in 0..MaxOpenings /\ 0 \in 0..MaxBytes
    BY StateReaderAssumption
  <2>3. buffer \in Seq(Byte)
    BY <1>1 DEF Init
  <2> QED BY <2>1, <2>2, <2>3 DEF Init, TypeOK, Ats
<1>4. /\ \A k \in Openings : loop[k].at = "none" /\ ~loop[k].mixed
      /\ Begun(loop) = {}
  BY <1>2 DEF NoLoop, Begun
<1>5. buffer = <<>> /\ stopped = "no"
  BY DEF Init
<1> QED BY <1>2, <1>3, <1>4, <1>5 DEF RInv, LoopType, BegunByOpening, OldLoops,
                                      BufferIsOfLoop, MixedIsTwo, StoppedIsTwo

-----------------------------------------------------------------------------
(* The loops after a step: nothing that was begun is forgotten.            *)
LEMMA FindStartStep ==
  ASSUME TypeOK, StoppedIsTwo, NEW ls \in Loops, NEW k \in Openings, NEW open \in BOOLEAN,
         FindStart(ls, k, open), ls[k].bytes = <<>>, ls[k].at # "data",
         ls[k].at \in {"none", "spawned"},
         Begun(ls) = Begun(loop),
         \A i \in Openings : ls[i].mixed => \E j \in Begun(ls) : j # i,
         buffer # <<>> => \E i \in Openings : ls[i].at \notin {"none", "spawned"}
  PROVE  /\ loop' \in Loops
         /\ buffer' = <<>> /\ stopped' \in {"no", "assertion", "memory"}
         /\ Begun(loop') = Begun(ls) \cup {k}
         /\ \A j \in Openings \ {k} : loop'[j].at = ls[j].at
         /\ open \/ loop'[k].at \notin {"spawned", "reading", "data"}
         /\ MixedIsTwo' /\ StoppedIsTwo'
<1>1. CASE loop' = [ls EXCEPT ![k].at = "ended"] /\ stopped' = FindAfterStart /\ buffer # <<>>
  <2>1. /\ loop' \in Loops /\ loop'[k].at = "ended"
        /\ \A j \in Openings \ {k} : loop'[j] = ls[j]
        /\ loop'[k].mixed = ls[k].mixed
    <3>1. "ended" \in Ats \ {"data"}
      BY DEF Ats
    <3>2. [ls EXCEPT ![k].at = "ended"] \in Loops
      BY <3>1, SetAt
    <3> QED BY <1>1, <3>1, <3>2, SetAt
  <2>2. Begun(loop') = Begun(ls) \cup {k}
    BY <2>1 DEF Begun
  <2>3. PICK i \in Openings : ls[i].at \notin {"none", "spawned"}
    BY <1>1
  <2>4. i # k /\ i \in Begun(loop') /\ k \in Begun(loop')
    BY <2>2, <2>3 DEF Begun
  <2>5. stopped' \in {"no", "assertion", "memory"}
    BY <1>1 DEF FindAfterStart, TypeOK
  <2>6. MixedIsTwo'
    BY <2>1, <2>2 DEF MixedIsTwo
  <2> QED BY <2>1, <2>2, <2>4, <2>5, <2>6 DEF FindStart, StoppedIsTwo, Two
<1>2. CASE loop' = StartRead(ls, k, open) /\ stopped' = stopped
  <2>1. /\ loop' \in Loops
        /\ loop'[k].at = IF open THEN "reading" ELSE "error"
        /\ \A j \in Openings \ {k} : loop'[j].at = ls[j].at
        /\ \A j \in Openings :
             loop'[j].mixed => ls[j].mixed \/ \E i \in Begun(ls) \cup {k} : i # j
    BY <1>2, StartReadLoops
  <2>2. Begun(loop') = Begun(ls) \cup {k}
    BY <2>1 DEF Begun
  <2>3. MixedIsTwo'
    BY <2>1, <2>2 DEF MixedIsTwo
  <2>4. StoppedIsTwo'
    BY <1>2, <2>2 DEF StoppedIsTwo, Two
  <2> QED BY <1>2, <2>1, <2>2, <2>3, <2>4 DEF FindStart, TypeOK
<1>3. (\E i \in DOMAIN buffer : IsPrefix(delimStart, SubSeq(buffer, i, Len(buffer))))
        => buffer # <<>>
  <2>1. \A i \in DOMAIN <<>> : FALSE
    OBVIOUS
  <2> QED BY <2>1
<1> QED BY <1>1, <1>2, <1>3 DEF FindStart

(* The types follow from those of the loops.                               *)
LEMMA TypeFromLoops ==
  ASSUME TypeOK, loop' \in Loops, buffer' \in Seq(Byte),
         stopped' \in {"no", "assertion", "memory"}, overtaken' \subseteq Openings,
         impl' = impl, initOk' \in BOOLEAN, isOpen' \in BOOLEAN,
         openings' \in 0..MaxOpenings, received' \in 0..MaxBytes
  PROVE  TypeOK' /\ LoopType'
  BY DEF TypeOK, LoopType, Loops, LoopRecord, Ats

LEMMA InitPortStep == ASSUME RInv, InitPort PROVE RInv'
<1> DEFINE k0 == openings + 1
<1>1. /\ k0 \in Openings /\ openings' = k0 /\ k0 \in 1..MaxOpenings
      /\ impl' = impl /\ received' = received
      /\ openings \in Nat /\ received \in 0..MaxBytes
  <2>1. openings \in 0..MaxOpenings /\ received \in 0..MaxBytes
    BY DEF RInv, TypeOK
  <2>2. /\ openings < MaxOpenings /\ openings' = openings + 1
        /\ impl' = impl /\ received' = received
    BY DEF InitPort
  <2> QED BY <2>1, <2>2, StateReaderAssumption DEF Openings
<1>2. k0 \notin Begun(loop)
  BY <1>1 DEF RInv, BegunByOpening
<1>3. /\ Cancelled \in Loops
      /\ \A k \in Openings : /\ Cancelled[k].at = IF loop[k].at = "reading" THEN "error"
                                                    ELSE loop[k].at
                             /\ Cancelled[k].mixed => loop[k].mixed
                             /\ loop[k].bytes = <<>> => Cancelled[k].bytes = <<>>
  BY CancelledLoops DEF RInv, LoopType
<1>4. Begun(Cancelled) = Begun(loop)
  BY <1>3 DEF Begun
<1>5. Cancelled[k0].at = "none" /\ Cancelled[k0].bytes = <<>>
  BY <1>1, <1>2, <1>3 DEF Begun, Loops
<1>6. \A i \in Openings : Cancelled[i].mixed => \E j \in Begun(Cancelled) : j # i
  BY <1>3, <1>4 DEF RInv, MixedIsTwo
<1>7. buffer # <<>> => \E i \in Openings : Cancelled[i].at \notin {"none", "spawned"}
  BY <1>3 DEF RInv, BufferIsOfLoop
<1>8. /\ overtaken' \subseteq Openings /\ overtaken \subseteq overtaken'
      /\ \A k \in Openings : loop[k].at \in {"data", "spawned"} => k \in overtaken'
  BY DEF InitPort, Overtake, Waits, RInv, TypeOK
<1>9. ASSUME loop' \in Loops, buffer' \in Seq(Byte),
             stopped' \in {"no", "assertion", "memory"},
             Begun(loop') \subseteq Begun(loop) \cup {k0},
             \A j \in Openings \ {k0} : loop'[j].at = Cancelled[j].at,
             MixedIsTwo', StoppedIsTwo', BufferIsOfLoop'
      PROVE  RInv'
  <2>1. initOk' \in BOOLEAN /\ isOpen' \in BOOLEAN
    BY DEF InitPort
  <2>2. TypeOK' /\ LoopType'
    <3>1. TypeOK
      BY DEF RInv
    <3>2. openings' \in 0..MaxOpenings
      BY <1>1, StateReaderAssumption
    <3> QED BY <1>1, <1>8, <1>9, <2>1, <3>1, <3>2, TypeFromLoops
  <2>3. BegunByOpening'
    <3>1. Begun(loop) \subseteq 1..openings
      BY DEF RInv, BegunByOpening
    <3>2. 1..openings \subseteq 1..k0 /\ k0 \in 1..k0
      BY <1>1
    <3>3. Begun(loop') \subseteq 1..openings'
      BY <1>1, <1>9, <3>1, <3>2
    <3> QED BY <3>3 DEF BegunByOpening
  <2>4. OldLoops'
    BY <1>1, <1>3, <1>8, <1>9 DEF OldLoops
  <2> QED BY <1>9, <2>2, <2>3, <2>4 DEF RInv
<1>10. CASE loop' = Cancelled /\ UNCHANGED <<buffer, stopped>>
  <2>1. MixedIsTwo' /\ StoppedIsTwo' /\ BufferIsOfLoop'
    BY <1>4, <1>6, <1>7, <1>10 DEF RInv, MixedIsTwo, StoppedIsTwo, BufferIsOfLoop, Two
  <2>2. buffer \in Seq(Byte) /\ stopped \in {"no", "assertion", "memory"}
    BY DEF RInv, TypeOK
  <2> QED BY <1>3, <1>4, <1>9, <1>10, <2>1, <2>2
<1>11. CASE FindStart(Cancelled, k0, TRUE)
  <2>1. TypeOK /\ StoppedIsTwo
    BY DEF RInv
  <2>2. /\ loop' \in Loops
        /\ buffer' = <<>> /\ stopped' \in {"no", "assertion", "memory"}
        /\ Begun(loop') = Begun(Cancelled) \cup {k0}
        /\ \A j \in Openings \ {k0} : loop'[j].at = Cancelled[j].at
        /\ MixedIsTwo' /\ StoppedIsTwo'
    BY <1>1, <1>3, <1>4, <1>5, <1>6, <1>7, <1>11, <2>1, FindStartStep
  <2>3. BufferIsOfLoop' /\ buffer' \in Seq(Byte)
    <3>1. <<>> \in Seq(Byte)
      OBVIOUS
    <3> QED BY <2>2, <3>1 DEF BufferIsOfLoop
  <2> QED BY <1>4, <1>9, <2>2, <2>3
<1>12. CASE loop' = [Cancelled EXCEPT ![k0].at = "spawned"] /\ UNCHANGED <<buffer, stopped>>
  <2>1. /\ loop' \in Loops /\ loop'[k0].at = "spawned"
        /\ \A j \in Openings \ {k0} : loop'[j] = Cancelled[j]
        /\ loop'[k0].mixed = Cancelled[k0].mixed
    <3>1. "spawned" \in Ats \ {"data"}
      BY DEF Ats
    <3>2. [Cancelled EXCEPT ![k0].at = "spawned"] \in Loops
      BY <1>1, <1>3, <1>5, <3>1, SetAt
    <3> QED BY <1>1, <1>3, <1>5, <1>12, <3>1, <3>2, SetAt
  <2>2. Begun(loop') = Begun(Cancelled) \cup {k0}
    BY <1>1, <2>1 DEF Begun
  <2>3. MixedIsTwo'
    BY <1>6, <2>1, <2>2 DEF MixedIsTwo
  <2>4. StoppedIsTwo'
    BY <1>4, <1>12, <2>2 DEF RInv, StoppedIsTwo, Two
  <2>5. BufferIsOfLoop'
    BY <1>5, <1>7, <1>12, <2>1 DEF BufferIsOfLoop
  <2>6. buffer \in Seq(Byte) /\ stopped \in {"no", "assertion", "memory"}
    BY DEF RInv, TypeOK
  <2> QED BY <1>4, <1>9, <1>12, <2>1, <2>2, <2>3, <2>4, <2>5, <2>6
<1> QED BY <1>1, <1>10, <1>11, <1>12 DEF InitPort, Start

(* The steps of one loop.                                                  *)
LEMMA LoopOnly ==
  ASSUME RInv, NEW k \in Openings, UNCHANGED <<impl, portVars, overtaken>>,
         received' \in 0..MaxBytes, loop' \in Loops, buffer' \in Seq(Byte),
         stopped' \in {"no", "assertion", "memory"}, Begun(loop') = Begun(loop),
         \A j \in Openings \ {k} : loop'[j].at = loop[j].at,
         loop[k].at \in {"spawned", "reading", "data"}
           \/ loop'[k].at \notin {"spawned", "reading", "data"},
         MixedIsTwo', StoppedIsTwo', BufferIsOfLoop'
  PROVE  RInv'
<1>1. TypeOK
  BY DEF RInv
<1>2. /\ overtaken' \subseteq Openings /\ impl' = impl
      /\ initOk' \in BOOLEAN /\ isOpen' \in BOOLEAN /\ openings' \in 0..MaxOpenings
  BY <1>1 DEF TypeOK, portVars
<1>3. TypeOK' /\ LoopType'
  BY <1>1, <1>2, TypeFromLoops
<1>4. BegunByOpening' /\ OldLoops'
  BY DEF RInv, BegunByOpening, OldLoops, portVars
<1> QED BY <1>3, <1>4 DEF RInv

LEMMA BeginStep == ASSUME RInv, NEW k \in Openings, Begin(k) PROVE RInv'
<1>1. /\ loop[k].at = "spawned" /\ FindStart(loop, k, isOpen)
      /\ UNCHANGED <<impl, portVars, overtaken, received>>
  BY DEF Begin
<1>2. /\ TypeOK /\ StoppedIsTwo /\ isOpen \in BOOLEAN /\ loop \in Loops
      /\ received \in 0..MaxBytes
  BY DEF RInv, TypeOK, LoopType
<1>3. loop[k].bytes = <<>> /\ k \in Begun(loop)
  BY <1>1, <1>2 DEF Loops, Begun
<1>4. /\ \A i \in Openings : loop[i].mixed => \E j \in Begun(loop) : j # i
      /\ buffer # <<>> => \E i \in Openings : loop[i].at \notin {"none", "spawned"}
  BY DEF RInv, MixedIsTwo, BufferIsOfLoop
<1>5. /\ loop' \in Loops
      /\ buffer' = <<>> /\ stopped' \in {"no", "assertion", "memory"}
      /\ Begun(loop') = Begun(loop) \cup {k}
      /\ \A j \in Openings \ {k} : loop'[j].at = loop[j].at
      /\ MixedIsTwo' /\ StoppedIsTwo'
  BY <1>1, <1>2, <1>3, <1>4, FindStartStep
<1>6. BufferIsOfLoop' /\ buffer' \in Seq(Byte) /\ Begun(loop') = Begun(loop)
  <2>1. <<>> \in Seq(Byte)
    OBVIOUS
  <2> QED BY <1>3, <1>5, <2>1 DEF BufferIsOfLoop
<1> QED BY <1>1, <1>2, <1>5, <1>6, LoopOnly

(* A step that changes one loop, which has begun, and does not mix it.     *)
LEMMA OneLoop ==
  ASSUME RInv, NEW k \in Openings, loop[k].at # "none", NEW l \in LoopRecord,
         loop' = [loop EXCEPT ![k] = l], l.at \notin {"none", "spawned"},
         l.bytes # <<>> <=> l.at = "data",
         l.mixed => loop[k].mixed
  PROVE  /\ loop' \in Loops /\ Begun(loop') = Begun(loop)
         /\ loop'[k] = l
         /\ \A j \in Openings \ {k} : loop'[j] = loop[j]
         /\ MixedIsTwo'
         /\ buffer' = buffer => BufferIsOfLoop'
         /\ stopped' = stopped => StoppedIsTwo'
<1>1. loop \in [Openings -> LoopRecord] /\ loop \in Loops
  BY DEF RInv, LoopType, Loops
<1>2. /\ loop' \in [Openings -> LoopRecord] /\ loop'[k] = l
      /\ \A j \in Openings \ {k} : loop'[j] = loop[j]
  BY <1>1
<1>3. loop' \in Loops
  BY <1>1, <1>2 DEF Loops
<1>4. Begun(loop') = Begun(loop)
  BY <1>2 DEF Begun
<1>5. MixedIsTwo'
  BY <1>2, <1>4 DEF RInv, MixedIsTwo
<1>6. buffer' = buffer => BufferIsOfLoop'
  BY <1>2 DEF RInv, BufferIsOfLoop
<1>7. stopped' = stopped => StoppedIsTwo'
  BY <1>4 DEF RInv, StoppedIsTwo, Two
<1> QED BY <1>2, <1>3, <1>4, <1>5, <1>6, <1>7

LEMMA BytesArriveStep == ASSUME RInv, NEW k \in Openings, BytesArrive(k) PROVE RInv'
<1>1. PICK n \in 1..2 : \E bytes \in [1..n -> Byte] :
        /\ received + n <= MaxBytes
        /\ received' = received + n
        /\ loop' = [loop EXCEPT ![k].at = "data", ![k].bytes = bytes]
  BY DEF BytesArrive
<1>2. PICK bytes \in [1..n -> Byte] :
        /\ received + n <= MaxBytes
        /\ received' = received + n
        /\ loop' = [loop EXCEPT ![k].at = "data", ![k].bytes = bytes]
  BY <1>1
<1>3. /\ loop[k].at = "reading" /\ loop \in [Openings -> LoopRecord]
      /\ UNCHANGED <<impl, portVars, overtaken, buffer, stopped>>
  BY DEF BytesArrive, RInv, LoopType, Loops
<1>4. bytes \in Seq(Byte) /\ bytes # <<>>
  <2>1. n \in Nat /\ DOMAIN bytes = 1..n /\ 1 \in DOMAIN bytes
    BY <1>2
  <2>2. \A i \in DOMAIN <<>> : FALSE
    OBVIOUS
  <2> QED BY <2>1, <2>2, SeqDef
<1> DEFINE l == [loop[k] EXCEPT !.at = "data", !.bytes = bytes]
<1>5. /\ l \in LoopRecord /\ l.at = "data" /\ l.bytes = bytes
      /\ l.mixed = loop[k].mixed
  BY <1>3, <1>4 DEF LoopRecord, Ats
<1>6. loop' = [loop EXCEPT ![k] = l]
  BY <1>2, <1>3
<1> HIDE DEF l
<1>7. /\ loop' \in Loops /\ Begun(loop') = Begun(loop) /\ loop'[k] = l
      /\ \A j \in Openings \ {k} : loop'[j] = loop[j]
      /\ MixedIsTwo' /\ BufferIsOfLoop' /\ StoppedIsTwo'
  BY <1>3, <1>4, <1>5, <1>6, OneLoop
<1>8. received' \in 0..MaxBytes /\ buffer' \in Seq(Byte)
        /\ stopped' \in {"no", "assertion", "memory"}
  <2>1. /\ received \in 0..MaxBytes /\ buffer \in Seq(Byte)
        /\ stopped \in {"no", "assertion", "memory"}
    BY DEF RInv, TypeOK
  <2>2. received + n \in 0..MaxBytes
    <3>1. received + n <= MaxBytes /\ n \in 1..2 /\ MaxBytes \in Nat
      BY <1>2, StateReaderAssumption
    <3> QED BY <2>1, <3>1
  <2> QED BY <1>2, <1>3, <2>1, <2>2
<1> QED BY <1>3, <1>7, <1>8, LoopOnly

LEMMA ErrorStep ==
  ASSUME RInv, NEW k \in Openings, ReadFails(k) \/ EndLoop(k)
  PROVE  RInv'
<1>1. /\ loop[k].at \in {"reading", "error"} /\ loop \in [Openings -> LoopRecord]
      /\ UNCHANGED <<impl, portVars, overtaken, buffer, received, stopped>>
      /\ loop[k].bytes = <<>>
  BY DEF ReadFails, EndLoop, RInv, LoopType, Loops
<1>2. /\ received' \in 0..MaxBytes /\ buffer' \in Seq(Byte)
      /\ stopped' \in {"no", "assertion", "memory"}
  BY <1>1 DEF RInv, TypeOK
<1>3. PICK l \in LoopRecord : /\ l.at \in {"error", "ended"} /\ l.bytes = <<>>
                              /\ l.mixed => loop[k].mixed
                              /\ loop' = [loop EXCEPT ![k] = l]
  <2>1. CASE ReadFails(k)
    <3>1. [NoLoop EXCEPT !.at = "error"] \in LoopRecord
      BY NoLoopType DEF Ats
    <3> QED BY <2>1, <3>1 DEF ReadFails, NoLoop
  <2>2. CASE EndLoop(k)
    <3>1. [loop[k] EXCEPT !.at = "ended"] \in LoopRecord
      BY <1>1 DEF LoopRecord, Ats
    <3>2. loop' = [loop EXCEPT ![k] = [loop[k] EXCEPT !.at = "ended"]]
      BY <1>1, <2>2 DEF EndLoop
    <3>3. /\ [loop[k] EXCEPT !.at = "ended"].at = "ended"
          /\ [loop[k] EXCEPT !.at = "ended"].bytes = <<>>
          /\ [loop[k] EXCEPT !.at = "ended"].mixed = loop[k].mixed
      BY <1>1 DEF LoopRecord
    <3> QED BY <3>1, <3>2, <3>3
  <2> QED BY <2>1, <2>2
<1>4. /\ loop' \in Loops /\ Begun(loop') = Begun(loop) /\ loop'[k] = l
      /\ \A j \in Openings \ {k} : loop'[j] = loop[j]
      /\ MixedIsTwo' /\ BufferIsOfLoop' /\ StoppedIsTwo'
  BY <1>1, <1>3, OneLoop
<1> QED BY <1>1, <1>2, <1>3, <1>4, LoopOnly

LEMMA TakeBytesStep == ASSUME RInv, NEW k \in Openings, TakeBytes(k) PROVE RInv'
<1>1. /\ loop[k].at = "data" /\ loop \in Loops /\ loop[k] \in LoopRecord
      /\ UNCHANGED <<impl, portVars, overtaken, received>>
      /\ isOpen \in BOOLEAN /\ buffer \in Seq(Byte)
      /\ stopped \in {"no", "assertion", "memory"} /\ received \in 0..MaxBytes
  BY DEF TakeBytes, RInv, TypeOK, LoopType, Loops
<1>2. k \in Begun(loop) /\ received' \in 0..MaxBytes
  BY <1>1 DEF Begun
<1>3. ASSUME NEW bytes \in Committed(loop[k]), buffer' = buffer \o bytes,
             loop' = StartRead(loop, k, isOpen), stopped' = stopped
      PROVE  RInv'
  <2>1. bytes \in Seq(Byte)
    <3>1. loop[k].bytes \in Seq(Byte)
      BY <1>1 DEF LoopRecord
    <3>2. PICK n \in Nat : DOMAIN loop[k].bytes = 1..n
      BY <3>1
    <3>3. [1..n -> Byte] \subseteq Seq(Byte)
      BY SeqDef
    <3> QED BY <1>3, <3>1, <3>2, <3>3 DEF Committed
  <2>2. buffer' \in Seq(Byte)
    <3>1. buffer \o bytes \in Seq(Byte)
      BY <1>1, <2>1
    <3> QED BY <1>3, <3>1
  <2>3. /\ loop' \in Loops
        /\ loop'[k].at = IF isOpen THEN "reading" ELSE "error"
        /\ \A j \in Openings \ {k} : loop'[j].at = loop[j].at
        /\ \A j \in Openings :
             loop'[j].mixed => loop[j].mixed \/ \E i \in Begun(loop) \cup {k} : i # j
    <3>1. k \in Openings
      OBVIOUS
    <3> DEFINE new == StartRead(loop, k, isOpen)
    <3>2. /\ new \in Loops
          /\ new[k].at = IF isOpen THEN "reading" ELSE "error"
          /\ \A j \in Openings \ {k} : new[j].at = loop[j].at
          /\ \A j \in Openings :
               new[j].mixed => loop[j].mixed \/ \E i \in Begun(loop) \cup {k} : i # j
      BY <1>1, <3>1, StartReadLoops
    <3> QED BY <1>3, <3>2
  <2>4. Begun(loop') = Begun(loop)
    BY <1>2, <2>3 DEF Begun
  <2>5. MixedIsTwo'
    BY <1>2, <2>3, <2>4 DEF RInv, MixedIsTwo
  <2>6. StoppedIsTwo'
    BY <1>3, <2>4 DEF RInv, StoppedIsTwo, Two
  <2>7. BufferIsOfLoop'
    BY <2>3 DEF BufferIsOfLoop
  <2>8. stopped' \in {"no", "assertion", "memory"}
    BY <1>1, <1>3
  <2> QED BY <1>1, <1>2, <2>2, <2>3, <2>4, <2>5, <2>6, <2>7, <2>8, LoopOnly
<1>4. ASSUME loop[k].mixed, stopped' = "memory", UNCHANGED <<loop, buffer>>
      PROVE  RInv'
  <2>1. Two
    BY <1>2, <1>4 DEF RInv, MixedIsTwo, Two
  <2>2. StoppedIsTwo' /\ MixedIsTwo' /\ BufferIsOfLoop'
    BY <1>4, <2>1 DEF RInv, StoppedIsTwo, Two, MixedIsTwo, BufferIsOfLoop
  <2>3. loop' \in Loops /\ Begun(loop') = Begun(loop) /\ buffer' \in Seq(Byte)
    BY <1>1, <1>4
  <2> QED BY <1>1, <1>2, <1>4, <2>2, <2>3, LoopOnly
<1> QED BY <1>1, <1>3, <1>4 DEF TakeBytes

LEMMA StepRInv == RInv /\ [Next]_vars => RInv'
<1> SUFFICES ASSUME RInv, [Next]_vars PROVE RInv'
  OBVIOUS
<1>1. CASE InitPort
  BY <1>1, InitPortStep
<1>2. ASSUME NEW k \in Openings, LoopStep(k) PROVE RInv'
  BY <1>2, BeginStep, BytesArriveStep, ErrorStep, TakeBytesStep DEF LoopStep
<1>3. CASE UNCHANGED vars
  BY <1>3 DEF RInv, TypeOK, LoopType, BegunByOpening, OldLoops, BufferIsOfLoop,
              MixedIsTwo, StoppedIsTwo, Two, vars, portVars
<1> QED BY <1>1, <1>2, <1>3 DEF Next

LEMMA RInvHolds == Spec => []RInv
  BY InitRInv, StepRInv, PTL DEF Spec

-----------------------------------------------------------------------------
LEMMA TwoLoops == RInv => FirstLoopIsSafe
<1> SUFFICES ASSUME RInv, stopped # "no"
             PROVE  Cardinality({k \in Openings : loop[k].at # "none"}) > 1
  BY DEF FirstLoopIsSafe, RInv
<1>1. PICK i, j \in Begun(loop) : i # j
  BY DEF RInv, StoppedIsTwo, Two
<1>2. IsFiniteSet(Begun(loop)) /\ Cardinality(Begun(loop)) \in Nat
  <2>1. IsFiniteSet(Openings)
    <3>1. 1 \in Int /\ MaxOpenings \in Int
      BY StateReaderAssumption
    <3>2. IsFiniteSet(1..MaxOpenings)
      BY <3>1, FS_Interval
    <3> QED BY <3>2 DEF Openings
  <2>2. Begun(loop) \in SUBSET Openings
    BY DEF Begun
  <2>3. IsFiniteSet(Begun(loop))
    BY <2>1, <2>2, FS_Subset
  <2> QED BY <2>3, FS_CardinalityType
<1>3. Cardinality(Begun(loop)) # 0
  BY <1>1, <1>2, FS_EmptySet
<1>4. Cardinality(Begun(loop)) # 1
  <2>1. SUFFICES ASSUME NEW x, Begun(loop) = {x} PROVE FALSE
    BY <1>2, FS_Singleton
  <2> QED BY <1>1, <2>1
<1>5. Cardinality(Begun(loop)) > 1
  BY <1>2, <1>3, <1>4
<1> QED BY <1>5 DEF Begun

(* Every variable keeps its type; bytes wait only with a read that has     *)
(* completed; and as long as one loop was started, nothing the flight      *)
(* controller sends ends the program.                                      *)
THEOREM OneLoopIsSafe == Spec => []FirstLoopIsSafe
  BY RInvHolds, TwoLoops, PTL

(* A loop of an earlier opening reads from a later one only when initPort  *)
(* overtook its handler or its beginning.                                  *)
THEOREM EarlierLoopsEnd == Spec => []OldLoopsEnd
<1>1. RInv => OldLoopsEnd
  BY DEF RInv, OldLoops, OldLoopsEnd, Reads, Waits
<1> QED BY <1>1, RInvHolds, PTL

(* Once the port is initialised and every loop has ended, none begins.     *)
THEOREM EndIsFinal == Spec => EndedForGood
<1> DEFINE E == Waits("none") \cup Waits("ended") = Openings
           P == initOk /\ E
<1>1. P /\ [Next]_vars => P'
  <2> SUFFICES ASSUME P, [Next]_vars PROVE P'
    OBVIOUS
  <2>1. \A k \in Openings : loop[k].at \in {"none", "ended"}
    BY DEF Waits
  <2>2. CASE InitPort
    BY <2>2 DEF InitPort
  <2>3. ASSUME NEW k \in Openings, LoopStep(k) PROVE P'
    BY <2>1, <2>3 DEF LoopStep, Begin, BytesArrive, ReadFails, TakeBytes, EndLoop
  <2>4. CASE UNCHANGED vars
    BY <2>4 DEF vars, portVars, Waits
  <2> QED BY <2>2, <2>3, <2>4 DEF Next
<1>2. P => E
  OBVIOUS
<1> HIDE DEF E, P
<1>3. Spec => [](P => []E)
  BY <1>1, <1>2, PTL DEF Spec
<1> QED BY <1>3, PTL DEF EndedForGood, E, P

-----------------------------------------------------------------------------
(* The bytes that are sent.                                                *)
Octet == 0..255

-----------------------------------------------------------------------------
(* The bounds of int16_t and of uint16_t, as names.                        *)
Least == -32768
Most  == 32767
Short == Least..Most
Wide  == 65535
Word  == 0..Wide

LEMMA BoundsAre == Least = -32768 /\ Most = 32767
BY DEF Least, Most

LEMMA WideIs == Wide \in Nat /\ Wide < 65536
BY DEF Wide

LEMMA BoundsOrdered ==
  Most \in Nat /\ Most >= 360 /\ Least \in Int /\ Least < -Most
BY DEF Most, Least

LEMMA SmallFits ==
  ASSUME NEW n \in Nat, n <= Most
  PROVE  n \in Short /\ -n \in Short
BY BoundsOrdered DEF Short

LEMMA Below == ASSUME NEW k \in Nat, k < 65536 PROVE k % 65536 = k
OBVIOUS

(* What int16_t keeps of a number.                                         *)
LEMMA Int16Is ==
  ASSUME NEW n \in Int
  PROVE  /\ Int16(n) \in Short
         /\ n \in Short => Int16(n) = n
         /\ (Int16(n) - n) % 65536 = 0
         /\ Int16(n % 65536) = Int16(n)
<1> DEFINE q == (n + 32768) \div 65536
           m == (n + 32768) % 65536
<1>1. q \in Int /\ m \in 0..65535 /\ n + 32768 = 65536 * q + m /\ Int16(n) = m - 32768
  BY DEF Int16
<1>2. Int16(n % 65536) = Int16(n)
  BY DEF Int16
<1> HIDE DEF q, m
<1>3. Int16(n) \in Short
  BY <1>1, BoundsAre, BoundsOrdered DEF Short
<1>4. ASSUME n \in Short PROVE Int16(n) = n
  <2>1. n + 32768 \in Nat /\ n + 32768 < 65536
    BY <1>4, BoundsAre, BoundsOrdered DEF Short
  <2>2. (n + 32768) % 65536 = n + 32768
    BY <2>1, Below
  <2> QED BY <2>1, <2>2 DEF Int16
<1>5. (Int16(n) - n) % 65536 = 0
  <2>1. Int16(n) - n = 65536 * (-q)
    BY <1>1
  <2>2. (65536 * (-q)) % 65536 = 0
    BY <1>1
  <2> QED BY <2>1, <2>2
<1> QED BY <1>2, <1>3, <1>4, <1>5

LEMMA Halves ==
  ASSUME NEW m \in Word
  PROVE  m % 256 \in Octet /\ m \div 256 \in Octet /\ (m % 256) + 256 * (m \div 256) = m
<1>1. m \in Nat /\ m < 65536
  BY WideIs DEF Word
<1>2. PICK q \in Nat, r \in Nat : q = m \div 256 /\ r = m % 256
  BY <1>1
<1>3. r < 256 /\ m = 256 * q + r
  BY <1>1, <1>2
<1>4. q < 256
  BY <1>1, <1>3
<1>5. q \in Octet /\ r \in Octet /\ r + 256 * q = m
  BY <1>3, <1>4 DEF Octet
<1> QED BY <1>2, <1>5, Zenon

(* Two bytes hold them, and their reader gets them back.                   *)
LEMMA TwoBytes ==
  ASSUME NEW n \in Int
  PROVE  /\ LittleEndian(n) \in Seq(Octet) /\ Len(LittleEndian(n)) = 2
         /\ LittleEndian(n)[1] \in Octet /\ LittleEndian(n)[2] \in Octet
         /\ LittleEndian(n)[1] + 256 * LittleEndian(n)[2] = n % 65536
<1> DEFINE m == n % 65536
           q == n \div 65536
<1>1. m \in 0..65535 /\ q \in Int /\ n = 65536 * q + m
  OBVIOUS
<1>6. m = n % 65536 /\ m \in 0..65535
  OBVIOUS
<1>2. LittleEndian(n) = <<n % 256, m \div 256>>
  BY DEF LittleEndian
<1> HIDE DEF m, q
<1>3. n % 256 = m % 256
  <2>1. n = 256 * (256 * q) + m /\ 256 * q \in Int
    BY <1>1
  <2>2. \A k \in Int : (256 * k + m) % 256 = m % 256
    BY <1>1
  <2> QED BY <2>1, <2>2
<1>5. m % 256 \in Octet /\ m \div 256 \in Octet /\ (m % 256) + 256 * (m \div 256) = m
  <2>1. m \in Word
    BY <1>6 DEF Word, Wide
  <2> QED BY <2>1, Halves
<1>7. PICK a \in Octet, b \in Octet : a = m % 256 /\ b = m \div 256
  BY <1>5
<1>8. LittleEndian(n) = <<a, b>>
  BY <1>2, <1>3, <1>7
<1>9. /\ LittleEndian(n) \in Seq(Octet) /\ Len(LittleEndian(n)) = 2
      /\ LittleEndian(n)[1] = a /\ LittleEndian(n)[2] = b
  BY <1>8
<1>10. a + 256 * b = n % 65536
  BY <1>5, <1>6, <1>7
<1> QED BY <1>9, <1>10

LEMMA ReadsBack ==
  ASSUME NEW n \in Int
  PROVE  Int16(LittleEndian(n)[1] + 256 * LittleEndian(n)[2]) = Int16(n)
BY Int16Is, TwoBytes

-----------------------------------------------------------------------------
(* The checksum.  One more byte changes what is odd where it has a bit.    *)
LEMMA OddOfMore ==
  ASSUME NEW s \in Seq(Octet), NEW b \in Octet, NEW i \in 1..8
  PROVE  /\ Bit(b, i) \in {0, 1} /\ Odd(s, i) \in {0, 1}
         /\ Odd(Append(s, b), i) = (Odd(s, i) + Bit(b, i)) % 2
<1> DEFINE n == Len(s)
           Set(t) == {k \in DOMAIN t : Bit(t[k], i) = 1}
<1>1. n \in Nat /\ DOMAIN s = 1..n /\ Append(s, b) \in Seq(Octet)
      /\ DOMAIN Append(s, b) = 1..(n + 1)
      /\ Append(s, b)[n + 1] = b /\ \A k \in 1..n : Append(s, b)[k] = s[k]
  OBVIOUS
<1>2. Bit(b, i) \in {0, 1}
  <2>1. Weight[i] \in {1, 2, 4, 8, 16, 32, 64, 128}
    BY DEF Weight
  <2>2. b \div Weight[i] \in Int
    BY <2>1 DEF Octet
  <2> QED BY <2>2 DEF Bit
<1>3. IsFiniteSet(Set(s))
  <2>1. Set(s) \subseteq 1..n /\ IsFiniteSet(1..n)
    BY <1>1, FS_Interval
  <2> HIDE DEF Set
  <2> QED BY <2>1, FS_Subset
<1>4. Cardinality(Set(s)) \in Nat
  BY <1>3, FS_CardinalityType
<1>5. Set(Append(s, b)) = IF Bit(b, i) = 1 THEN Set(s) \cup {n + 1} ELSE Set(s)
  <2>1. \A k : k \in 1..(n + 1) <=> k \in 1..n \/ k = n + 1
    BY <1>1
  <2> HIDE DEF n
  <2>2. \A k : k \in Set(Append(s, b)) <=>
               k \in Set(s) \/ (k = n + 1 /\ Bit(b, i) = 1)
    BY <1>1, <2>1
  <2> HIDE DEF Set
  <2> QED BY <2>2
<1>6. n + 1 \notin Set(s)
  BY <1>1
<1> HIDE DEF Set
<1>7. Cardinality(Set(Append(s, b))) = Cardinality(Set(s)) + Bit(b, i)
  <2>1. CASE Bit(b, i) = 1
    BY <1>3, <1>4, <1>5, <1>6, <2>1, FS_AddElement
  <2>2. CASE Bit(b, i) = 0
    BY <1>4, <1>5, <2>2
  <2> QED BY <1>2, <2>1, <2>2
<1>8. Odd(s, i) = Cardinality(Set(s)) % 2 /\ Odd(Append(s, b), i) = Cardinality(Set(Append(s, b))) % 2
  BY DEF Odd, Set
<1> HIDE DEF n
<1> QED BY <1>2, <1>4, <1>7, <1>8

(* The bits of a number that is written as a sum of its bits.              *)
LEMMA BitsOfSum ==
  ASSUME NEW p \in [1..8 -> {0, 1}], NEW x,
         x = p[1] + 2 * p[2] + 4 * p[3] + 8 * p[4]
               + 16 * p[5] + 32 * p[6] + 64 * p[7] + 128 * p[8]
  PROVE  x \in Octet /\ \A i \in 1..8 : Bit(x, i) = p[i]
<1>1. /\ p[1] \in {0, 1} /\ p[2] \in {0, 1} /\ p[3] \in {0, 1} /\ p[4] \in {0, 1}
      /\ p[5] \in {0, 1} /\ p[6] \in {0, 1} /\ p[7] \in {0, 1} /\ p[8] \in {0, 1}
  OBVIOUS
<1>2. x \in Octet
  BY <1>1 DEF Octet
<1>3. \A i \in 1..8 : i \in {1, 2, 3, 4, 5, 6, 7, 8}
  OBVIOUS
<1>4. Bit(x, 1) = p[1]
  BY <1>1 DEF Bit, Weight
<1>5. Bit(x, 2) = p[2]
  BY <1>1 DEF Bit, Weight
<1>6. Bit(x, 3) = p[3]
  BY <1>1 DEF Bit, Weight
<1>7. Bit(x, 4) = p[4]
  BY <1>1 DEF Bit, Weight
<1>8. Bit(x, 5) = p[5]
  BY <1>1 DEF Bit, Weight
<1>9. Bit(x, 6) = p[6]
  BY <1>1 DEF Bit, Weight
<1>10. Bit(x, 7) = p[7]
  BY <1>1 DEF Bit, Weight
<1>11. Bit(x, 8) = p[8]
  BY <1>1 DEF Bit, Weight
<1> QED BY <1>2, <1>3, <1>4, <1>5, <1>6, <1>7, <1>8, <1>9, <1>10, <1>11

(* Bytes followed by their checksum have the checksum 0.                   *)
LEMMA ChecksumCancels ==
  ASSUME NEW s \in Seq(Octet)
  PROVE  Xor(s) \in Octet /\ Xor(Append(s, Xor(s))) = 0
<1> DEFINE x == Xor(s)
<1>1. \A i \in 1..8 : Odd(s, i) \in {0, 1}
  <2>1. 0 \in Octet
    BY DEF Octet
  <2> QED BY <2>1, OddOfMore
<1>2. x \in Octet /\ \A i \in 1..8 : Bit(x, i) = Odd(s, i)
  <2> DEFINE p == [i \in 1..8 |-> Odd(s, i)]
  <2>1. p \in [1..8 -> {0, 1}] /\ \A i \in 1..8 : p[i] = Odd(s, i)
    BY <1>1
  <2>2. x = p[1] + 2 * p[2] + 4 * p[3] + 8 * p[4]
              + 16 * p[5] + 32 * p[6] + 64 * p[7] + 128 * p[8]
    BY DEF Xor
  <2> HIDE DEF p, x
  <2> QED BY <2>1, <2>2, BitsOfSum
<1> HIDE DEF x
<1>3. \A i \in 1..8 : Odd(Append(s, x), i) = 0
  <2>1. ASSUME NEW i \in 1..8 PROVE Odd(Append(s, x), i) = 0
    <3>1. Odd(Append(s, x), i) = (Odd(s, i) + Odd(s, i)) % 2
      BY <1>2, OddOfMore
    <3> QED BY <1>1, <3>1
  <2> QED BY <2>1
<1>4. Xor(Append(s, x)) = 0
  BY <1>3 DEF Xor
<1> QED BY <1>2, <1>4 DEF x

-----------------------------------------------------------------------------
(* The layout of a frame.                                                  *)
Joins(u, s, t) ==
  /\ u \in Seq(Octet) /\ Len(u) = Len(s) + Len(t)
  /\ \A i \in 1..Len(s) : u[i] = s[i]
  /\ \A i \in 1..Len(t) : u[Len(s) + i] = t[i]

LEMMA Joined ==
  ASSUME NEW s \in Seq(Octet), NEW t \in Seq(Octet), NEW u, u = s \o t
  PROVE  Joins(u, s, t)
BY DEF Joins

(* The parts of a frame, one after the other.                              *)
Parts(bytes, n, head, payload, le, tail) ==
  /\ bytes \in Seq(Octet) /\ Len(bytes) = n + 7
  /\ \A i \in 1..3 : bytes[i] = head[i]
  /\ \A i \in 1..n : bytes[3 + i] = payload[i]
  /\ bytes[n + 4] = le[1] /\ bytes[n + 5] = le[2]
  /\ bytes[n + 6] = tail[1] /\ bytes[n + 7] = tail[2]

LEMMA PartsOf ==
  ASSUME NEW n \in Nat, NEW head \in Seq(Octet), Len(head) = 3,
         NEW payload \in Seq(Octet), Len(payload) = n,
         NEW le \in Seq(Octet), Len(le) = 2, NEW tail \in Seq(Octet), Len(tail) = 2,
         NEW bytes, bytes = ((head \o payload) \o le) \o tail
  PROVE  Parts(bytes, n, head, payload, le, tail)
<1>1. PICK hp : hp = head \o payload
  BY Zenon
<1>2. /\ hp \in Seq(Octet) /\ Len(hp) = n + 3
      /\ \A i \in 1..3 : hp[i] = head[i]
      /\ \A i \in 1..n : hp[3 + i] = payload[i]
  <2>1. Joins(hp, head, payload)
    BY <1>1, Joined
  <2> QED BY <2>1 DEF Joins
<1>3. PICK front : front = hp \o le
  BY Zenon
<1>4. /\ front \in Seq(Octet) /\ Len(front) = n + 5
      /\ \A i \in 1..(n + 3) : front[i] = hp[i]
      /\ \A i \in 1..2 : front[n + 3 + i] = le[i]
  <2>1. Joins(front, hp, le)
    BY <1>2, <1>3, Joined
  <2> QED BY <1>2, <2>1 DEF Joins
<1>5. bytes = front \o tail
  BY <1>1, <1>3
<1>6. /\ bytes \in Seq(Octet) /\ Len(bytes) = n + 7
      /\ \A i \in 1..(n + 5) : bytes[i] = front[i]
      /\ \A i \in 1..2 : bytes[n + 5 + i] = tail[i]
  <2>1. Joins(bytes, front, tail)
    BY <1>4, <1>5, Joined
  <2>2. 1..(Len(front) + Len(tail)) = 1..(n + 7) /\ Len(front) + Len(tail) = n + 7
    BY <1>4
  <2>3. Len(bytes) = n + 7 /\ bytes \in Seq(Octet)
    BY <2>1, <2>2 DEF Joins
  <2> QED BY <1>4, <2>1, <2>3 DEF Joins
<1>7. \A i \in 1..3 : i \in 1..(n + 3) /\ i \in 1..(n + 5)
  OBVIOUS
<1>8. \A i \in 1..n : 3 + i \in 1..(n + 3) /\ 3 + i \in 1..(n + 5)
  OBVIOUS
<1>9. /\ 1 \in 1..2 /\ 2 \in 1..2
      /\ n + 3 + 1 = n + 4 /\ n + 3 + 2 = n + 5
      /\ n + 5 + 1 = n + 6 /\ n + 5 + 2 = n + 7
  OBVIOUS
<1>10. bytes[n + 4] = le[1] /\ bytes[n + 5] = le[2]
  <2>1. n + 4 \in 1..(n + 5) /\ n + 5 \in 1..(n + 5)
    OBVIOUS
  <2>2. bytes[n + 4] = front[n + 4] /\ bytes[n + 5] = front[n + 5]
    BY <1>6, <2>1
  <2>3. front[n + 3 + 1] = le[1] /\ front[n + 3 + 2] = le[2]
    BY <1>4, <1>9
  <2> QED BY <1>9, <2>2, <2>3
<1>11. bytes[n + 6] = tail[1] /\ bytes[n + 7] = tail[2]
  <2>1. bytes[n + 5 + 1] = tail[1] /\ bytes[n + 5 + 2] = tail[2]
    BY <1>6, <1>9
  <2> QED BY <1>9, <2>1
<1> QED BY <1>2, <1>4, <1>6, <1>7, <1>8, <1>10, <1>11 DEF Parts

(* What is between the third byte of a sequence and its last.              *)
LEMMA Between ==
  ASSUME NEW n \in Nat, NEW bytes \in Seq(Octet), Len(bytes) = n + 7
  PROVE  /\ SubSeq(bytes, 4, n + 6) \in Seq(Octet) /\ Len(SubSeq(bytes, 4, n + 6)) = n + 3
         /\ \A i \in 1..(n + 3) : SubSeq(bytes, 4, n + 6)[i] = bytes[3 + i]
<1>1. \A i \in 4..(n + 6) : bytes[i] \in Octet
  OBVIOUS
<1>2. SubSeq(bytes, 4, n + 6) \in Seq(Octet)
  BY <1>1, SubSeqProperties
<1>3. Len(SubSeq(bytes, 4, n + 6)) = n + 3
  BY <1>1, SubSeqProperties
<1>4. \A i \in 1..(n + 3) : SubSeq(bytes, 4, n + 6)[i] = bytes[3 + i]
  BY <1>1, <1>3, SubSeqProperties
<1> QED BY <1>2, <1>3, <1>4

(* What a frame holds, place by place.                                     *)
Sealed(bytes, code, payload, n, id) ==
  /\ bytes \in Seq(Octet) /\ Len(bytes) = n + 7
  /\ bytes[1] = 170 /\ bytes[2] = code /\ bytes[3] = n + 2
  /\ \A i \in 1..n : bytes[3 + i] = payload[i]
  /\ bytes[n + 4] + 256 * bytes[n + 5] = id
  /\ bytes[n + 7] = 187
  /\ Xor(SubSeq(bytes, 4, n + 6)) = 0

LEMMA SealIs ==
  ASSUME NEW code \in Octet, NEW payload \in Seq(Octet), NEW n \in Nat, Len(payload) = n, n + 2 \in Octet,
         NEW id \in Word, NEW bytes, bytes = Seal(code, payload, id)
  PROVE  Sealed(bytes, code, payload, n, id)
<1>1. PICK le : le = LittleEndian(id)
  BY Zenon
<1>2. le \in Seq(Octet) /\ Len(le) = 2 /\ le[1] + 256 * le[2] = id
  <2>0. id \in Nat /\ id < 65536
    BY WideIs DEF Word
  <2>1. id \in Int /\ id % 65536 = id
    BY ONLY <2>0
  <2> QED BY <1>1, <2>1, TwoBytes
<1>3. PICK body : body = payload \o le
  BY Zenon
<1>4. /\ body \in Seq(Octet) /\ Len(body) = n + 2
      /\ \A i \in 1..n : body[i] = payload[i]
      /\ body[n + 1] = le[1] /\ body[n + 2] = le[2]
  <2>1. 1 \in 1..2 /\ 2 \in 1..2
    OBVIOUS
  <2>2. Joins(body, payload, le)
    BY <1>2, <1>3, Joined
  <2> QED BY <1>2, <2>1, <2>2 DEF Joins
<1>5. PICK x : x = Xor(body)
  BY Zenon
<1>6. x \in Octet /\ Xor(Append(body, x)) = 0
  BY <1>4, <1>5, ChecksumCancels
<1>7. PICK head : head = <<170, code, n + 2>>
  BY Zenon
<1>8. PICK tail : tail = <<x, 187>>
  BY Zenon
<1>9. 170 \in Octet /\ n + 2 \in Octet /\ 187 \in Octet
  BY DEF Octet
<1>10. /\ head \in Seq(Octet) /\ Len(head) = 3
       /\ head[1] = 170 /\ head[2] = code /\ head[3] = n + 2
  BY <1>7, <1>9
<1>11. tail \in Seq(Octet) /\ Len(tail) = 2 /\ tail[1] = x /\ tail[2] = 187
  BY <1>6, <1>8, <1>9
<1>12. bytes = ((head \o payload) \o le) \o tail
  BY <1>1, <1>3, <1>5, <1>7, <1>8 DEF Seal
<1>13. /\ bytes \in Seq(Octet) /\ Len(bytes) = n + 7
       /\ bytes[1] = 170 /\ bytes[2] = code /\ bytes[3] = n + 2
       /\ \A i \in 1..n : bytes[3 + i] = payload[i]
       /\ bytes[n + 4] = le[1] /\ bytes[n + 5] = le[2]
       /\ bytes[n + 6] = x /\ bytes[n + 7] = 187
  <2>1. 1 \in 1..3 /\ 2 \in 1..3 /\ 3 \in 1..3
    OBVIOUS
  <2>2. Parts(bytes, n, head, payload, le, tail)
    BY <1>2, <1>10, <1>11, <1>12, PartsOf
  <2>3. bytes[1] = 170 /\ bytes[2] = code /\ bytes[3] = n + 2
    BY <1>10, <2>1, <2>2 DEF Parts
  <2> QED BY <1>11, <2>2, <2>3 DEF Parts
<1>14. SubSeq(bytes, 4, n + 6) = Append(body, x)
  <2>1. /\ Append(body, x) \in Seq(Octet) /\ Len(Append(body, x)) = n + 3
        /\ \A i \in 1..(n + 2) : Append(body, x)[i] = body[i]
        /\ Append(body, x)[n + 3] = x
    BY <1>4, <1>6
  <2>2. /\ SubSeq(bytes, 4, n + 6) \in Seq(Octet) /\ Len(SubSeq(bytes, 4, n + 6)) = n + 3
        /\ \A i \in 1..(n + 3) : SubSeq(bytes, 4, n + 6)[i] = bytes[3 + i]
    BY <1>13, Between
  <2>3. ASSUME NEW i \in 1..(n + 3) PROVE SubSeq(bytes, 4, n + 6)[i] = Append(body, x)[i]
    <3>1. i \in 1..n \/ i = n + 1 \/ i = n + 2 \/ i = n + 3
      OBVIOUS
    <3>2. CASE i \in 1..n
      BY <1>4, <1>13, <2>1, <2>2, <3>2
    <3>3. CASE i \in {n + 1, n + 2, n + 3}
      BY <1>4, <1>13, <2>1, <2>2, <3>3
    <3> QED BY <3>1, <3>2, <3>3
  <2> QED BY <2>1, <2>2, <2>3
<1> QED BY <1>2, <1>6, <1>13, <1>14 DEF Sealed

Pairs(b, x, y, z, w) ==
  /\ b \in Seq(Octet) /\ Len(b) = 8
  /\ b[1] = x[1] /\ b[2] = x[2] /\ b[3] = y[1] /\ b[4] = y[2]
  /\ b[5] = z[1] /\ b[6] = z[2] /\ b[7] = w[1] /\ b[8] = w[2]

LEMMA FourPairs ==
  ASSUME NEW x \in Seq(Octet), Len(x) = 2, NEW y \in Seq(Octet), Len(y) = 2,
         NEW z \in Seq(Octet), Len(z) = 2, NEW w \in Seq(Octet), Len(w) = 2,
         NEW b, b = ((x \o y) \o z) \o w
  PROVE  Pairs(b, x, y, z, w)
<1>1. PICK u : u = x \o y
  BY Zenon
<1>2. Joins(u, x, y)
  BY <1>1, Joined
<1>3. /\ u \in Seq(Octet) /\ Len(u) = 4
      /\ \A i \in 1..2 : u[i] = x[i] /\ u[2 + i] = y[i]
  BY <1>2 DEF Joins
<1>4. PICK v : v = u \o z
  BY Zenon
<1>5. Joins(v, u, z)
  BY <1>3, <1>4, Joined
<1>6. /\ v \in Seq(Octet) /\ Len(v) = 6
      /\ \A i \in 1..4 : v[i] = u[i]
      /\ \A i \in 1..2 : v[4 + i] = z[i]
  BY <1>3, <1>5 DEF Joins
<1>7. b = v \o w
  BY <1>1, <1>4
<1>8. Joins(b, v, w)
  BY <1>6, <1>7, Joined
<1>9. /\ b \in Seq(Octet) /\ Len(b) = 8
      /\ \A i \in 1..6 : b[i] = v[i]
      /\ \A i \in 1..2 : b[6 + i] = w[i]
  BY <1>6, <1>8 DEF Joins
<1> QED BY <1>3, <1>6, <1>9 DEF Pairs

-----------------------------------------------------------------------------
(* What a mail holds, and its bytes.                                       *)
Axes == {"x", "y", "z", "cw"}

LEMMA StillBut ==
  ASSUME NEW axis \in Axes, NEW n \in Short
  PROVE  /\ Still \in [Axes -> Short] /\ \A a \in Axes : Still[a] = 0
         /\ [Still EXCEPT ![axis] = n] \in [Axes -> Short]
         /\ \A a \in Axes : [Still EXCEPT ![axis] = n][a] = IF a = axis THEN n ELSE 0
<1>1. 0 \in Short
  BY BoundsOrdered, SmallFits
<1>2. Still \in [Axes -> Short] /\ \A a \in Axes : Still[a] = 0
  BY <1>1 DEF Still, Axes
<1> QED BY <1>2

(* The numbers of a request that is accepted.                              *)
LEMMA Accepted ==
  ASSUME NEW r \in Requests, Acceptable(r)
  PROVE  /\ r.good /\ r.cmd \in DOMAIN AdditionCmd /\ r.mode \in Int
         /\ r.rockers \in [1..4 -> Int] /\ r.buttons \in [1..14 -> Int]
         /\ \A i \in 1..NumbersOf(r.cmd) :
              r.numbers[i] \in Int /\ r.numbers[i] \in Limits[r.cmd]
         /\ r.cmd \in DOMAIN Ways => r.way \in Ways[r.cmd]
<1>1. r.good /\ r.cmd \in DOMAIN AdditionCmd /\ r.numbers \in [1..NumbersOf(r.cmd) -> Int]
      /\ r.mode \in Int /\ r.rockers \in [1..4 -> Int] /\ r.buttons \in [1..14 -> Int]
  BY RequestsAssumption DEF Acceptable
<1>2. \A i \in 1..NumbersOf(r.cmd) : r.numbers[i] \in Int /\ i \in DOMAIN r.numbers
  BY <1>1
<1>3. \A i \in 1..NumbersOf(r.cmd) : r.numbers[i] \in Limits[r.cmd]
  BY <1>2 DEF Acceptable, InLimits
<1>4. r.cmd \in DOMAIN Ways => r.way \in Ways[r.cmd]
  BY DEF Acceptable
<1> QED BY <1>1, <1>2, <1>3, <1>4

LEMMA FitsShort ==
  ASSUME NEW n, n \in 0..Most \/ n \in 1..Most \/ n \in 0..360 \/ n \in 0..255
  PROVE  n \in Int /\ n \in Short /\ -n \in Short
<1>1. n \in Nat /\ n <= Most
  BY BoundsOrdered
<1> QED BY <1>1, SmallFits

LEMMA LimitsAre ==
  /\ Limits["rotate"] = 0..360 /\ Limits["speed"] = 1..Most /\ Limits["led"] = 0..255
  /\ \A c \in {"takeoff", "high", "move", "gotoPosition"} : Limits[c] = 0..Most
BY DEF Limits, Most

LEMMA LimitsFit ==
  ASSUME NEW n, NEW c \in {"takeoff", "high", "move", "rotate", "speed", "gotoPosition", "led"},
         n \in Limits[c]
  PROVE  n \in Int /\ n \in Short /\ -n \in Short
<1>1. CASE c \in {"takeoff", "high", "move", "gotoPosition"}
  <2>1. Limits[c] = 0..Most
    BY <1>1, LimitsAre, Zenon
  <2>2. n \in 0..Most
    BY <2>1, Zenon
  <2> QED BY <2>2, FitsShort
<1>2. CASE c = "rotate"
  <2>1. n \in 0..360
    BY <1>2, LimitsAre
  <2> QED BY <2>1, FitsShort
<1>3. CASE c = "speed"
  <2>1. n \in 1..Most
    BY <1>3, LimitsAre
  <2> QED BY <2>1, FitsShort
<1>4. CASE c = "led"
  <2>1. n \in 0..255
    BY <1>4, LimitsAre
  <2> QED BY <2>1, FitsShort
<1> QED BY <1>1, <1>2, <1>3, <1>4

LEMMA NumbersAre ==
  /\ \A c \in {"takeoff", "high", "move", "rotate", "speed"} : 1 \in 1..NumbersOf(c)
  /\ \A c \in {"gotoPosition", "led"} :
       1 \in 1..NumbersOf(c) /\ 2 \in 1..NumbersOf(c) /\ 3 \in 1..NumbersOf(c)
BY DEF NumbersOf

(* The numbers by which an accepted command moves fit two bytes, negated   *)
(* too.                                                                    *)
LEMMA Fits ==
  ASSUME NEW r \in Requests, Acceptable(r), NEW i \in 1..NumbersOf(r.cmd),
         r.cmd \in {"takeoff", "high", "move", "rotate", "speed", "gotoPosition", "led"}
  PROVE  /\ r.numbers[i] \in Int /\ r.numbers[i] \in Short /\ -r.numbers[i] \in Short
         /\ Int16(r.numbers[i]) = r.numbers[i] /\ Int16(-r.numbers[i]) = -r.numbers[i]
<1>1. PICK n : n = r.numbers[i]
  BY Zenon
<1>2. n \in Int /\ n \in Limits[r.cmd]
  BY <1>1, Accepted
<1>4. n \in Short /\ -n \in Short /\ -n \in Int
  BY <1>2, LimitsFit
<1>5. Int16(n) = n /\ Int16(-n) = -n
  BY <1>2, <1>4, Int16Is
<1> QED BY <1>1, <1>2, <1>4, <1>5

(* The four axes of an accepted command.                                   *)
Way(r, way) == IF r.way = way THEN r.numbers[1] ELSE 0

LEMMA DirectedIs ==
  ASSUME NEW r \in Requests, Acceptable(r), r.cmd \in {"move", "rotate"}
  PROVE  /\ Directed(r) \in [Axes -> Short]
         /\ r.cmd = "move" =>
              /\ Directed(r).x = Way(r, "forward") - Way(r, "back")
              /\ Directed(r).z = Way(r, "right") - Way(r, "left")
              /\ Directed(r).y = Way(r, "up") - Way(r, "down") /\ Directed(r).cw = 0
         /\ r.cmd = "rotate" =>
              /\ Directed(r).cw = Way(r, "cw") - Way(r, "ccw")
              /\ Directed(r).x = 0 /\ Directed(r).y = 0 /\ Directed(r).z = 0
<1>1. PICK n : n = r.numbers[1]
  BY Zenon
<1>2. n \in Int /\ n \in Short /\ -n \in Short /\ Int16(n) = n /\ Int16(-n) = -n
  <2>1. 1 \in 1..NumbersOf(r.cmd)
    BY NumbersAre
  <2> QED BY <1>1, <2>1, Fits
<1>3. /\ r.cmd = "move" => r.way \in {"up", "down", "left", "right", "forward", "back"}
      /\ r.cmd = "rotate" => r.way \in {"cw", "ccw"}
  BY Accepted DEF Ways
<1>4. PICK axis, m : axis = AxisOf[r.way] /\ m = Int16(SignOf[r.way] * n)
  BY Zenon
<1>5. /\ r.way \in {"up", "down"} => axis = "y"
      /\ r.way \in {"left", "right"} => axis = "z"
      /\ r.way \in {"forward", "back"} => axis = "x"
      /\ r.way \in {"cw", "ccw"} => axis = "cw"
  BY <1>4 DEF AxisOf
<1>6. /\ r.way \in {"up", "right", "forward", "cw"} => m = n
      /\ r.way \in {"down", "left", "back", "ccw"} => m = -n
  <2>1. /\ r.way \in {"up", "right", "forward", "cw"} => SignOf[r.way] = 1
        /\ r.way \in {"down", "left", "back", "ccw"} => SignOf[r.way] = -1
    BY DEF SignOf
  <2>2. 1 * n = n /\ (-1) * n = -n
    BY <1>2
  <2> QED BY <1>2, <1>4, <2>1, <2>2
<1>7. axis \in Axes /\ m \in Short
  BY <1>2, <1>3, <1>5, <1>6 DEF Axes
<1>8. PICK d : d = Directed(r)
  BY Zenon
<1>9. d \in [Axes -> Short] /\ \A a \in Axes : d[a] = IF a = axis THEN m ELSE 0
  <2>1. d = [Still EXCEPT ![axis] = m]
    BY <1>1, <1>4, <1>8 DEF Directed
  <2> QED BY <1>7, <2>1, StillBut
<1>10. /\ d.x = IF axis = "x" THEN m ELSE 0
       /\ d.y = IF axis = "y" THEN m ELSE 0
       /\ d.z = IF axis = "z" THEN m ELSE 0
       /\ d.cw = IF axis = "cw" THEN m ELSE 0
  BY <1>9 DEF Axes
<1>11. ASSUME r.cmd = "move"
       PROVE  /\ d.x = Way(r, "forward") - Way(r, "back")
              /\ d.z = Way(r, "right") - Way(r, "left")
              /\ d.y = Way(r, "up") - Way(r, "down") /\ d.cw = 0
  <2>1. r.way \in {"up", "down", "left", "right", "forward", "back"}
    BY <1>3, <1>11
  <2> QED BY <1>1, <1>2, <1>5, <1>6, <1>10, <2>1 DEF Way
<1>12. ASSUME r.cmd = "rotate"
       PROVE  /\ d.cw = Way(r, "cw") - Way(r, "ccw")
              /\ d.x = 0 /\ d.y = 0 /\ d.z = 0
  <2>1. r.way \in {"cw", "ccw"}
    BY <1>3, <1>12
  <2> QED BY <1>1, <1>2, <1>5, <1>6, <1>10, <2>1 DEF Way
<1> QED BY <1>8, <1>9, <1>11, <1>12

(* What the four axes are for every command that has them.                 *)
SaysAxes(r, m) ==
  /\ r.cmd = "move" =>
       /\ m.x = Way(r, "forward") - Way(r, "back")
       /\ m.z = Way(r, "right") - Way(r, "left")
       /\ m.y = Way(r, "up") - Way(r, "down") /\ m.cw = 0
  /\ r.cmd = "rotate" =>
       /\ m.cw = Way(r, "cw") - Way(r, "ccw")
       /\ m.x = 0 /\ m.y = 0 /\ m.z = 0
  /\ r.cmd = "gotoPosition" =>
       m.z = r.numbers[1] /\ m.x = r.numbers[2] /\ m.y = r.numbers[3] /\ m.cw = 0
  /\ r.cmd \in {"takeoff", "high"} => m.y = r.numbers[1] /\ m.x = 0 /\ m.z = 0
  /\ r.cmd = "speed" => m.x = r.numbers[1] /\ r.numbers[1] > 0
  /\ r.cmd = "led" =>
       /\ m.x = r.numbers[1] /\ m.y = r.numbers[2] /\ m.z = r.numbers[3]
       /\ (m.cw - r.mode) % 65536 = 0
  /\ r.cmd = "flyMode" => (m.x - r.mode) % 65536 = 0

Placed(a, b, c) == [Still EXCEPT !.x = a, !.y = b, !.z = c]

LEMMA StillButThree ==
  ASSUME NEW a \in Short, NEW b \in Short, NEW c \in Short
  PROVE  /\ Placed(a, b, c) \in [Axes -> Short] /\ Placed(a, b, c).x = a
         /\ Placed(a, b, c).y = b /\ Placed(a, b, c).z = c /\ Placed(a, b, c).cw = 0
<1>1. PICK s : s = Still
  BY Zenon
<1>2. s \in [Axes -> Short] /\ s["cw"] = 0
  BY <1>1, StillBut, BoundsOrdered, SmallFits DEF Axes
<1>3. PICK u : u = [s EXCEPT !["x"] = a]
  BY Zenon
<1>4. PICK v : v = [u EXCEPT !["y"] = b]
  BY Zenon
<1>5. Placed(a, b, c) = [v EXCEPT !["z"] = c]
  BY <1>1, <1>3, <1>4 DEF Placed
<1>6. u \in [Axes -> Short] /\ u["x"] = a /\ u["cw"] = 0
  BY <1>2, <1>3 DEF Axes
<1>7. v \in [Axes -> Short] /\ v["x"] = a /\ v["y"] = b /\ v["cw"] = 0
  BY <1>4, <1>6 DEF Axes
<1> QED BY <1>5, <1>7 DEF Axes

LEMMA MoveCmdIs ==
  ASSUME NEW r \in Requests, Acceptable(r), r.cmd \in MoveClass \ {"stop", "keep"}
  PROVE  MoveCmd(r) \in [Axes -> Short] /\ SaysAxes(r, MoveCmd(r))
<1>1. PICK m : m = MoveCmd(r)
  BY Zenon
<1>2. "x" \in Axes /\ "y" \in Axes /\ "z" \in Axes /\ "cw" \in Axes
  BY DEF Axes
<1>3. CASE r.cmd \in {"takeoff", "high"}
  <2>1. PICK n : n = r.numbers[1]
    BY Zenon
  <2>2. n \in Short /\ Int16(n) = n
    BY <1>3, <2>1, NumbersAre, Fits
  <2>3. m = [Still EXCEPT !["y"] = n]
    BY <1>1, <1>3, <2>1, <2>2 DEF MoveCmd, Ways
  <2>4. m \in [Axes -> Short] /\ m.y = n /\ m.x = 0 /\ m.z = 0
    BY <1>2, <2>2, <2>3, StillBut
  <2> QED BY <1>1, <1>3, <2>1, <2>4 DEF SaysAxes
<1>4. CASE r.cmd = "speed"
  <2>1. PICK n : n = r.numbers[1]
    BY Zenon
  <2>2. n \in Short /\ Int16(n) = n
    BY <1>4, <2>1, NumbersAre, Fits
  <2>3. n > 0
    <3>1. n \in 1..Most
      BY <1>4, <2>1, NumbersAre, LimitsAre, Accepted
    <3> QED BY <3>1, BoundsOrdered
  <2>4. m = [Still EXCEPT !["x"] = n]
    BY <1>1, <1>4, <2>1, <2>2 DEF MoveCmd, Ways
  <2>5. m \in [Axes -> Short] /\ m.x = n
    BY <1>2, <2>2, <2>4, StillBut
  <2> QED BY <1>1, <1>4, <2>1, <2>3, <2>5 DEF SaysAxes
<1>5. CASE r.cmd = "flyMode"
  <2>1. PICK n : n = Int16(r.mode)
    BY Zenon
  <2>2. n \in Short /\ (n - r.mode) % 65536 = 0
    BY <2>1, Accepted, Int16Is
  <2>3. m = [Still EXCEPT !["x"] = n]
    BY <1>1, <1>5, <2>1 DEF MoveCmd, Ways
  <2>4. m \in [Axes -> Short] /\ m.x = n
    BY <1>2, <2>2, <2>3, StillBut
  <2> QED BY <1>1, <1>5, <2>2, <2>4 DEF SaysAxes
<1>6. CASE r.cmd = "land"
  <2>1. m = Still
    BY <1>1, <1>6 DEF MoveCmd, Ways
  <2>2. m \in [Axes -> Short]
    BY <1>2, <2>1, StillBut, BoundsOrdered, SmallFits
  <2> QED BY <1>1, <1>6, <2>2 DEF SaysAxes
<1>7. CASE r.cmd = "gotoPosition"
  <2>1. PICK a, b, c : a = r.numbers[1] /\ b = r.numbers[2] /\ c = r.numbers[3]
    BY Zenon
  <2>2. /\ a \in Short /\ Int16(a) = a /\ b \in Short /\ Int16(b) = b
        /\ c \in Short /\ Int16(c) = c
    BY <1>7, <2>1, NumbersAre, Fits
  <2>3. m = Goto(r)
    BY <1>1, <1>7 DEF MoveCmd, Ways
  <2>4. m = [Still EXCEPT !.x = b, !.z = a, !.y = c]
    BY <2>1, <2>2, <2>3 DEF Goto
  <2>5. m = Placed(b, c, a)
    BY <2>4 DEF Still, Placed
  <2>6. m \in [Axes -> Short] /\ m.z = a /\ m.x = b /\ m.y = c /\ m.cw = 0
    BY <2>2, <2>5, StillButThree
  <2> QED BY <1>1, <1>7, <2>1, <2>6 DEF SaysAxes
<1>8. CASE r.cmd = "led"
  <2>1. PICK a, b, c, n : /\ a = r.numbers[1] /\ b = r.numbers[2] /\ c = r.numbers[3]
                          /\ n = Int16(r.mode)
    BY Zenon
  <2>2. a \in Short /\ b \in Short /\ c \in Short
    BY <1>8, <2>1, NumbersAre, Fits
  <2>3. n \in Short /\ (n - r.mode) % 65536 = 0
    BY <2>1, Accepted, Int16Is
  <2>4. m = Led(r)
    BY <1>1, <1>8 DEF MoveCmd, Ways
  <2>5. PICK u : u = Placed(a, b, c)
    BY Zenon
  <2>6. u \in [Axes -> Short] /\ u.x = a /\ u.y = b /\ u.z = c
    BY <2>2, <2>5, StillButThree
  <2>7. m = [u EXCEPT !["cw"] = n]
    BY <2>1, <2>4, <2>5 DEF Led, Placed
  <2>8. m \in [Axes -> Short] /\ m.x = a /\ m.y = b /\ m.z = c /\ m.cw = n
    BY <2>3, <2>6, <2>7 DEF Axes
  <2> QED BY <1>1, <1>8, <2>1, <2>3, <2>8 DEF SaysAxes
<1>9. CASE r.cmd \in {"move", "rotate"}
  <2>1. m = Directed(r)
    BY <1>1, <1>9 DEF MoveCmd, Ways
  <2> QED BY <1>1, <1>9, <2>1, DirectedIs DEF SaysAxes
<1> QED BY <1>3, <1>4, <1>5, <1>6, <1>7, <1>8, <1>9 DEF MoveClass

(* Their bytes, and what is read back from them.                           *)
LEMMA MoveBytesAre ==
  ASSUME NEW m \in [Axes -> Short], NEW b, b = MoveBytes(m)
  PROVE  /\ b \in Seq(Octet) /\ Len(b) = 8
         /\ Int16(b[1] + 256 * b[2]) = m.x /\ Int16(b[3] + 256 * b[4]) = m.y
         /\ Int16(b[5] + 256 * b[6]) = m.z /\ Int16(b[7] + 256 * b[8]) = m.cw
<1>1. m.x \in Short /\ m.y \in Short /\ m.z \in Short /\ m.cw \in Short
  BY DEF Axes
<1>2. \A n \in Short : n \in Int /\ Int16(n) = n
  <2>1. \A n \in Short : n \in Int
    BY BoundsOrdered DEF Short
  <2> QED BY <2>1, Int16Is
<1>3. PICK x, y, z, w : /\ x = LittleEndian(m.x) /\ y = LittleEndian(m.y)
                        /\ z = LittleEndian(m.z) /\ w = LittleEndian(m.cw)
  BY Zenon
<1>4. /\ x \in Seq(Octet) /\ Len(x) = 2 /\ Int16(x[1] + 256 * x[2]) = m.x
      /\ y \in Seq(Octet) /\ Len(y) = 2 /\ Int16(y[1] + 256 * y[2]) = m.y
      /\ z \in Seq(Octet) /\ Len(z) = 2 /\ Int16(z[1] + 256 * z[2]) = m.z
      /\ w \in Seq(Octet) /\ Len(w) = 2 /\ Int16(w[1] + 256 * w[2]) = m.cw
  BY <1>1, <1>2, <1>3, TwoBytes, ReadsBack
<1>5. b = ((x \o y) \o z) \o w
  BY <1>3 DEF MoveBytes
<1>6. /\ b \in Seq(Octet) /\ Len(b) = 8
      /\ b[1] = x[1] /\ b[2] = x[2] /\ b[3] = y[1] /\ b[4] = y[2]
      /\ b[5] = z[1] /\ b[6] = z[2] /\ b[7] = w[1] /\ b[8] = w[2]
  <2>1. Pairs(b, x, y, z, w)
    BY <1>4, <1>5, FourPairs
  <2> QED BY <2>1 DEF Pairs
<1> QED BY <1>4, <1>6

(* A rocker's two bytes, of which one is zero.                             *)
LEMMA RockerIs ==
  ASSUME NEW n \in Int
  PROVE  /\ RockerBytes(n) \in Seq(Octet) /\ Len(RockerBytes(n)) = 2
         /\ n \in -255..255 => RockerBytes(n)[1] - RockerBytes(n)[2] = n
<1>1. PICK p, q : p = (IF n > 0 THEN n ELSE 0) /\ q = (IF n < 0 THEN -n ELSE 0)
  BY Zenon
<1>2. /\ p \in Int /\ q \in Int /\ p - q = n
      /\ n \in -255..255 => p \in 0..255 /\ q \in 0..255
  BY <1>1
<1>3. \A k \in Int : Uint8(k) \in Octet /\ (k \in 0..255 => Uint8(k) = k)
  BY DEF Uint8, Octet
<1>4. PICK a, b : a = Uint8(p) /\ b = Uint8(q)
  BY Zenon
<1>5. a \in Octet /\ b \in Octet /\ (n \in -255..255 => a = p /\ b = q)
  BY <1>2, <1>3, <1>4
<1>6. RockerBytes(n) = <<a, b>>
  BY <1>1, <1>4 DEF RockerBytes
<1>7. /\ RockerBytes(n) \in Seq(Octet) /\ Len(RockerBytes(n)) = 2
      /\ RockerBytes(n)[1] = a /\ RockerBytes(n)[2] = b
  BY <1>5, <1>6
<1> QED BY <1>2, <1>5, <1>7

RockersSay(rockers, b) ==
  \A i \in 1..4 : rockers[i] \in -255..255 => b[2 * i - 1] - b[2 * i] = rockers[i]

LEMMA JoyBytesAre ==
  ASSUME NEW j, NEW k \in {6, 14}, j.rockers \in [1..4 -> Int], j.buttons \in [1..k -> Int],
         NEW b, b = JoyBytes(j)
  PROVE  /\ b \in Seq(Octet) /\ Len(b) = 8 + k
         /\ RockersSay(j.rockers, b)
<1>1. PICK r : r = j.rockers
  BY Zenon
<1>2. r[1] \in Int /\ r[2] \in Int /\ r[3] \in Int /\ r[4] \in Int
  BY <1>1
<1>3. PICK x, y, z, w : /\ x = RockerBytes(r[1]) /\ y = RockerBytes(r[2])
                        /\ z = RockerBytes(r[3]) /\ w = RockerBytes(r[4])
  BY Zenon
<1>4. /\ x \in Seq(Octet) /\ Len(x) = 2 /\ (r[1] \in -255..255 => x[1] - x[2] = r[1])
      /\ y \in Seq(Octet) /\ Len(y) = 2 /\ (r[2] \in -255..255 => y[1] - y[2] = r[2])
      /\ z \in Seq(Octet) /\ Len(z) = 2 /\ (r[3] \in -255..255 => z[1] - z[2] = r[3])
      /\ w \in Seq(Octet) /\ Len(w) = 2 /\ (r[4] \in -255..255 => w[1] - w[2] = r[4])
  BY <1>2, <1>3, RockerIs
<1>5. PICK rest : rest = [i \in DOMAIN j.buttons |-> Uint8(j.buttons[i])]
  BY Zenon
<1>6. rest \in Seq(Octet) /\ Len(rest) = k
  <2>1. DOMAIN j.buttons = 1..k /\ \A i \in 1..k : j.buttons[i] \in Int
    OBVIOUS
  <2>2. \A n \in Int : Uint8(n) \in Octet
    BY DEF Uint8, Octet
  <2>3. rest \in [1..k -> Octet] /\ k \in Nat
    BY <1>5, <2>1, <2>2
  <2> QED BY <2>3
<1>7. PICK front : front = ((x \o y) \o z) \o w
  BY Zenon
<1>8. /\ front \in Seq(Octet) /\ Len(front) = 8
      /\ front[1] = x[1] /\ front[2] = x[2] /\ front[3] = y[1] /\ front[4] = y[2]
      /\ front[5] = z[1] /\ front[6] = z[2] /\ front[7] = w[1] /\ front[8] = w[2]
  <2>1. Pairs(front, x, y, z, w)
    BY <1>4, <1>7, FourPairs
  <2> QED BY <2>1 DEF Pairs
<1>9. b = front \o rest
  BY <1>1, <1>3, <1>5, <1>7 DEF JoyBytes
<1>10. b \in Seq(Octet) /\ Len(b) = 8 + k /\ \A i \in 1..8 : b[i] = front[i]
  <2>1. Joins(b, front, rest)
    BY <1>6, <1>8, <1>9, Joined
  <2> QED BY <1>6, <1>8, <2>1 DEF Joins
<1>11. \A i \in 1..4 : i \in {1, 2, 3, 4}
  OBVIOUS
<1>12. ASSUME NEW i \in 1..4, r[i] \in -255..255 PROVE b[2 * i - 1] - b[2 * i] = r[i]
  <2>1. /\ b[1] = x[1] /\ b[2] = x[2] /\ b[3] = y[1] /\ b[4] = y[2]
        /\ b[5] = z[1] /\ b[6] = z[2] /\ b[7] = w[1] /\ b[8] = w[2]
    BY <1>8, <1>10
  <2>2. CASE i = 1
    BY <1>4, <1>12, <2>1, <2>2
  <2>3. CASE i = 2
    BY <1>4, <1>12, <2>1, <2>3
  <2>4. CASE i = 3
    BY <1>4, <1>12, <2>1, <2>4
  <2>5. CASE i = 4
    BY <1>4, <1>12, <2>1, <2>5
  <2> QED BY <1>11, <2>2, <2>3, <2>4, <2>5
<1> QED BY <1>1, <1>10, <1>12 DEF RockersSay

-----------------------------------------------------------------------------
(* The mail and the frame of a request, as far as they have come.          *)
MailOf(r) == Mail(r.cmd, Content(r))
IdsOf(cmd) == IF cmd \in NeedRepeat THEN Ids ELSE {0}
FrameOf(r, id) == Frame(Seal(AdditionCmd[r.cmd], Payload(MailOf(r)), id))

MailIsOfRequest ==
  mail.what = "mail" => Acceptable(request) /\ mail = MailOf(request)

FrameIsOfMail ==
  frame.what = "frame" =>
    /\ mail.what = "mail" /\ ~NullPointer(mail)
    /\ \E id \in IdsOf(request.cmd) : frame = FrameOf(request, id)

EncodingInv ==
  /\ request \in Requests
  /\ MailIsOfRequest
  /\ FrameIsOfMail

LEMMA InitEncodingInv == EncodingInit => EncodingInv
BY DEF EncodingInit, EncodingInv, MailIsOfRequest, FrameIsOfMail, NotYet

LEMMA StepEncodingInv == EncodingInv /\ [EncodingNext]_encodingVars => EncodingInv'
<1> SUFFICES ASSUME EncodingInv, [EncodingNext]_encodingVars PROVE EncodingInv'
  OBVIOUS
<1> USE DEF EncodingInv
<1>1. CASE ProcessJsonMessage
  <2>1. request' = request /\ frame' = frame /\ mail.what # "mail"
    BY <1>1 DEF ProcessJsonMessage, NotYet
  <2>2. frame'.what # "frame"
    BY <2>1 DEF FrameIsOfMail
  <2>3. mail' = (IF Acceptable(request) THEN MailOf(request) ELSE Refused)
    BY <1>1 DEF ProcessJsonMessage, MailOf
  <2>4. MailIsOfRequest'
    <3>1. CASE Acceptable(request)
      BY <2>1, <2>3, <3>1 DEF MailIsOfRequest, MailOf, Content, Acceptable
    <3>2. CASE ~Acceptable(request)
      BY <2>3, <3>2 DEF MailIsOfRequest, Refused
    <3> QED BY <3>1, <3>2
  <2> QED BY <2>1, <2>2, <2>4 DEF FrameIsOfMail
<1>2. CASE SendData2Serial
  <2>1. request' = request /\ mail' = mail /\ mail.what = "mail"
    BY <1>2 DEF SendData2Serial
  <2>2. MailIsOfRequest'
    BY <2>1 DEF MailIsOfRequest
  <2>3. FrameIsOfMail'
    <3>1. CASE NullPointer(mail)
      <4>1. frame'.what # "frame"
        BY <1>2, <3>1 DEF SendData2Serial, Refused
      <4> QED BY <4>1 DEF FrameIsOfMail
    <3>2. CASE ~NullPointer(mail)
      <4>1. mail = MailOf(request)
        BY <2>1 DEF MailIsOfRequest
      <4>2. mail.additionCmd = request.cmd
        BY <4>1 DEF MailOf, Mail
      <4>3. \E id \in IdsOf(request.cmd) :
              frame' = Frame(Seal(AdditionCmd[mail.additionCmd], Payload(mail), id))
        BY <1>2, <3>2, <4>2 DEF SendData2Serial, IdsOf
      <4>4. \E id \in IdsOf(request.cmd) : frame' = FrameOf(request, id)
        BY <4>1, <4>2, <4>3 DEF FrameOf
      <4>5. ~NullPointer(mail)' /\ IdsOf(request.cmd)' = IdsOf(request.cmd)
        BY <2>1, <3>2 DEF NullPointer, IdsOf
      <4>6. \A id : FrameOf(request, id)' = FrameOf(request, id)
        BY <2>1 DEF FrameOf
      <4> QED BY <2>1, <4>4, <4>5, <4>6 DEF FrameIsOfMail
    <3> QED BY <3>1, <3>2
  <2> QED BY <2>1, <2>2, <2>3
<1>3. CASE PingPong
  <2>1. request' = request /\ frame' = frame /\ mail.what # "mail" /\ mail'.what # "mail"
    BY <1>3 DEF PingPong, NotYet, Pong
  <2> QED BY <2>1 DEF MailIsOfRequest, FrameIsOfMail
<1>4. CASE UNCHANGED encodingVars
  BY <1>4 DEF encodingVars, MailIsOfRequest, FrameIsOfMail, FrameOf, IdsOf
<1> QED BY <1>1, <1>2, <1>3, <1>4 DEF EncodingNext

LEMMA EncodingInvariant == EncodingSpec => []EncodingInv
<1> QED BY InitEncodingInv, StepEncodingInv, PTL DEF EncodingSpec

-----------------------------------------------------------------------------
(* The payload that goes into a frame, by the kind of its command.         *)
PayloadIs(r, payload) ==
  /\ payload \in Seq(Octet)
  /\ Len(payload) \in {0, 8, 14, 22}
  /\ r.cmd \in MoveClass \ {"stop", "keep"} =>
       /\ Len(payload) = 8
       /\ Int16(payload[1] + 256 * payload[2]) = MoveCmd(r).x
       /\ Int16(payload[3] + 256 * payload[4]) = MoveCmd(r).y
       /\ Int16(payload[5] + 256 * payload[6]) = MoveCmd(r).z
       /\ Int16(payload[7] + 256 * payload[8]) = MoveCmd(r).cw
  /\ r.cmd \in {"JoyCon", "JoyConSimple"} =>
       /\ Len(payload) \in {14, 22}
       /\ RockersSay(r.rockers, payload)

LEMMA PayloadOf ==
  ASSUME NEW r \in Requests, Acceptable(r), ~NullPointer(MailOf(r)),
         NEW payload, payload = Payload(MailOf(r))
  PROVE  PayloadIs(r, payload) /\ r.cmd \notin {"stop", "keep"}
<1>1. MailOf(r).additionCmd = r.cmd /\ MailOf(r).content = Content(r)
  BY DEF MailOf, Mail
<1>2. r.cmd \notin {"stop", "keep"}
  <2>1. r.cmd \in {"stop", "keep"} => Content(r) = NoContent /\ r.cmd \in MoveClass
    BY DEF Content, MoveClass
  <2> QED BY <1>1, <2>1 DEF NullPointer
<1>3. CASE r.cmd \in MoveClass \ {"stop", "keep"}
  <2>0. Content(r) = MoveCmd(r)
    BY <1>3 DEF Content, MoveClass
  <2>1. payload = MoveBytes(MoveCmd(r))
    BY <1>1, <1>3, <2>0 DEF Payload, MoveClass
  <2>2. MoveCmd(r) \in [Axes -> Short]
    BY <1>3, MoveCmdIs
  <2>3. r.cmd \notin {"JoyCon", "JoyConSimple"}
    BY <1>3 DEF MoveClass
  <2>4. PICK m \in [Axes -> Short] : m = MoveCmd(r)
    BY <2>2
  <2>5. /\ payload \in Seq(Octet) /\ Len(payload) = 8
        /\ Int16(payload[1] + 256 * payload[2]) = m.x
        /\ Int16(payload[3] + 256 * payload[4]) = m.y
        /\ Int16(payload[5] + 256 * payload[6]) = m.z
        /\ Int16(payload[7] + 256 * payload[8]) = m.cw
    BY <2>1, <2>4, MoveBytesAre
  <2> QED BY <1>2, <2>3, <2>4, <2>5 DEF PayloadIs
<1>4. CASE r.cmd \in {"JoyCon", "JoyConSimple"}
  <2>1. r.cmd \notin MoveClass
    BY <1>4 DEF MoveClass
  <2>2. r.rockers \in [1..4 -> Int] /\ r.buttons \in [1..14 -> Int]
    BY Accepted
  <2>3. PICK j : j = Content(r)
    BY Zenon
  <2>4. payload = JoyBytes(j)
    BY <1>1, <1>4, <2>1, <2>3 DEF Payload
  <2>5. \E k \in {6, 14} : j.rockers = r.rockers /\ j.buttons \in [1..k -> Int]
    <3>1. CASE r.cmd = "JoyCon"
      <4>1. j = JoyCon(r)
        BY <2>1, <2>3, <3>1 DEF Content
      <4> QED BY <2>2, <4>1 DEF JoyCon
    <3>2. CASE r.cmd = "JoyConSimple"
      <4>1. j = JoyConSimple(r)
        BY <2>1, <2>3, <3>2 DEF Content
      <4>2. /\ DOMAIN SimpleButtons = 1..6
            /\ \A i \in 1..6 : SimpleButtons[i] \in 1..14
        BY DEF SimpleButtons
      <4>3. j.rockers = r.rockers
            /\ j.buttons = [i \in 1..6 |-> r.buttons[SimpleButtons[i]]]
        BY <4>1, <4>2 DEF JoyConSimple
      <4>4. j.buttons \in [1..6 -> Int]
        BY <2>2, <4>2, <4>3
      <4> QED BY <4>3, <4>4
    <3> QED BY <1>4, <3>1, <3>2
  <2>6. PICK k \in {6, 14} : j.rockers = r.rockers /\ j.buttons \in [1..k -> Int]
    BY <2>5
  <2>7. /\ payload \in Seq(Octet) /\ Len(payload) = 8 + k
        /\ RockersSay(r.rockers, payload)
    <3>1. j.rockers \in [1..4 -> Int]
      BY <2>2, <2>6
    <3> QED BY <2>4, <2>6, <3>1, JoyBytesAre
  <2> QED BY <1>2, <2>1, <2>7 DEF PayloadIs
<1>5. CASE r.cmd \notin MoveClass /\ r.cmd \notin {"JoyCon", "JoyConSimple"}
  <2>1. payload = <<>>
    BY <1>1, <1>5 DEF Payload
  <2>2. payload \in Seq(Octet) /\ Len(payload) = 0
    BY <2>1
  <2> QED BY <1>2, <1>5, <2>2 DEF PayloadIs
<1> QED BY <1>2, <1>3, <1>4, <1>5

(* The bytes of a frame: its code, its payload, its id.                    *)
FrameHas(r, bytes, payload, n, id) ==
  /\ PayloadIs(r, payload) /\ Len(payload) = n /\ n \in {0, 8, 14, 22}
  /\ Sealed(bytes, AdditionCmd[r.cmd], payload, n, id)

LEMMA LastIdFits == LastId \in Int /\ LastId < Wide /\ Wide \in Int
BY DEF LastId, Wide

LEMMA IdsAreWords ==
  ASSUME NEW cmd, NEW id \in IdsOf(cmd) PROVE id \in Word
<1>1. \A i \in Ids : i \in Word
  <2>1. \A i \in Ids : i \in Int /\ 1 <= i /\ i <= LastId
    BY IdsAssumption, LastIdFits
  <2> QED BY <2>1, LastIdFits DEF Word
<1>2. 0 \in Word
  BY WideIs DEF Word
<1>3. id \in Ids \/ id = 0
  BY Zenon DEF IdsOf
<1> QED BY <1>1, <1>2, <1>3, Zenon

LEMMA CodeIsByte == \A cmd \in DOMAIN AdditionCmd : AdditionCmd[cmd] \in Octet
BY DEF AdditionCmd, Octet

LEMMA SentFrame ==
  ASSUME EncodingInv, frame.what = "frame"
  PROVE  /\ Acceptable(request) /\ request.cmd \notin {"stop", "keep"}
         /\ \E payload, n, id :
              id \in IdsOf(request.cmd) /\ FrameHas(request, Bytes, payload, n, id)
<1>1. /\ request \in Requests /\ Acceptable(request) /\ mail = MailOf(request)
      /\ ~NullPointer(MailOf(request))
  BY DEF EncodingInv, MailIsOfRequest, FrameIsOfMail
<1>2. PICK id \in IdsOf(request.cmd) : frame = FrameOf(request, id)
  BY DEF EncodingInv, FrameIsOfMail
<1>3. PICK payload : payload = Payload(MailOf(request))
  BY Zenon
<1>4. PayloadIs(request, payload) /\ request.cmd \notin {"stop", "keep"}
  BY <1>1, <1>3, PayloadOf
<1>5. PICK n : n = Len(payload)
  BY Zenon
<1>6. payload \in Seq(Octet) /\ n \in {0, 8, 14, 22}
  BY <1>4, <1>5 DEF PayloadIs
<1>7. n \in Nat /\ n + 2 \in Octet
  BY <1>6 DEF Octet
<1>8. PICK code : code = AdditionCmd[request.cmd]
  BY Zenon
<1>9. code \in Octet
  BY <1>1, <1>8, Accepted, CodeIsByte
<1>10. id \in Word
  BY <1>2, IdsAreWords
<1>11. Bytes = Seal(code, payload, id)
  BY <1>2, <1>3, <1>8 DEF Bytes, FrameOf, Frame
<1>12. FrameHas(request, Bytes, payload, n, id)
  <2>1. Sealed(Bytes, code, payload, n, id)
    BY <1>5, <1>6, <1>7, <1>9, <1>10, <1>11, SealIs
  <2> QED BY <1>4, <1>5, <1>6, <1>8, <2>1 DEF FrameHas
<1> QED BY <1>1, <1>2, <1>4, <1>12

LEMMA SentIsWhole ==
  ASSUME EncodingInv PROVE FrameIsWhole
<1> SUFFICES ASSUME frame.what = "frame"
             PROVE  FrameIsWhole
  BY DEF FrameIsWhole
<1>1. PICK payload, n, id :
        id \in IdsOf(request.cmd) /\ FrameHas(request, Bytes, payload, n, id)
  BY SentFrame
<1>2. PICK bytes, length : bytes = Bytes /\ length = Len(Bytes)
  BY Zenon
<1>3. n \in Nat /\ length = n + 7 /\ bytes \in Seq(Octet) /\ Len(bytes) = n + 7
  BY <1>1, <1>2 DEF FrameHas, Sealed
<1>4. /\ length = bytes[3] + 5 /\ bytes[1] = 170 /\ bytes[length] = 187
      /\ Xor(SubSeq(bytes, 4, length - 1)) = 0
  <2>1. bytes[3] = n + 2 /\ bytes[1] = 170 /\ bytes[n + 7] = 187
        /\ Xor(SubSeq(bytes, 4, n + 6)) = 0
    BY <1>1, <1>2 DEF FrameHas, Sealed
  <2>2. length - 1 = n + 6 /\ length = (n + 2) + 5
    BY <1>3
  <2> QED BY <1>3, <2>1, <2>2
<1>5. \A i \in 1..length : bytes[i] \in 0..255
  <2>1. \A i \in 1..length : bytes[i] \in Octet
    BY <1>3
  <2> QED BY <2>1 DEF Octet
<1>6. bytes[length - 3] + 256 * bytes[length - 2] = id
  <2>1. bytes[n + 4] + 256 * bytes[n + 5] = id
    BY <1>1, <1>2 DEF FrameHas, Sealed
  <2>2. length - 3 = n + 4 /\ length - 2 = n + 5
    BY <1>3
  <2> QED BY <2>1, <2>2
<1>7. IF request.cmd \in NeedRepeat THEN id \in Ids ELSE id = 0
  BY <1>1 DEF IdsOf
<1> QED BY <1>2, <1>4, <1>5, <1>6, <1>7 DEF FrameIsWhole

LEMMA SentIsRequested ==
  ASSUME EncodingInv PROVE FrameSaysRequest
<1> SUFFICES ASSUME frame.what = "frame"
             PROVE  FrameSaysRequest
  BY DEF FrameSaysRequest
<1>1. request \in Requests /\ Acceptable(request) /\ request.cmd \notin {"stop", "keep"}
  BY SentFrame DEF EncodingInv
<1>2. PICK payload, n, id : FrameHas(request, Bytes, payload, n, id)
  BY SentFrame
<1>3. request.good /\ Bytes[2] = AdditionCmd[request.cmd]
  BY <1>1, <1>2, Accepted DEF FrameHas, Sealed
<1>4. ASSUME request.cmd \in MoveClass PROVE SaysMovement(request)
  <2>1. request.cmd \in MoveClass \ {"stop", "keep"}
    BY <1>1, <1>4
  <2>2. PICK m : m = MoveCmd(request)
    BY Zenon
  <2>3. SaysAxes(request, m)
    BY <1>1, <2>1, <2>2, MoveCmdIs
  <2>4. /\ Len(payload) = 8 /\ n = 8
        /\ Int16(payload[1] + 256 * payload[2]) = m.x
        /\ Int16(payload[3] + 256 * payload[4]) = m.y
        /\ Int16(payload[5] + 256 * payload[6]) = m.z
        /\ Int16(payload[7] + 256 * payload[8]) = m.cw
    BY <1>2, <2>1, <2>2 DEF FrameHas, PayloadIs
  <2>5. /\ Bytes[4] = payload[1] /\ Bytes[5] = payload[2]
        /\ Bytes[6] = payload[3] /\ Bytes[7] = payload[4]
        /\ Bytes[8] = payload[5] /\ Bytes[9] = payload[6]
        /\ Bytes[10] = payload[7] /\ Bytes[11] = payload[8]
    <3>1. \A i \in 1..8 : Bytes[3 + i] = payload[i]
      BY <1>2, <2>4 DEF FrameHas, Sealed
    <3> QED BY <3>1
  <2>6. Forward = m.x /\ Up = m.y /\ Right = m.z /\ Cw = m.cw
    <3>1. /\ Int16(Bytes[4] + 256 * Bytes[5]) = m.x
          /\ Int16(Bytes[6] + 256 * Bytes[7]) = m.y
          /\ Int16(Bytes[8] + 256 * Bytes[9]) = m.z
          /\ Int16(Bytes[10] + 256 * Bytes[11]) = m.cw
      BY <2>4, <2>5
    <3> QED BY <3>1 DEF Forward, Up, Right, Cw, Signed16
  <2> QED BY <2>1, <2>3, <2>6 DEF SaysMovement, SaysAxes, Way, When, MoveClass
<1>5. ASSUME request.cmd \in {"JoyCon", "JoyConSimple"},
             NEW k \in 1..4, request.rockers[k] \in -255..255
      PROVE  Rocker(k) = request.rockers[k]
  <2>1. payload[2 * k - 1] - payload[2 * k] = request.rockers[k]
    BY <1>2, <1>5 DEF FrameHas, PayloadIs, RockersSay
  <2>2. n \in {14, 22}
    BY <1>2, <1>5 DEF FrameHas, PayloadIs
  <2>3. /\ 2 * k - 1 \in 1..n /\ 2 * k \in 1..n
        /\ 3 + (2 * k - 1) = 2 * k + 2 /\ 3 + 2 * k = 2 * k + 3
    BY <2>2
  <2>4. \A i \in 1..n : Bytes[3 + i] = payload[i]
    BY <1>2 DEF FrameHas, Sealed
  <2>5. Bytes[2 * k + 2] = payload[2 * k - 1] /\ Bytes[2 * k + 3] = payload[2 * k]
    BY <2>3, <2>4
  <2> QED BY <2>1, <2>5 DEF Rocker
<1> QED BY <1>3, <1>4, <1>5 DEF FrameSaysRequest

(* Every frame that goes out is whole: it tells its length, its ends are   *)
(* marked, its checksum cancels what is between, every byte is one, and    *)
(* its id is not zero exactly if its command is repeated.                  *)
THEOREM FramesAreWhole == EncodingSpec => []FrameIsWhole
<1> QED BY EncodingInvariant, SentIsWhole, PTL

(* Every frame that goes out says what its request says.                   *)
THEOREM FramesSayRequests == EncodingSpec => []FrameSaysRequest
<1> QED BY EncodingInvariant, SentIsRequested, PTL
=============================================================================
