---------------------------- MODULE QueueLemmas -----------------------------
(***************************************************************************)
(* What the proofs need to know about queues of handlers, messages or      *)
(* pieces: what running the first one, and posting one more, do to those   *)
(* of a kind.                                                              *)
(***************************************************************************)
EXTENDS Integers, Sequences, TLAPS

(* What taking the first entry of a queue, and adding one at its end, do   *)
(* to the entries that are in a set R.                                     *)
Some(q, R)   == \E i \in DOMAIN q : q[i] \in R
Single(q, R) == \A i, j \in DOMAIN q : q[i] \in R /\ q[j] \in R => i = j

(* Running the first handler takes it out and keeps the others.            *)
LEMMA TailEntries ==
  ASSUME NEW S, NEW q \in Seq(S), q # <<>>, NEW R, Single(q, R)
  PROVE  /\ Tail(q) \in Seq(S) /\ Head(q) \in S
         /\ Single(Tail(q), R)
         /\ Some(Tail(q), R) <=> Some(q, R) /\ Head(q) \notin R
         /\ Head(q) \in R => Some(q, R)
<1>1. /\ Len(q) \in Nat /\ Len(q) > 0 /\ DOMAIN q = 1..Len(q)
      /\ Tail(q) \in Seq(S) /\ Head(q) \in S /\ Head(q) = q[1]
      /\ DOMAIN Tail(q) = 1..(Len(q) - 1)
      /\ \A i \in 1..(Len(q) - 1) : Tail(q)[i] = q[i + 1]
  OBVIOUS
<1>2. \A i \in DOMAIN Tail(q) : i + 1 \in DOMAIN q /\ Tail(q)[i] = q[i + 1]
  BY <1>1
<1>3. Single(Tail(q), R)
  <2>1. SUFFICES ASSUME NEW i \in DOMAIN Tail(q), NEW j \in DOMAIN Tail(q),
                        Tail(q)[i] \in R, Tail(q)[j] \in R
                 PROVE  i = j
    BY DEF Single
  <2>2. i + 1 = j + 1
    BY <1>2, <2>1 DEF Single
  <2> QED BY <1>1, <2>2
<1>4. Some(Tail(q), R) => Some(q, R) /\ Head(q) \notin R
  <2>1. SUFFICES ASSUME NEW i \in DOMAIN Tail(q), Tail(q)[i] \in R
                 PROVE  Some(q, R) /\ Head(q) \notin R
    BY DEF Some
  <2>2. i + 1 \in DOMAIN q /\ 1 \in DOMAIN q /\ i + 1 # 1 /\ q[i + 1] \in R
    BY <1>1, <1>2, <2>1
  <2> QED BY <1>1, <2>2 DEF Single, Some
<1>5. Some(q, R) /\ Head(q) \notin R => Some(Tail(q), R)
  <2>1. SUFFICES ASSUME NEW i \in DOMAIN q, q[i] \in R, q[1] \notin R
                 PROVE  Some(Tail(q), R)
    BY <1>1 DEF Some
  <2>2. i - 1 \in DOMAIN Tail(q) /\ Tail(q)[i - 1] = q[i]
    BY <1>1, <2>1
  <2> QED BY <2>1, <2>2 DEF Some
<1>6. Head(q) \in R => Some(q, R)
  BY <1>1 DEF Some
<1> QED BY <1>1, <1>3, <1>4, <1>5, <1>6

(* Posting a handler, or sending a reply, adds it, and only that.          *)
LEMMA AppendEntries ==
  ASSUME NEW S, NEW q \in Seq(S), NEW r \in S, NEW R, Single(q, R),
         r \in R => ~Some(q, R)
  PROVE  /\ Append(q, r) \in Seq(S)
         /\ Single(Append(q, r), R)
         /\ Some(Append(q, r), R) <=> Some(q, R) \/ r \in R
<1>1. /\ Len(q) \in Nat /\ DOMAIN q = 1..Len(q)
      /\ Append(q, r) \in Seq(S)
      /\ DOMAIN Append(q, r) = 1..(Len(q) + 1)
      /\ \A i \in 1..Len(q) : Append(q, r)[i] = q[i]
      /\ Append(q, r)[Len(q) + 1] = r
  OBVIOUS
<1>2. \A i \in DOMAIN Append(q, r) : i \in DOMAIN q \/ i = Len(q) + 1
  BY <1>1
<1>3. Len(q) + 1 \in DOMAIN Append(q, r)
  BY <1>1
<1>4. \A i \in DOMAIN q : i \in DOMAIN Append(q, r) /\ Append(q, r)[i] = q[i]
  BY <1>1
<1>5. Some(Append(q, r), R) <=> Some(q, R) \/ r \in R
  BY <1>1, <1>2, <1>3, <1>4 DEF Some
<1>6. Single(Append(q, r), R)
  BY <1>1, <1>2, <1>4 DEF Single, Some
<1> QED BY <1>1, <1>5, <1>6

(* Posting to a queue that may hold others of the kind.                    *)
LEMMA AppendSome ==
  ASSUME NEW S, NEW q \in Seq(S), NEW r \in S, NEW R
  PROVE  Some(Append(q, r), R) <=> Some(q, R) \/ r \in R
<1>1. /\ Len(q) \in Nat /\ DOMAIN q = 1..Len(q)
      /\ DOMAIN Append(q, r) = 1..(Len(q) + 1)
      /\ \A i \in 1..Len(q) : Append(q, r)[i] = q[i]
      /\ Append(q, r)[Len(q) + 1] = r
  OBVIOUS
<1>2. \A i \in DOMAIN Append(q, r) : i \in DOMAIN q \/ i = Len(q) + 1
  BY <1>1
<1> QED BY <1>1, <1>2 DEF Some
=============================================================================
