----------------------------- MODULE SerialLink -----------------------------
(***************************************************************************)
(* What the flight controller at the far end of the serial line may rely   *)
(* on.  It sees a stream of frames.  Originals arrive in the order in      *)
(* which the command services posted them.  A recordable command carries a *)
(* package id of its own; until the next recordable command is sent, every *)
(* repeated frame is that command again, under the same id.  Frames that   *)
(* are never repeated (joysticks, tags) carry id 0.                        *)
(***************************************************************************)
EXTENDS Integers

CONSTANTS Mail,      \* the mails, numbered in the order they are posted
          MaxId      \* the ids run through 1..MaxId and start again at 1

VARIABLES latest,    \* the latest recorded command; mail 0: none yet
          frame      \* the frame submitted last, and the newest original so far

linkVars == <<latest, frame>>

LinkInit ==
  /\ latest = [mail |-> 0, id |-> 1]
  /\ frame = [mail |-> 0, id |-> 0, repeated |-> FALSE, newest |-> 0]

Original(m, id) ==
  /\ m > frame.newest
  /\ frame' = [mail |-> m, id |-> id, repeated |-> FALSE, newest |-> m]

Command(m) ==
  /\ latest' = [mail |-> m, id |-> (latest.id % MaxId) + 1]
  /\ Original(m, latest'.id)

Unrecorded(m) == Original(m, 0) /\ UNCHANGED latest

Repeat ==
  /\ latest.mail # 0
  /\ frame' = [mail |-> latest.mail, id |-> latest.id, repeated |-> TRUE,
               newest |-> frame.newest]
  /\ UNCHANGED latest

LinkNext == (\E m \in Mail : Command(m) \/ Unrecorded(m)) \/ Repeat

(* What the line promises the flight controller.                           *)
LinkSpec == LinkInit /\ [][LinkNext]_linkVars
=============================================================================
