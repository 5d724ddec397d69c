------------------------------ MODULE DesyTable ------------------------------
(***************************************************************************)
(* The moving stage: DesyTableProducer with DesyTableCommunication, and    *)
(* the controllers of the two axes behind one TCP connection.  An answer   *)
(* does not tell which axis it is of, may arrive in pieces, and may arrive *)
(* after the producer has given up waiting for it: it is then read as the  *)
(* answer to the next question, unless trashRecvBuffer comes first.        *)
(*                                                                         *)
(* Configured positions are counted in half bins (0.05 mm), presets and    *)
(* positions in bins.  The table, the connection and the clock are         *)
(* external: a table that is under way moves by a bin within MaxLag        *)
(* readings.  clean and misread are history.                               *)
(***************************************************************************)
EXTENDS Integers, Sequences

CONSTANTS
  Stability,        \* readings within CHECK_STABILITY_SECONDS
  MaxLag,           \* external: readings without motion on the way
  Garbage,          \* preset that an overflown command may set
  MaxTimeouts       \* bound: readings given up

Axes == {"h", "v"}

NoValues == [a \in Axes |-> 0]

(* invalid: not configured.  Error: 1000000, returned instead of a position. *)
Invalid == 1000
Error   == 1000000

ASSUME TableAssumption ==
  /\ Stability \in Nat /\ MaxLag \in Nat /\ MaxLag + 1 < Stability
  /\ Garbage \in Int /\ MaxTimeouts \in Nat

VARIABLES
  at, preset, lag,  \* the table: position and P1 of each axis, idle readings
  wire, inbox,      \* pieces of answers: on the way, in the socket buffer
  pc, axis, goal,   \* where the producer is, and what it reads positions for
  conf,             \* the configuration: pos and approach of each axis
  val, last, stable,\* values read, last_*_mm, readings since tp_change
  exit,             \* m_exit_of_run
  timeouts,         \* counted for the bound
  clean, misread    \* the cycle began with no answer under way and a table
                    \* that stood; this DoConfigure began to read with an
                    \* answer under way, or gave a reading up

stage == <<at, preset, lag>>
link  == <<wire, inbox>>
tableVars == <<stage, link, pc, axis, goal, conf, val, last, stable, exit, timeouts, clean, misread>>
-----------------------------------------------------------------------------
(* The table (external). *)
Towards(x, y) == IF x < y THEN x + 1 ELSE IF x > y THEN x - 1 ELSE x

Arrived == at = preset

Move ==
  /\ ~Arrived
  /\ at' = [a \in Axes |-> Towards(at[a], preset[a])]
  /\ lag' = 0
  /\ UNCHANGED <<preset, link, pc, axis, goal, conf, val, last, stable, exit, timeouts, clean, misread>>

Deliver ==
  /\ wire # <<>>
  /\ inbox' = Append(inbox, [part |-> Head(wire).part, val |-> at[Head(wire).axis]])
  /\ wire' = Tail(wire)
  /\ UNCHANGED <<stage, pc, axis, goal, conf, val, last, stable, exit, timeouts, clean, misread>>
-----------------------------------------------------------------------------
(* Fault: old answers are left in the buffer. *)
TrashNothing == inbox

(* trashRecvBuffer: reads until nothing comes for the receive timeout. *)
TrashRecvBuffer == <<>>

(* Before a loop that waits, and in every cycle of RunLoop. *)
Trash ==
  /\ pc = "trash" /\ ~(goal = "run" /\ exit)
  /\ inbox' = TrashRecvBuffer
  /\ clean' = (wire = <<>> /\ Arrived)
  /\ misread' = (misread \/ (goal # "run" /\ wire # <<>>))
  /\ pc' = "ask" /\ axis' = "h"
  /\ UNCHANGED <<stage, wire, goal, conf, val, last, stable, exit, timeouts>>

(* requestValue: transmit, then receive. *)
Ask ==
  /\ pc = "ask"
  /\ wire' = wire \o <<[axis |-> axis, part |-> 1], [axis |-> axis, part |-> 2]>>
  /\ pc' = "read"
  /\ UNCHANGED <<stage, inbox, axis, goal, conf, val, last, stable, exit, timeouts, clean, misread>>

Got(v) ==
  /\ val' = [val EXCEPT ![axis] = v]
  /\ pc' = IF axis = "h" THEN "ask" ELSE "judge"
  /\ axis' = "v"
  /\ UNCHANGED <<stage, wire, goal, conf, last, stable, exit, clean>>

(* What is in the buffer is taken for the answer if it has its form. *)
Answer(x, y) == IF x.part = 1 /\ y.part = 2 THEN x.val ELSE Error

Receive ==
  /\ pc = "read" /\ Len(inbox) >= 2
  /\ inbox' = SubSeq(inbox, 3, Len(inbox))
  /\ Got(Answer(inbox[1], inbox[2]))
  /\ UNCHANGED <<timeouts, misread>>

ReceiveTimeout ==
  /\ pc = "read" /\ Len(inbox) < 2 /\ timeouts < MaxTimeouts
  /\ inbox' = <<>>
  /\ Got(Error)
  /\ timeouts' = timeouts + 1 /\ misread' = (misread \/ goal # "run")
-----------------------------------------------------------------------------
(* setPresetP1mm rounds half bins to bins, away from zero. *)
Rounded(x) == IF x >= 0 THEN (x + 1) \div 2 ELSE -((1 - x) \div 2)

(* The approach in mm counts if it is positive; the raw one never does, as its
   assignment is written as a comparison. *)
Approach(a) ==
  IF conf'.approachMm[a] > 0 THEN conf'.approachMm[a] ELSE Invalid

Approached ==
  {a \in Axes : conf'.pos[a] # Invalid /\ Approach(a) # Invalid}

FinalPreset(p) ==
  [a \in Axes |-> IF conf'.pos[a] # Invalid THEN Rounded(conf'.pos[a]) ELSE p[a]]

WaitStable(g) ==
  /\ goal' = g /\ pc' = "trash"
  /\ last' = NoValues /\ stable' = 0

(* Lines 155-187: the final position. *)
FinalPart(p) ==
  /\ preset' = FinalPreset(p)
  /\ IF \E a \in Axes : conf'.pos[a] # Invalid
     THEN WaitStable("final")
     ELSE goal' = "final" /\ pc' = "idle" /\ UNCHANGED <<last, stable>>

(* Without approach a preset of invalid millimetres is sent to the horizontal
   axis: its conversion to int is undefined, so that the controller may get any
   preset, or a command it ignores. *)
DoConfigure(c) ==
  /\ pc = "idle"
  /\ conf' = c
  /\ inbox' = <<>>
  /\ misread' = FALSE
  /\ IF Approached # {}
     THEN /\ preset' = [a \in Axes |-> IF a \in Approached
                                       THEN Rounded(c.pos[a] + Approach(a)) ELSE preset[a]]
          /\ WaitStable("approach")
     ELSE \/ FinalPart(preset)
          \/ FinalPart([preset EXCEPT !["h"] = Garbage])
  /\ lag' = 0
  /\ UNCHANGED <<at, wire, axis, val, exit, timeouts, clean>>

(* Fault: the clock is not set back when the position changes. *)
StableReadingsCounting == stable + 1

StableReadings == IF val # last THEN 0 ELSE stable + 1

(* One reading of a loop that waits for the stable position.  No trash here. *)
Judge ==
  /\ pc = "judge" /\ goal # "run"
  /\ Arrived \/ lag < MaxLag
  /\ val' = NoValues
  /\ UNCHANGED <<at, wire, inbox, conf, exit, timeouts, clean, misread>>
  /\ IF StableReadings >= Stability
     THEN /\ lag' = 0 /\ UNCHANGED axis
          /\ IF goal = "approach" THEN FinalPart(preset)
             ELSE /\ pc' = "idle" /\ last' = NoValues /\ stable' = 0
                  /\ UNCHANGED <<preset, goal>>
     ELSE /\ last' = val /\ stable' = StableReadings
          /\ lag' = IF Arrived THEN 0 ELSE lag + 1
          /\ pc' = "ask" /\ axis' = "h"
          /\ UNCHANGED <<preset, goal>>
-----------------------------------------------------------------------------
DoStartRun ==
  /\ pc = "idle"
  /\ exit' = FALSE
  /\ goal' = "run" /\ pc' = "trash"
  /\ UNCHANGED <<stage, link, axis, conf, val, last, stable, timeouts, clean, misread>>

(* Fault: the flag is set back. *)
DoStopRunForgets ==
  /\ exit' = FALSE
  /\ UNCHANGED <<stage, link, pc, axis, goal, conf, val, last, stable, timeouts, clean, misread>>

DoStopRun ==
  /\ exit' = TRUE
  /\ UNCHANGED <<stage, link, pc, axis, goal, conf, val, last, stable,
                 timeouts, clean, misread>>

(* The end of a cycle of RunLoop.  The values are sent in an event in the first
   cycle and whenever the interval has passed. *)
RunCycle ==
  /\ pc = "judge" /\ goal = "run"
  /\ val' = NoValues
  /\ pc' = "trash"
  /\ UNCHANGED <<stage, link, axis, goal, conf, last, stable, exit, timeouts, clean, misread>>

RunLoopEnds ==
  /\ pc = "trash" /\ goal = "run" /\ exit
  /\ pc' = "idle"
  /\ UNCHANGED <<stage, link, axis, goal, conf, val, last, stable, exit, timeouts, clean, misread>>
-----------------------------------------------------------------------------
TableInit(c) ==
  /\ at = [a \in Axes |-> Rounded(c.pos[a])] /\ preset = at /\ lag = 0
  /\ wire = <<>> /\ inbox = <<>>
  /\ pc = "idle" /\ axis = "h" /\ goal = "final" /\ conf = c
  /\ val = NoValues /\ last = NoValues /\ stable = 0
  /\ exit = FALSE /\ timeouts = 0
  /\ clean = TRUE /\ misread = FALSE

(* What the thread of the producer does by itself. *)
Producing ==
  \/ Trash
  \/ Ask
  \/ Receive
  \/ ReceiveTimeout
  \/ Judge
  \/ RunCycle
  \/ RunLoopEnds

(* The values a cycle of RunLoop reads, and sends, are the true positions of
   their axes whenever neither is the error value, the table stood and no answer
   was under way when the cycle began: an answer that came too late in an earlier
   cycle, or only in part, is never shown as the position of the other axis.
   (Within a cycle it can be: then one value is the error.) *)
PositionsTrue ==
  pc = "judge" /\ goal = "run" /\ clean /\ (\A a \in Axes : val[a] # Error)
    => val = at
=============================================================================
