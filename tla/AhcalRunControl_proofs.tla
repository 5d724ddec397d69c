------------------------ MODULE AhcalRunControl_proofs ------------------------
(***************************************************************************)
(* The run control and the moving stage, for every set of configurations,  *)
(* every distance, any number of readings that time out and any delay of   *)
(* commands, answers and reports: RunLoop of the stage shows true          *)
(* positions, and nobody takes data before the stage stands where the      *)
(* configuration wants it.                                                 *)
(*                                                                         *)
(* The argument has three parts.  On the connection there is at most the   *)
(* answer to the last question, as long as a loop found it empty and waits *)
(* for every answer.  A table that is under way is then caught moving,     *)
(* because each reading lies on the way behind it.  And a configuration is *)
(* on the way to the stage only while Exec waits for it.                   *)
(***************************************************************************)
EXTENDS AhcalRunControl, SequenceTheorems, TLAPS

(* What a step of the system means for the stage. *)
TableNext ==
  \/ Move
  \/ Deliver
  \/ Trash
  \/ Ask
  \/ Receive
  \/ ReceiveTimeout
  \/ Judge
  \/ RunCycle
  \/ RunLoopEnds
  \/ DoConfigure(file)
  \/ DoStartRun
  \/ DoStopRun
  \/ UNCHANGED tableVars

LEMMA StepOfTable == [Next]_vars => TableNext
<1> SUFFICES ASSUME [Next]_vars PROVE TableNext
  OBVIOUS
<1>1. CASE ClientSteps
  BY <1>1 DEF ClientSteps, TableConfigure, TableStart, TableStop, TableWorks, Producing,
              StageWorks, DaqHandles, Report, TableNext
<1>2. CASE ExecSteps
  BY <1>2 DEF ExecSteps, Poll, Stopped, Configured, TableNext
<1>3. CASE TakeData \/ OperatorStarts \/ OperatorStops
  BY <1>3 DEF TakeData, OperatorStarts, OperatorStops, TableNext
<1>4. CASE UNCHANGED vars
  BY <1>4 DEF vars, TableNext
<1> QED  BY <1>1, <1>2, <1>3, <1>4 DEF Next
-----------------------------------------------------------------------------
Questions == [axis : Axes, part : {1, 2}]
Pieces    == [part : {1, 2}, val : Int]

TableType ==
  /\ at \in [Axes -> Int] /\ preset \in [Axes -> Int]
  /\ val \in [Axes -> Int] /\ last \in [Axes -> Int]
  /\ lag \in Nat /\ stable \in Nat /\ axis \in Axes
  /\ wire \in Seq(Questions) /\ inbox \in Seq(Pieces)
  /\ conf \in Configs /\ file \in Configs
  /\ goal \in {"approach", "final", "run"}
  /\ misread \in BOOLEAN /\ clean \in BOOLEAN
  /\ pc = "judge" => axis = "v"

LEMMA ConfigInts ==
  ASSUME NEW c \in Configs, NEW a \in Axes
  PROVE  c.pos[a] \in Int /\ c.approachMm[a] \in Int
BY ConfigAssumption

LEMMA RoundedInt ==
  ASSUME NEW x \in Int
  PROVE  Rounded(x) \in Int
BY DEF Rounded

LEMMA NoValuesInt == NoValues \in [Axes -> Int]
BY DEF NoValues

LEMMA FinalPresetInt ==
  ASSUME conf' \in Configs, NEW p \in [Axes -> Int]
  PROVE  FinalPreset(p) \in [Axes -> Int]
BY ConfigInts, RoundedInt DEF FinalPreset

LEMMA FileKept == file \in Configs /\ [Next]_vars => file' \in Configs
BY DEF Next, vars, ClientSteps, TableConfigure, TableStart, TableStop, TableWorks,
       StageWorks, DaqHandles, Report, Handled, rcVars, ExecSteps, Poll, Stopped, Configured,
       Configure, TakeData, OperatorStarts, OperatorStops

(* What FinalPart leaves. *)
LEMMA FinalPartType ==
  ASSUME TableType, conf' \in Configs, NEW p \in [Axes -> Int], FinalPart(p)
  PROVE  /\ preset' \in [Axes -> Int] /\ last' \in [Axes -> Int] /\ stable' \in Nat
         /\ goal' = "final"
<1>1. preset' \in [Axes -> Int] /\ goal' = "final"
  BY FinalPresetInt DEF FinalPart, WaitStable
<1>2. last' \in [Axes -> Int] /\ stable' \in Nat
  <2>1. (last' = NoValues /\ stable' = 0) \/ (last' = last /\ stable' = stable)
    BY DEF FinalPart, WaitStable
  <2>2. 0 \in Nat /\ stable \in Nat /\ last \in [Axes -> Int] /\ NoValues \in [Axes -> Int]
    BY NoValuesInt DEF TableType
  <2> QED  BY <2>1, <2>2, Zenon
<1> QED  BY <1>1, <1>2

LEMMA TypeStep == TableType /\ file' \in Configs /\ TableNext => TableType'
<1> SUFFICES ASSUME TableType, file' \in Configs, TableNext
             PROVE  TableType'
  OBVIOUS
<1> USE DEF TableType, link, stage
<1>1. CASE Move
  <2>1. at' \in [Axes -> Int]
    BY <1>1 DEF Move, Towards
  <2> QED  BY <1>1, <2>1 DEF Move
<1>2. CASE Deliver
  <2>1. wire # <<>> /\ Head(wire) \in Questions
    BY <1>2 DEF Deliver
  <2>2. [part |-> Head(wire).part, val |-> at[Head(wire).axis]] \in Pieces
    BY <2>1 DEF Questions, Pieces
  <2>3. inbox' \in Seq(Pieces) /\ wire' \in Seq(Questions)
    BY <1>2, <2>1, <2>2 DEF Deliver
  <2> QED  BY <1>2, <2>3 DEF Deliver
<1>3. CASE Trash
  BY <1>3 DEF Trash, TrashRecvBuffer, Axes
<1>4. CASE Ask
  <2>1. /\ [axis |-> axis, part |-> 1] \in Questions
        /\ [axis |-> axis, part |-> 2] \in Questions
    BY DEF Questions
  <2>2. wire' \in Seq(Questions)
    <3> DEFINE x == [axis |-> axis, part |-> 1]
               y == [axis |-> axis, part |-> 2]
    <3>1. wire' = wire \o <<x, y>>
      BY <1>4 DEF Ask
    <3> HIDE DEF x, y
    <3> QED  BY <2>1, <3>1 DEF x, y
  <2> QED  BY <1>4, <2>2 DEF Ask
<1>5. CASE Receive
  <2>1. inbox[1] \in Pieces /\ inbox[2] \in Pieces /\ Len(inbox) \in Nat /\ Len(inbox) >= 2
    BY <1>5, ElementOfSeq DEF Receive
  <2>2. Answer(inbox[1], inbox[2]) \in Int
    BY <2>1 DEF Answer, Error, Pieces
  <2>3. inbox' \in Seq(Pieces)
    BY <1>5, <2>1 DEF Receive
  <2>4. val' = [val EXCEPT ![axis] = Answer(inbox[1], inbox[2])] /\ axis' = "v"
    BY <1>5 DEF Receive, Got
  <2>5. val' \in [Axes -> Int]
    BY <2>2, <2>4
  <2> QED  BY <1>5, <2>3, <2>4, <2>5 DEF Receive, Got, Axes
<1>6. CASE ReceiveTimeout
  <2>1. val' = [val EXCEPT ![axis] = Error] /\ axis' = "v" /\ inbox' = <<>>
    BY <1>6 DEF ReceiveTimeout, Got
  <2>2. val' \in [Axes -> Int]
    BY <2>1 DEF Error
  <2> QED  BY <1>6, <2>1, <2>2 DEF ReceiveTimeout, Got, Axes
<1>7. CASE Judge
  <2>1. /\ val' \in [Axes -> Int]
        /\ UNCHANGED <<at, wire, inbox, conf, clean, misread>>
    BY <1>7, NoValuesInt DEF Judge
  <2>2. axis' \in Axes /\ lag' \in Nat
    BY <1>7 DEF Judge, Axes
  <2>3. /\ preset' \in [Axes -> Int] /\ last' \in [Axes -> Int] /\ stable' \in Nat
        /\ goal' \in {"approach", "final", "run"}
    <3>1. CASE StableReadings >= Stability /\ goal = "approach"
      <4>1. FinalPart(preset)
        BY <1>7, <3>1 DEF Judge
      <4> HIDE DEF TableType
      <4>2. TableType /\ conf' \in Configs /\ preset \in [Axes -> Int]
        BY <2>1 DEF TableType
      <4> QED  BY <4>1, <4>2, FinalPartType
    <3>2. CASE StableReadings >= Stability /\ goal # "approach"
      BY <1>7, <3>2, NoValuesInt DEF Judge
    <3>3. CASE ~(StableReadings >= Stability)
      <4>1. last' = val /\ stable' = StableReadings /\ UNCHANGED <<preset, goal>>
        BY <1>7, <3>3 DEF Judge
      <4> QED  BY <4>1 DEF StableReadings
    <3> QED  BY <3>1, <3>2, <3>3
  <2>4. pc' # "judge"
    BY <1>7 DEF Judge, FinalPart, WaitStable
  <2> QED  BY <2>1, <2>2, <2>3, <2>4
<1>8. CASE RunCycle
  BY <1>8, NoValuesInt DEF RunCycle
<1>9. CASE RunLoopEnds
  BY <1>9 DEF RunLoopEnds
<1>10. CASE DoConfigure(file)
  <2>1. /\ conf' = file /\ inbox' = <<>> /\ misread' = FALSE /\ lag' = 0
        /\ UNCHANGED <<at, wire, axis, val, clean>>
    BY <1>10 DEF DoConfigure
  <2>2. /\ preset' \in [Axes -> Int] /\ last' \in [Axes -> Int] /\ stable' \in Nat
        /\ goal' \in {"approach", "final", "run"}
    <3>1. CASE Approached # {}
      <4>1. /\ preset' = [a \in Axes |-> IF a \in Approached
                            THEN Rounded(file.pos[a] + Approach(a)) ELSE preset[a]]
            /\ last' = NoValues /\ stable' = 0 /\ goal' = "approach"
        BY <1>10, <3>1 DEF DoConfigure, WaitStable
      <4>2. \A a \in Axes : Rounded(file.pos[a] + Approach(a)) \in Int
        <5> TAKE a \in Axes
        <5>1. Approach(a) \in Int
          BY <2>1, ConfigInts DEF Approach, Invalid
        <5> QED  BY <5>1, ConfigInts, RoundedInt
      <4> QED  BY <4>1, <4>2, NoValuesInt
    <3>2. CASE Approached = {}
      <4>1. PICK p \in [Axes -> Int] : FinalPart(p)
        <5>1. preset \in [Axes -> Int] /\ [preset EXCEPT !["h"] = Garbage] \in [Axes -> Int]
          BY TableAssumption
        <5> QED  BY <1>10, <3>2, <5>1 DEF DoConfigure
      <4> HIDE DEF TableType
      <4>2. TableType /\ conf' \in Configs
        BY <2>1 DEF TableType
      <4> QED  BY <4>1, <4>2, FinalPartType
    <3> QED  BY <3>1, <3>2
  <2>3. conf' \in Configs /\ inbox' \in Seq(Pieces) /\ lag' \in Nat /\ misread' \in BOOLEAN
    <3>1. conf' \in Configs /\ misread' \in BOOLEAN
      BY <2>1, Zenon
    <3>2. inbox' \in Seq(Pieces) /\ lag' \in Nat
      BY <2>1
    <3> QED  BY <3>1, <3>2
  <2>4. pc' # "judge"
    BY <1>10 DEF DoConfigure, FinalPart, WaitStable
  <2> QED  BY <2>1, <2>2, <2>3, <2>4
<1>11. CASE DoStartRun \/ DoStopRun
  BY <1>11 DEF DoStartRun, DoStopRun
<1>12. CASE UNCHANGED tableVars
  BY <1>12 DEF tableVars
<1> QED
  BY <1>1, <1>2, <1>3, <1>4, <1>5, <1>6, <1>7, <1>8, <1>9, <1>10, <1>11, <1>12
  DEF TableNext
-----------------------------------------------------------------------------
(* Nothing is on the connection, or just the answer of axis a. *)
Quiet == wire = <<>> /\ inbox = <<>>

Asked(a) ==
  \/ wire = <<[axis |-> a, part |-> 1], [axis |-> a, part |-> 2]>> /\ inbox = <<>>
  \/ wire = <<[axis |-> a, part |-> 2]>> /\ Len(inbox) = 1 /\ inbox[1].part = 1
  \/ wire = <<>> /\ Len(inbox) = 2 /\ inbox[1].part = 1 /\ inbox[2].part = 2

Orderly ==
  /\ pc \in {"ask", "judge"} => Quiet
  /\ pc = "read" => Asked(axis)

LEMMA AskOrderly ==
  ASSUME TableType, Quiet, Ask
  PROVE  Asked(axis)' /\ inbox' = <<>> /\ axis' = axis /\ pc' = "read"
<1> DEFINE x == [axis |-> axis, part |-> 1]
           y == [axis |-> axis, part |-> 2]
<1>1. wire' = <<>> \o <<x, y>> /\ inbox' = <<>> /\ axis' = axis /\ pc' = "read"
  BY DEF Ask, Quiet
<1>2. wire' = <<x, y>>
  <2> HIDE DEF x, y
  <2> QED  BY <1>1
<1> QED  BY <1>1, <1>2 DEF Asked

LEMMA DeliverOrderly ==
  ASSUME TableType, Asked(axis), Deliver
  PROVE  /\ Asked(axis)' /\ axis' = axis /\ pc' = pc /\ inbox' # <<>>
         /\ inbox = <<>> => inbox'[1].val = at[axis]
         /\ inbox # <<>> => inbox'[1] = inbox[1]
<1> DEFINE x == [axis |-> axis, part |-> 1]
           y == [axis |-> axis, part |-> 2]
           p == [part |-> Head(wire).part, val |-> at[Head(wire).axis]]
<1>1. /\ wire # <<>> /\ inbox' = Append(inbox, p) /\ wire' = Tail(wire)
      /\ axis' = axis /\ pc' = pc
  BY DEF Deliver
<1>2. inbox \in Seq(Pieces)
  BY DEF TableType
<1>3. CASE wire = <<x, y>> /\ inbox = <<>>
  <2>1. Head(wire) = x /\ Tail(wire) = <<y>>
    BY <1>3
  <2>2. p.part = 1 /\ p.val = at[axis]
    BY <2>1
  <2>3. inbox' = <<p>>
    <3> HIDE DEF p
    <3> QED  BY <1>1, <1>3
  <2>4. Len(inbox') = 1 /\ inbox'[1] = p /\ inbox' # <<>>
    <3> HIDE DEF p
    <3> QED  BY <2>3
  <2> QED  BY <1>1, <1>3, <2>1, <2>2, <2>4 DEF Asked
<1>4. CASE wire = <<y>> /\ Len(inbox) = 1 /\ inbox[1].part = 1
  <2>1. Head(wire) = y /\ Tail(wire) = <<>>
    BY <1>4
  <2>2. p.part = 2
    BY <2>1
  <2>3. Len(inbox') = 2 /\ inbox'[1] = inbox[1] /\ inbox'[2] = p /\ inbox' # <<>> /\ inbox # <<>>
    <3>1. p \in Pieces
      BY <2>1 DEF Pieces, TableType
    <3> HIDE DEF p
    <3>2. /\ Append(inbox, p) \in Seq(Pieces) /\ Len(Append(inbox, p)) = 2
          /\ Append(inbox, p)[1] = inbox[1] /\ Append(inbox, p)[2] = p
      <4>1. /\ Append(inbox, p) \in Seq(Pieces) /\ Len(Append(inbox, p)) = Len(inbox) + 1
            /\ \A i \in 1 .. Len(inbox) : Append(inbox, p)[i] = inbox[i]
            /\ Append(inbox, p)[Len(inbox) + 1] = p
        BY <1>2, <3>1, AppendProperties
      <4>2. Len(inbox) = 1 /\ Len(inbox) + 1 = 2 /\ 1 \in 1 .. Len(inbox)
        BY <1>4
      <4> QED  BY <4>1, <4>2
    <3>3. inbox # <<>> /\ inbox' # <<>>
      BY <1>1, <1>2, <1>4, <3>2, EmptySeq
    <3> QED  BY <1>1, <3>2, <3>3
  <2> QED  BY <1>1, <1>4, <2>1, <2>2, <2>3 DEF Asked
<1> QED  BY <1>1, <1>3, <1>4 DEF Asked

LEMMA ReceiveOrderly ==
  ASSUME TableType, Asked(axis), Receive
  PROVE  /\ Quiet' /\ inbox # <<>> /\ axis' = "v"
         /\ pc' = IF axis = "h" THEN "ask" ELSE "judge"
         /\ val' = [val EXCEPT ![axis] = inbox[1].val]
<1>1. /\ Len(inbox) >= 2 /\ inbox' = SubSeq(inbox, 3, Len(inbox)) /\ wire' = wire
      /\ val' = [val EXCEPT ![axis] = Answer(inbox[1], inbox[2])]
      /\ pc' = (IF axis = "h" THEN "ask" ELSE "judge") /\ axis' = "v"
  BY DEF Receive, Got
<1>2. wire = <<>> /\ Len(inbox) = 2 /\ inbox[1].part = 1 /\ inbox[2].part = 2
  <2>1. Len(inbox) \in Nat /\ Len(<<>>) = 0
    BY DEF TableType
  <2>2. ~(1 >= 2) /\ ~(0 >= 2)
    OBVIOUS
  <2>3. Len(inbox) # 1 /\ inbox # <<>>
    BY <1>1, <2>1, <2>2, Zenon
  <2> QED  BY <2>3, Zenon DEF Asked
<1>3. inbox' = <<>> /\ inbox # <<>>
  <2>1. inbox' = SubSeq(inbox, 3, 2)
    BY <1>1, <1>2
  <2>2. SubSeq(inbox, 3, 2) = <<>>
    BY SubSeqEmpty
  <2> QED  BY <1>2, <2>1, <2>2
<1> QED  BY <1>1, <1>2, <1>3 DEF Answer, Quiet
-----------------------------------------------------------------------------
(* A cycle of RunLoop that began with a quiet connection and a table that
   stands, as long as it has not read the error value. *)
Watched ==
  /\ goal = "run" /\ clean /\ pc \in {"ask", "read", "judge"}
  /\ axis = "v" => val["h"] # Error
  /\ pc = "judge" => val["v"] # Error

CycleInv ==
  Watched =>
    /\ Arrived
    /\ Orderly
    /\ pc = "read" /\ inbox # <<>> => inbox[1].val = at[axis]
    /\ axis = "v" => val["h"] = at["h"]
    /\ pc = "judge" => val["v"] = at["v"]

LEMMA CycleStep == TableType /\ CycleInv /\ TableNext => CycleInv'
<1> SUFFICES ASSUME TableType, CycleInv, TableNext, Watched'
             PROVE  /\ Arrived'
                    /\ Orderly'
                    /\ (pc = "read" /\ inbox # <<>> => inbox[1].val = at[axis])'
                    /\ (axis = "v" => val["h"] = at["h"])'
                    /\ (pc = "judge" => val["v"] = at["v"])'
  BY DEF CycleInv
<1>0. ASSUME UNCHANGED <<goal, clean, pc, axis, val, at, preset, wire, inbox>>
      PROVE  /\ Arrived'
             /\ Orderly'
             /\ (pc = "read" /\ inbox # <<>> => inbox[1].val = at[axis])'
             /\ (axis = "v" => val["h"] = at["h"])'
             /\ (pc = "judge" => val["v"] = at["v"])'
  BY <1>0 DEF CycleInv, Watched, Arrived, Orderly, Quiet, Asked
<1>1. CASE Move
  <2>1. Watched /\ ~Arrived
    BY <1>1 DEF Move, Watched
  <2> QED  BY <2>1 DEF CycleInv
<1>2. CASE Deliver
  <2>1. Watched /\ wire # <<>> /\ UNCHANGED <<pc, axis, val, at, preset>>
    BY <1>2 DEF Deliver, Watched, stage
  <2>2. pc = "read" /\ Asked(axis)
    BY <2>1 DEF CycleInv, Orderly, Quiet, Watched
  <2>3. /\ Asked(axis)' /\ inbox' # <<>>
        /\ inbox = <<>> => inbox'[1].val = at[axis]
        /\ inbox # <<>> => inbox'[1] = inbox[1]
    BY <1>2, <2>2, DeliverOrderly
  <2>4. inbox'[1].val = at[axis]
    BY <2>1, <2>2, <2>3 DEF CycleInv
  <2> QED  BY <2>1, <2>2, <2>3, <2>4 DEF CycleInv, Arrived, Orderly
<1>3. CASE Trash
  <2>1. /\ inbox' = <<>> /\ clean' = (wire = <<>> /\ Arrived) /\ pc' = "ask" /\ axis' = "h"
        /\ UNCHANGED <<at, preset, wire>>
    BY <1>3 DEF Trash, TrashRecvBuffer, stage
  <2>2. wire = <<>> /\ Arrived
    BY <2>1 DEF Watched
  <2> QED  BY <2>1, <2>2 DEF Arrived, Orderly, Quiet
<1>4. CASE Ask
  <2>1. Watched /\ pc = "ask" /\ UNCHANGED <<val, at, preset>>
    BY <1>4 DEF Ask, Watched, stage
  <2>2. Quiet
    BY <2>1 DEF CycleInv, Orderly
  <2>3. Asked(axis)' /\ inbox' = <<>> /\ axis' = axis /\ pc' = "read"
    BY <1>4, <2>2, AskOrderly
  <2> QED  BY <2>1, <2>3 DEF CycleInv, Arrived, Orderly
<1>5. CASE Receive
  <2>1. pc = "read" /\ UNCHANGED <<at, preset, goal, clean>> /\ val \in [Axes -> Int] /\ axis \in Axes
    BY <1>5 DEF Receive, Got, stage, TableType
  <2>2. axis' = "v" /\ pc' = (IF axis = "h" THEN "ask" ELSE "judge")
    BY <1>5 DEF Receive, Got
  <2>3. Watched
    <3>1. axis = "v" => val'["h"] = val["h"]
      BY <1>5, <2>1 DEF Receive, Got, Axes
    <3> QED  BY <2>1, <2>2, <3>1 DEF Watched
  <2>4. Asked(axis) /\ Arrived
    BY <2>1, <2>3 DEF CycleInv, Orderly
  <2>5. Quiet' /\ inbox # <<>> /\ val' = [val EXCEPT ![axis] = inbox[1].val]
    BY <1>5, <2>4, ReceiveOrderly
  <2>6. inbox[1].val = at[axis]
    BY <2>1, <2>3, <2>5 DEF CycleInv
  <2>7. CASE axis = "h"
    BY <2>1, <2>2, <2>4, <2>5, <2>6, <2>7 DEF Arrived, Orderly, Axes
  <2>8. CASE axis = "v"
    <3>1. val["h"] = at["h"]
      BY <2>3, <2>8 DEF CycleInv
    <3> QED  BY <2>1, <2>2, <2>4, <2>5, <2>6, <2>8, <3>1 DEF Arrived, Orderly, Axes
  <2> QED  BY <2>1, <2>7, <2>8 DEF Axes
<1>6. CASE ReceiveTimeout
  <2>1. val' = [val EXCEPT ![axis] = Error] /\ axis' = "v" /\ val \in [Axes -> Int] /\ axis \in Axes
        /\ pc' = (IF axis = "h" THEN "ask" ELSE "judge")
    BY <1>6 DEF ReceiveTimeout, Got, TableType
  <2>2. CASE axis = "h"
    <3>1. val'["h"] = Error
      BY <2>1, <2>2 DEF Axes
    <3> QED  BY <2>1, <3>1 DEF Watched
  <2>3. CASE axis = "v"
    <3>1. val'["v"] = Error /\ pc' = "judge"
      BY <2>1, <2>3 DEF Axes
    <3> QED  BY <3>1 DEF Watched
  <2> QED  BY <2>1, <2>2, <2>3 DEF Axes
<1>7. CASE Judge
  <2>1. goal' # "run"
    BY <1>7 DEF Judge, FinalPart, WaitStable
  <2> QED  BY <2>1 DEF Watched
<1>8. CASE RunCycle \/ RunLoopEnds
  <2>1. pc' \notin {"ask", "read", "judge"}
    BY <1>8 DEF RunCycle, RunLoopEnds
  <2> QED  BY <2>1 DEF Watched
<1>9. CASE DoConfigure(file) \/ DoStartRun
  <2>1. pc' \notin {"ask", "read", "judge"}
    BY <1>9 DEF DoConfigure, FinalPart, WaitStable, DoStartRun
  <2> QED  BY <2>1 DEF Watched
<1>10. CASE DoStopRun \/ UNCHANGED tableVars
  BY <1>0, <1>10 DEF DoStopRun, tableVars, stage, link
<1> QED
  BY <1>1, <1>2, <1>3, <1>4, <1>5, <1>6, <1>7, <1>8, <1>9, <1>10 DEF TableNext

LEMMA CycleHolds == TableType /\ CycleInv => PositionsTrue
<1> SUFFICES ASSUME TableType, CycleInv, pc = "judge", goal = "run", clean,
                    \A a \in Axes : val[a] # Error
             PROVE  val = at
  BY DEF PositionsTrue
<1>1. axis = "v" /\ Watched
  BY DEF Watched, TableType, Axes
<1>2. val["h"] = at["h"] /\ val["v"] = at["v"]
  BY <1>1 DEF CycleInv
<1>3. \A a \in Axes : val[a] = at[a]
  BY <1>2 DEF Axes
<1> QED  BY <1>3 DEF TableType

(* The initial state of the stage. *)
LEMMA TypeInit == Init => TableType
<1> SUFFICES ASSUME Init PROVE TableType
  OBVIOUS
<1>1. /\ file \in Configs /\ conf = file /\ preset = at
      /\ at = [a \in Axes |-> Rounded(file.pos[a])]
      /\ val = NoValues /\ last = NoValues /\ lag = 0 /\ stable = 0 /\ axis = "h"
      /\ wire = <<>> /\ inbox = <<>> /\ goal = "final" /\ pc = "idle"
      /\ misread = FALSE /\ clean = TRUE
  BY DEF Init, TableInit
<1>2. at \in [Axes -> Int]
  BY <1>1, ConfigInts, RoundedInt
<1>3. wire \in Seq(Questions) /\ inbox \in Seq(Pieces) /\ lag \in Nat /\ stable \in Nat
  BY <1>1
<1>4. misread \in BOOLEAN /\ clean \in BOOLEAN /\ axis \in Axes
  BY <1>1, Zenon DEF Axes
<1> QED  BY <1>1, <1>2, <1>3, <1>4, NoValuesInt DEF TableType

LEMMA TypeAlways == Spec => []TableType
<1>1. TableType /\ [Next]_vars => TableType'
  <2>1. TableType => file \in Configs
    BY DEF TableType
  <2> QED  BY <2>1, FileKept, StepOfTable, TypeStep
<1> QED  BY <1>1, TypeInit, PTL DEF Spec

(* Spec implies that PositionsTrue always holds: however late the answers come
   and wherever they are cut, a cycle of RunLoop that found the connection quiet
   sends no other than the true positions, or an error value. *)
THEOREM TruePositionsSent == Spec => []PositionsTrue
<1>1. Init => CycleInv
  BY DEF Init, TableInit, CycleInv, Watched
<1>2. TableType /\ CycleInv /\ [Next]_vars => CycleInv'
  BY StepOfTable, CycleStep
<1> QED  BY <1>1, <1>2, TypeAlways, CycleHolds, PTL DEF Spec
-----------------------------------------------------------------------------
(* x lies behind p, or at p, on the way to t. *)
Between(x, p, t) == (x <= p /\ p <= t) \/ (t <= p /\ p <= x)

Behind(a, x) == Between(x, at[a], preset[a])

(* The table has moved on since the reading that last is from. *)
Passed(a) == Behind(a, last[a]) /\ last[a] # at[a]

(* What the reading under way has of the two positions.  A position is fixed
   when the first piece of its answer leaves the table. *)
HKnown == pc \in {"ask", "read", "judge"} /\ (axis = "v" \/ (pc = "read" /\ inbox # <<>>))
VKnown == pc = "judge" \/ (pc = "read" /\ axis = "v" /\ inbox # <<>>)
HPos   == IF axis = "h" THEN inbox[1].val ELSE val["h"]
VPos   == IF pc = "judge" THEN val["v"] ELSE inbox[1].val

(* The reading under way is going to differ from the last one. *)
Differs ==
  IF VKnown THEN HPos # last["h"] \/ VPos # last["v"]
  ELSE HKnown => HPos # last["h"] \/ Passed("v")

(* While DoConfigure waits: all readings lie behind the table, and if it is
   under way they have been equal for no longer than it rested, up to one more
   that was under way when it moved on. *)
WaitInv ==
  /\ Orderly
  /\ stable > 0 => \A a \in Axes : Behind(a, last[a])
  /\ HKnown => Behind("h", HPos)
  /\ VKnown => Behind("v", VPos)
  /\ ~Arrived => /\ lag <= MaxLag
                 /\ \/ stable <= lag
                    \/ (\E a \in Axes : Passed(a)) /\ (Differs \/ stable <= MaxLag)

Waiting == goal # "run" /\ pc # "idle" /\ ~misread

LEMMA TowardsBetween ==
  ASSUME NEW x \in Int, NEW p \in Int, NEW t \in Int, Between(x, p, t)
  PROVE  /\ Towards(p, t) \in Int
         /\ Between(x, Towards(p, t), t)
         /\ p # t \/ x # p => x # Towards(p, t)
BY DEF Between, Towards

LEMMA BetweenSelf ==
  ASSUME NEW p \in Int, NEW t \in Int
  PROVE  Between(p, p, t)
BY DEF Between

LEMMA PositionsInt ==
  ASSUME TableType, Orderly
  PROVE  (HKnown => HPos \in Int) /\ (VKnown => VPos \in Int)
<1>1. val["h"] \in Int /\ val["v"] \in Int
  BY DEF TableType, Axes
<1>2. ASSUME inbox # <<>>  PROVE inbox[1].val \in Int
  <2>1. inbox \in Seq(Pieces) /\ Len(inbox) \in Nat /\ Len(inbox) # 0
    BY <1>2, EmptySeq, LenProperties DEF TableType
  <2>2. inbox[1] \in Pieces
    BY <2>1, ElementOfSeq
  <2> QED  BY <2>2 DEF Pieces
<1>3. axis \in Axes /\ (pc = "judge" => axis = "v")
  BY DEF TableType
<1> QED  BY <1>1, <1>2, <1>3 DEF HKnown, VKnown, HPos, VPos, Axes

LEMMA WaitMove ==
  ASSUME TableType, WaitInv, Move
  PROVE  WaitInv'
<1>1. /\ ~Arrived /\ at' = [a \in Axes |-> Towards(at[a], preset[a])] /\ lag' = 0
      /\ UNCHANGED <<preset, wire, inbox, pc, axis, val, last, stable>>
  BY DEF Move, link
<1>2. ASSUME NEW a \in Axes, NEW x \in Int, Behind(a, x)
      PROVE  /\ Between(x, at'[a], preset'[a])
             /\ at[a] # preset[a] \/ x # at[a] => x # at'[a]
  <2>1. at'[a] = Towards(at[a], preset[a]) /\ preset'[a] = preset[a]
        /\ at[a] \in Int /\ preset[a] \in Int
    BY <1>1 DEF TableType
  <2>2. Between(x, at[a], preset[a])
    BY <1>2 DEF Behind
  <2> QED  BY <2>1, <2>2, TowardsBetween
<1>3. UNCHANGED <<HKnown, VKnown, HPos, VPos>>
  BY <1>1 DEF HKnown, VKnown, HPos, VPos
<1>4. Orderly'
  BY <1>1 DEF WaitInv, Orderly, Quiet, Asked
<1>5. ASSUME NEW a \in Axes, Passed(a)
      PROVE  Passed(a)'
  <2>1. last[a] \in Int /\ last'[a] = last[a]
    BY <1>1 DEF TableType
  <2> QED  BY <1>2, <1>5, <2>1 DEF Passed, Behind
<1>6. ASSUME stable > 0, NEW a \in Axes
      PROVE  Behind(a, last[a])' /\ (at[a] # preset[a] => Passed(a)')
  <2>1. last[a] \in Int /\ last'[a] = last[a] /\ Behind(a, last[a])
    BY <1>1, <1>6 DEF TableType, WaitInv
  <2> QED  BY <1>2, <2>1 DEF Behind, Passed
<1>7. HKnown => HPos \in Int /\ Behind("h", HPos)
  BY PositionsInt DEF WaitInv
<1>8. VKnown => VPos \in Int /\ Behind("v", VPos)
  BY PositionsInt DEF WaitInv
<1>9. (HKnown' => Behind("h", HPos)') /\ (VKnown' => Behind("v", VPos)')
  BY <1>2, <1>3, <1>7, <1>8 DEF Behind, Axes
<1>10. Differs => Differs'
  BY <1>1, <1>3, <1>5 DEF Differs, Axes
<1>11. lag' <= MaxLag /\ \/ stable' <= lag'
                         \/ (\E a \in Axes : Passed(a)') /\ (Differs' \/ stable' <= MaxLag)
  <2>0. stable \in Nat /\ lag \in Nat /\ MaxLag \in Nat /\ stable' = stable
    BY <1>1, TableAssumption DEF TableType
  <2>1. CASE stable = 0
    BY <1>1, <2>0, <2>1
  <2>2. CASE stable > 0 /\ stable <= lag
    <3>1. stable <= MaxLag /\ lag' <= MaxLag
      BY <1>1, <2>0, <2>2 DEF WaitInv
    <3>2. PICK a \in Axes : at[a] # preset[a]
      BY <1>1 DEF Arrived, TableType
    <3>3. Passed(a)'
      BY <1>6, <2>2, <3>2
    <3> QED  BY <2>0, <3>1, <3>2, <3>3
  <2>3. CASE ~(stable <= lag)
    <3>1. (\E a \in Axes : Passed(a)) /\ (Differs \/ stable <= MaxLag)
      BY <1>1, <2>3 DEF WaitInv
    <3>2. lag' <= MaxLag
      BY <1>1, <2>0
    <3> QED  BY <1>5, <1>10, <2>0, <3>1, <3>2
  <2> QED  BY <2>0, <2>1, <2>2, <2>3
<1> QED  BY <1>1, <1>4, <1>6, <1>9, <1>11 DEF WaitInv

LEMMA WaitDeliver ==
  ASSUME TableType, WaitInv, Deliver, pc # "idle"
  PROVE  WaitInv'
<1>1. wire # <<>> /\ UNCHANGED <<at, preset, lag, pc, axis, val, last, stable>>
  BY DEF Deliver, stage
<1>2. UNCHANGED <<Arrived>> /\ \A a \in Axes : /\ Passed(a)' <=> Passed(a)
                                               /\ \A x : Behind(a, x)' <=> Behind(a, x)
  BY <1>1 DEF Arrived, Passed, Behind
<1>3. CASE pc \notin {"ask", "read", "judge"}
  <2>1. ~HKnown /\ ~VKnown /\ ~HKnown' /\ ~VKnown'
    BY <1>1, <1>3 DEF HKnown, VKnown
  <2>2. Orderly' /\ Differs /\ Differs'
    BY <1>1, <1>3, <2>1 DEF Orderly, Differs
  <2> QED  BY <1>1, <1>2, <2>1, <2>2 DEF WaitInv
<1>4. CASE pc \in {"ask", "read", "judge"}
  <2>1. pc = "read" /\ Asked(axis)
    BY <1>1, <1>4 DEF WaitInv, Orderly, Quiet
  <2>2. /\ Asked(axis)' /\ inbox' # <<>>
        /\ inbox = <<>> => inbox'[1].val = at[axis]
        /\ inbox # <<>> => inbox'[1] = inbox[1]
    BY <2>1, DeliverOrderly
  <2>3. Orderly'
    BY <1>1, <2>1, <2>2 DEF Orderly
  <2>4. \A a \in Axes : at[a] \in Int /\ preset[a] \in Int /\ Behind(a, at[a])
    BY BetweenSelf DEF TableType, Behind
  <2>5. CASE inbox # <<>>
    <3>1. UNCHANGED <<HKnown, VKnown, HPos, VPos>>
      BY <1>1, <2>1, <2>2, <2>5 DEF HKnown, VKnown, HPos, VPos
    <3>2. Differs' <=> Differs
      BY <1>1, <1>2, <3>1 DEF Differs, Axes
    <3> QED  BY <1>1, <1>2, <2>3, <3>1, <3>2 DEF WaitInv, Axes
  <2>6. CASE inbox = <<>> /\ axis = "h"
    <3>1. ~HKnown /\ ~VKnown /\ HKnown' /\ ~VKnown' /\ HPos' = at["h"]
      BY <1>1, <2>1, <2>2, <2>6 DEF HKnown, VKnown, HPos
    <3>2. (\E a \in Axes : Passed(a)) => Differs'
      BY <1>1, <1>2, <3>1 DEF Differs, Passed, Axes
    <3>3. Behind("h", HPos)'
      BY <1>2, <2>4, <3>1 DEF Axes
    <3> QED  BY <1>1, <1>2, <2>3, <3>1, <3>2, <3>3 DEF WaitInv
  <2>7. CASE inbox = <<>> /\ axis = "v"
    <3>1. HKnown /\ ~VKnown /\ HKnown' /\ VKnown' /\ VPos' = at["v"] /\ HPos' = HPos
      BY <1>1, <2>1, <2>2, <2>7 DEF HKnown, VKnown, HPos, VPos
    <3>2. Differs => Differs'
      BY <1>1, <1>2, <3>1 DEF Differs, Passed, Axes
    <3>3. Behind("v", VPos)'
      BY <1>2, <2>4, <3>1 DEF Axes
    <3>4. Behind("h", HPos)'
      BY <1>2, <3>1 DEF WaitInv, Axes
    <3> QED  BY <1>1, <1>2, <2>3, <3>1, <3>2, <3>3, <3>4 DEF WaitInv
  <2> QED  BY <2>5, <2>6, <2>7 DEF TableType, Axes
<1> QED  BY <1>3, <1>4

LEMMA WaitAsk ==
  ASSUME TableType, WaitInv, Ask
  PROVE  WaitInv'
<1>1. pc = "ask" /\ Quiet /\ UNCHANGED <<at, preset, lag, val, last, stable>>
  BY DEF Ask, WaitInv, Orderly, stage
<1>2. Asked(axis)' /\ inbox' = <<>> /\ axis' = axis /\ pc' = "read"
  BY <1>1, AskOrderly
<1>3. UNCHANGED Arrived /\ \A a \in Axes : /\ Passed(a)' <=> Passed(a)
                                           /\ \A x : Behind(a, x)' <=> Behind(a, x)
  BY <1>1 DEF Arrived, Passed, Behind
<1>4. /\ HKnown' <=> HKnown
      /\ HKnown => HPos' = HPos
      /\ ~VKnown /\ ~VKnown'
  BY <1>1, <1>2 DEF HKnown, VKnown, HPos, Quiet
<1>5. Differs' <=> Differs
  BY <1>1, <1>3, <1>4 DEF Differs, Axes
<1>6. HKnown' => Behind("h", HPos)'
  BY <1>3, <1>4 DEF WaitInv, Axes
<1>7. Orderly'
  BY <1>2 DEF Orderly
<1> QED  BY <1>1, <1>3, <1>4, <1>5, <1>6, <1>7 DEF WaitInv

LEMMA WaitReceive ==
  ASSUME TableType, WaitInv, Receive
  PROVE  WaitInv'
<1>1. pc = "read" /\ Asked(axis) /\ UNCHANGED <<at, preset, lag, last, stable>>
  BY DEF Receive, Got, WaitInv, Orderly, stage
<1>2. /\ Quiet' /\ inbox # <<>> /\ axis' = "v"
      /\ pc' = IF axis = "h" THEN "ask" ELSE "judge"
      /\ val' = [val EXCEPT ![axis] = inbox[1].val]
  BY <1>1, ReceiveOrderly
<1>3. UNCHANGED Arrived /\ \A a \in Axes : /\ Passed(a)' <=> Passed(a)
                                           /\ \A x : Behind(a, x)' <=> Behind(a, x)
  BY <1>1 DEF Arrived, Passed, Behind
<1>4. val \in [Axes -> Int] /\ axis \in Axes
  BY DEF TableType
<1>5. HKnown /\ HKnown' /\ HPos' = HPos /\ (VKnown' <=> VKnown) /\ (VKnown => VPos' = VPos)
  <2>1. CASE axis = "h"
    <3>1. val'["h"] = inbox[1].val
      BY <1>2, <1>4, <2>1 DEF Axes
    <3> QED  BY <1>1, <1>2, <2>1, <3>1 DEF HKnown, VKnown, HPos
  <2>2. CASE axis = "v"
    <3>1. val'["v"] = inbox[1].val /\ val'["h"] = val["h"]
      BY <1>2, <1>4, <2>2 DEF Axes
    <3> QED  BY <1>1, <1>2, <2>2, <3>1 DEF HKnown, VKnown, HPos, VPos
  <2> QED  BY <1>4, <2>1, <2>2 DEF Axes
<1>6. Differs' <=> Differs
  BY <1>1, <1>3, <1>5 DEF Differs, Axes
<1>7. Orderly'
  BY <1>2 DEF Orderly
<1>8. Behind("h", HPos)' /\ (VKnown' => Behind("v", VPos)')
  BY <1>3, <1>5 DEF WaitInv, Axes
<1> QED  BY <1>1, <1>3, <1>5, <1>6, <1>7, <1>8 DEF WaitInv

(* The readings have not been equal for long enough before the table stands. *)
LEMMA JudgeArrived ==
  ASSUME TableType, WaitInv, Judge, StableReadings >= Stability
  PROVE  Arrived
<1> SUFFICES ASSUME ~Arrived PROVE FALSE
  OBVIOUS
<1>1. stable \in Nat /\ lag \in Nat /\ MaxLag \in Nat /\ Stability \in Nat /\ MaxLag + 1 < Stability
  BY TableAssumption DEF TableType
<1>2. pc = "judge" /\ axis = "v" /\ VKnown
  BY DEF Judge, TableType, VKnown
<1>3. val = last /\ stable + 1 >= Stability
  BY <1>1 DEF StableReadings
<1>4. ~Differs
  BY <1>2, <1>3 DEF Differs, HPos, VPos
<1>5. stable <= MaxLag
  BY <1>1, <1>4 DEF WaitInv
<1> QED  BY <1>1, <1>3, <1>5

(* What a wait for the stable position begins with. *)
LEMMA WaitBegins ==
  ASSUME pc' \in {"trash", "idle"}, stable' = 0, lag' = 0
  PROVE  WaitInv'
<1>1. ~HKnown' /\ ~VKnown' /\ Orderly'
  BY DEF HKnown, VKnown, Orderly
<1>2. MaxLag \in Nat
  BY TableAssumption
<1> QED  BY <1>1, <1>2 DEF WaitInv

LEMMA WaitJudge ==
  ASSUME TableType, WaitInv, Judge, pc' # "idle"
  PROVE  WaitInv'
<1>1. CASE StableReadings >= Stability
  <2>1. lag' = 0 /\ FinalPart(preset)
    BY <1>1 DEF Judge
  <2>2. pc' = "trash" /\ stable' = 0
    BY <2>1 DEF FinalPart, WaitStable
  <2> QED  BY <2>1, <2>2, WaitBegins
<1>2. CASE ~(StableReadings >= Stability)
  <2>1. /\ pc = "judge" /\ (Arrived \/ lag < MaxLag)
        /\ UNCHANGED <<at, preset, wire, inbox>>
        /\ last' = val /\ stable' = StableReadings
        /\ lag' = (IF Arrived THEN 0 ELSE lag + 1)
        /\ pc' = "ask" /\ axis' = "h"
    BY <1>2 DEF Judge
  <2>2. axis = "v" /\ HKnown /\ VKnown /\ HPos = val["h"] /\ VPos = val["v"]
    BY <2>1 DEF TableType, HKnown, VKnown, HPos, VPos
  <2>3. \A a \in Axes : Behind(a, val[a])
    BY <2>2 DEF WaitInv, Axes
  <2>4. Arrived' <=> Arrived
    BY <2>1 DEF Arrived
  <2>5. \A a \in Axes : Behind(a, last[a])'
    BY <2>1, <2>3 DEF Behind
  <2>6. ~HKnown' /\ ~VKnown' /\ Differs' /\ Orderly'
    BY <2>1 DEF HKnown, VKnown, Differs, Orderly, WaitInv, Quiet
  <2>7. stable \in Nat /\ lag \in Nat /\ MaxLag \in Nat
    BY TableAssumption DEF TableType
  <2>8. ASSUME ~Arrived
        PROVE  lag' <= MaxLag /\ (stable' <= lag' \/ \E a \in Axes : Passed(a)')
    <3>1. lag' = lag + 1 /\ lag' <= MaxLag
      BY <2>1, <2>7, <2>8
    <3>2. CASE val # last
      <4>1. stable' = 0
        BY <2>1, <3>2 DEF StableReadings
      <4> QED  BY <2>7, <3>1, <4>1
    <3>3. CASE val = last
      <4>1. stable' = stable + 1 /\ last' = last
        BY <2>1, <3>3 DEF StableReadings
      <4>2. CASE stable <= lag
        BY <2>7, <3>1, <4>1, <4>2
      <4>3. CASE \E a \in Axes : Passed(a)
        <5>1. \E a \in Axes : Passed(a)'
          BY <2>1, <4>1, <4>3 DEF Passed, Behind
        <5> QED  BY <3>1, <5>1
      <4> QED  BY <2>8, <4>2, <4>3 DEF WaitInv
    <3> QED  BY <3>2, <3>3
  <2> QED  BY <2>4, <2>5, <2>6, <2>8 DEF WaitInv
<1> QED  BY <1>1, <1>2

LEMMA WaitStep == TableType /\ (Waiting => WaitInv) /\ TableNext => (Waiting => WaitInv)'
<1> SUFFICES ASSUME TableType, Waiting => WaitInv, TableNext, Waiting'
             PROVE  WaitInv'
  OBVIOUS
<1>1. CASE Move
  BY <1>1, WaitMove DEF Move, Waiting
<1>2. CASE Deliver
  BY <1>2, WaitDeliver DEF Deliver, Waiting
<1>3. CASE Trash
  <2>1. /\ inbox' = <<>> /\ pc' = "ask" /\ axis' = "h" /\ pc = "trash"
        /\ misread' = (misread \/ (goal # "run" /\ wire # <<>>))
        /\ UNCHANGED <<at, preset, lag, last, stable, wire, goal>>
    BY <1>3 DEF Trash, TrashRecvBuffer, stage
  <2>2. Waiting /\ wire = <<>>
    BY <2>1 DEF Waiting
  <2>3. Orderly' /\ ~HKnown' /\ ~VKnown' /\ Differs'
    BY <2>1, <2>2 DEF Orderly, Quiet, HKnown, VKnown, Differs
  <2>4. UNCHANGED Arrived /\ \A a \in Axes : /\ Passed(a)' <=> Passed(a)
                                             /\ Behind(a, last[a])' <=> Behind(a, last[a])
    BY <2>1 DEF Arrived, Passed, Behind
  <2> QED  BY <2>1, <2>2, <2>3, <2>4 DEF WaitInv
<1>4. CASE Ask
  BY <1>4, WaitAsk DEF Ask, Waiting
<1>5. CASE Receive
  BY <1>5, WaitReceive DEF Receive, Got, Waiting
<1>6. CASE ReceiveTimeout
  BY <1>6 DEF ReceiveTimeout, Got, Waiting
<1>7. CASE Judge
  <2>1. Waiting /\ pc' # "idle"
    BY <1>7 DEF Judge, Waiting
  <2> QED  BY <1>7, <2>1, WaitJudge
<1>8. CASE RunCycle \/ RunLoopEnds \/ DoStartRun
  BY <1>8 DEF RunCycle, RunLoopEnds, DoStartRun, Waiting
<1>9. CASE DoConfigure(file)
  <2>1. lag' = 0 /\ pc' # "idle"
    BY <1>9 DEF DoConfigure, Waiting
  <2>2. pc' = "trash" /\ stable' = 0
    BY <1>9, <2>1 DEF DoConfigure, FinalPart, WaitStable
  <2> QED  BY <2>1, <2>2, WaitBegins
<1>10. CASE DoStopRun \/ UNCHANGED tableVars
  <2>1. UNCHANGED <<at, preset, lag, wire, inbox, pc, axis, goal, val, last, stable, misread>>
    BY <1>10 DEF DoStopRun, tableVars, stage, link
  <2>2. Waiting
    BY <2>1 DEF Waiting
  <2> QED  BY <2>1, <2>2 DEF WaitInv, Orderly, Quiet, Asked, HKnown, VKnown, HPos, VPos,
                             Differs, Passed, Behind, Arrived
<1> QED
  BY <1>1, <1>2, <1>3, <1>4, <1>5, <1>6, <1>7, <1>8, <1>9, <1>10 DEF TableNext
-----------------------------------------------------------------------------
(* The third part: who knows what of whom. *)
Messages == {"Configured", "not finished", "Started", "Stopped"}
Commands == {"configure", "start", "stop"}

ClientType ==
  /\ cmds \in [Clients -> Seq(Commands)]
  /\ status \in [Clients -> Messages]
  /\ hasty \in BOOLEAN

(* The table moves to a configured position; its status tells what it does. *)
Positioning == pc # "idle" /\ goal # "run"

StatusTrue ==
  /\ Positioning <=> status["table"] = "not finished"
  /\ pc # "idle" /\ goal = "run" <=> status["table"] = "Started"

(* A configuration is on the way to the stage. *)
Pending == \E i \in 1 .. Len(cmds["table"]) : cmds["table"][i] = "configure"

FinalSet == \A a \in Axes : conf.pos[a] # Invalid => preset[a] = Rounded(conf.pos[a])

InPlace ==
  /\ Arrived
  /\ \A a \in Axes : file.pos[a] # Invalid => at[a] = Rounded(file.pos[a])

Settled ==
  /\ goal = "final" /\ pc # "idle" => FinalSet
  /\ Positioning => conf = file \/ Pending
  /\ ~misread /\ (\E a \in Axes : file.pos[a] # Invalid) /\ ~Pending /\ ~Positioning => InPlace

(* The client takes data and has not been told to stop. *)
Taking(c) == status[c] = "Started" /\ (c = "table" => ~exit)

(* Where a client can be while Exec waits for the configuration, in a run, and
   while or after it waits for the end of one. *)
ConfigPhase(c) ==
  \/ cmds[c] = <<"configure">> /\ status[c] = "Stopped" /\ seen.status[c] = "Stopped"
  \/ /\ cmds[c] = <<>> /\ status[c] \in {"not finished", "Configured"}
     /\ seen.status[c] = "Configured" => status[c] = "Configured"

RunPhase(c) ==
  \/ cmds[c] = <<"start">> /\ status[c] \in {"Configured", "Stopped"} /\ seen.status[c] # "Started"
  \/ cmds[c] = <<>> /\ Taking(c)

StopPhase(c) ==
  \/ cmds[c] = <<"stop">> /\ Taking(c) /\ seen.status[c] = "Started"
  \/ /\ cmds[c] = <<>> /\ status[c] \in {"Started", "Configured", "Stopped"}
     /\ seen.status[c] \in {"Started", status[c]}

InPhase(c) ==
  IF exec = "waitConfigured" THEN ConfigPhase(c)
  ELSE IF exec = "poll" /\ running THEN RunPhase(c)
  ELSE StopPhase(c)

Agreed == ~hasty => \A c \in Clients : InPhase(c)

LEMMA SendType ==
  ASSUME cmds \in [Clients -> Seq(Commands)], NEW cmd \in Commands, Send(cmd)
  PROVE  cmds' \in [Clients -> Seq(Commands)]
<1>1. \A c \in Clients : Append(cmds[c], cmd) \in Seq(Commands)
  BY AppendProperties
<1> QED  BY <1>1 DEF Send

LEMMA HandledType ==
  ASSUME ClientType, NEW c \in Clients, NEW cmd, Is(c, cmd), NEW st \in Messages, Handled(c, st)
  PROVE  ClientType'
<1>1. cmds' = [cmds EXCEPT ![c] = Tail(@)] /\ status' = [status EXCEPT ![c] = st] /\ hasty' = hasty
  BY DEF Handled, rcVars
<1>2. Tail(cmds[c]) \in Seq(Commands)
  BY DEF Is, ClientType
<1>3. cmds' \in [Clients -> Seq(Commands)] /\ status' \in [Clients -> Messages]
  BY <1>1, <1>2 DEF ClientType
<1> QED  BY <1>1, <1>3 DEF ClientType

LEMMA ClientTypeStep == ClientType /\ [Next]_vars => ClientType'
<1> SUFFICES ASSUME ClientType, [Next]_vars PROVE ClientType'
  OBVIOUS
<1>0. "table" \in Clients /\ "daq" \in Clients /\ Commands = {"configure", "start", "stop"}
      /\ \A m \in {"Configured", "not finished", "Started", "Stopped"} : m \in Messages
  BY DEF Clients, Messages, Commands
<1>1. CASE TableConfigure
  BY <1>0, <1>1, HandledType DEF TableConfigure
<1>2. CASE TableStart
  BY <1>0, <1>2, HandledType DEF TableStart
<1>3. CASE TableStop
  <2>1. status["table"] \in Messages
    BY <1>0 DEF ClientType
  <2> QED  BY <1>0, <1>3, <2>1, HandledType DEF TableStop
<1>4. CASE TableWorks
  <2>1. UNCHANGED <<cmds, hasty>>
    BY <1>4 DEF TableWorks, rcVars
  <2>2. status' = status \/ \E m \in Messages : status' = [status EXCEPT !["table"] = m]
    BY <1>0, <1>4 DEF TableWorks
  <2>3. status' \in [Clients -> Messages]
    BY <2>2 DEF ClientType
  <2> QED  BY <2>1, <2>3 DEF ClientType
<1>5. CASE StageWorks \/ Report \/ TakeData \/ UNCHANGED vars
  BY <1>5 DEF StageWorks, Report, TakeData, vars, clientVars, rcVars, ClientType
<1>6. CASE DaqHandles
  BY <1>0, <1>6, HandledType DEF DaqHandles
<1>7. CASE Poll \/ Stopped \/ Configured \/ OperatorStarts \/ OperatorStops
  <2>1. UNCHANGED status
    BY <1>7 DEF Poll, Stopped, Configured, OperatorStarts, OperatorStops
  <2>2. hasty' \in BOOLEAN
    BY <1>7 DEF Poll, Stopped, Configured, OperatorStarts, OperatorStops, ClientType
  <2>3. cmds' = cmds \/ \E cmd \in Commands : Send(cmd)
    BY <1>0, <1>7 DEF Poll, Stopped, Configured, OperatorStarts, OperatorStops, StartRun, StopRun,
                      Configure
  <2>4. cmds' \in [Clients -> Seq(Commands)]
    BY <2>3, SendType DEF ClientType
  <2> QED  BY <2>1, <2>2, <2>4 DEF ClientType
<1> QED
  BY <1>1, <1>2, <1>3, <1>4, <1>5, <1>6, <1>7 DEF Next, ClientSteps, ExecSteps

LEMMA StatusStep == ClientType /\ StatusTrue /\ [Next]_vars => StatusTrue'
<1> SUFFICES ASSUME ClientType, StatusTrue, [Next]_vars PROVE StatusTrue'
  OBVIOUS
<1>0. status \in [Clients -> Messages] /\ "table" \in Clients /\ "daq" \in Clients
  BY DEF ClientType, Clients
<1>1. CASE TableConfigure
  <2>1. status'["table"] = IF pc' = "idle" THEN "Configured" ELSE "not finished"
    BY <1>0, <1>1 DEF TableConfigure, Handled
  <2>2. goal' # "run"
    BY <1>1 DEF TableConfigure, DoConfigure, FinalPart, WaitStable
  <2> QED  BY <2>1, <2>2 DEF StatusTrue, Positioning
<1>2. CASE TableStart
  <2>1. status'["table"] = "Started" /\ goal' = "run" /\ pc' = "trash"
    BY <1>0, <1>2 DEF TableStart, Handled, DoStartRun
  <2> QED  BY <2>1 DEF StatusTrue, Positioning
<1>3. CASE TableStop
  <2>1. status'["table"] = status["table"] /\ UNCHANGED <<goal, pc>>
    BY <1>0, <1>3 DEF TableStop, Handled, DoStopRun
  <2> QED  BY <2>1 DEF StatusTrue, Positioning
<1>4. CASE TableWorks
  <2>1. pc # "idle" /\ (pc' # "idle" => (goal' = "run" <=> goal = "run"))
    BY <1>4 DEF TableWorks, Producing, Trash, Ask, Receive, ReceiveTimeout, Got, Judge, RunCycle,
                RunLoopEnds, FinalPart, WaitStable
  <2>2. CASE pc' = "idle"
    <3>1. status'["table"] \in {"Stopped", "Configured"}
      BY <1>0, <1>4, <2>2 DEF TableWorks
    <3> QED  BY <2>2, <3>1 DEF StatusTrue, Positioning
  <2>3. CASE pc' # "idle"
    <3>1. status' = status
      BY <1>4, <2>3 DEF TableWorks
    <3> QED  BY <2>1, <2>3, <3>1 DEF StatusTrue, Positioning
  <2> QED  BY <2>2, <2>3
<1>5. CASE DaqHandles
  <2>1. status'["table"] = status["table"] /\ UNCHANGED <<goal, pc>>
    BY <1>0, <1>5 DEF DaqHandles, Handled, tableVars
  <2> QED  BY <2>1 DEF StatusTrue, Positioning
<1>6. CASE StageWorks \/ Report \/ TakeData \/ Poll \/ Stopped \/ Configured
           \/ OperatorStarts \/ OperatorStops \/ UNCHANGED vars
  <2>1. UNCHANGED <<status, goal, pc>>
    BY <1>6 DEF StageWorks, Move, Deliver, Report, TakeData, Poll, Stopped, Configured,
                OperatorStarts, OperatorStops, vars, clientVars, tableVars
  <2> QED  BY <2>1 DEF StatusTrue, Positioning
<1> QED
  BY <1>1, <1>2, <1>3, <1>4, <1>5, <1>6 DEF Next, ClientSteps, ExecSteps

(* What the stage does apart from DoConfigure. *)
TableOwn ==
  \/ Move
  \/ Deliver
  \/ Trash
  \/ Ask
  \/ Receive
  \/ ReceiveTimeout
  \/ Judge
  \/ RunCycle
  \/ RunLoopEnds
  \/ DoStartRun
  \/ DoStopRun
  \/ UNCHANGED tableVars

(* A command is taken from the front and put at the end. *)
LEMMA TailKeeps ==
  ASSUME NEW s \in Seq(Commands), s # <<>>, Head(s) # "configure"
  PROVE  (\E i \in 1 .. Len(s) : s[i] = "configure")
           => \E i \in 1 .. Len(Tail(s)) : Tail(s)[i] = "configure"
<1> SUFFICES ASSUME NEW i \in 1 .. Len(s), s[i] = "configure"
             PROVE  \E j \in 1 .. Len(Tail(s)) : Tail(s)[j] = "configure"
  OBVIOUS
<1>1. Len(s) \in Nat /\ Head(s) = s[1] /\ i # 1
  BY HeadTailProperties, LenProperties
<1>2. Len(Tail(s)) = Len(s) - 1 /\ i - 1 \in 1 .. Len(Tail(s)) /\ Tail(s)[i - 1] = s[i]
  <2>1. Tail(s) \in Seq(Commands) /\ Len(Tail(s)) = Len(s) - 1
    BY HeadTailProperties
  <2>2. i - 1 \in 1 .. Len(Tail(s))
    BY <1>1, <2>1
  <2>3. Tail(s)[i - 1] = s[(i - 1) + 1]
    BY <2>1, <2>2, HeadTailProperties
  <2> QED  BY <1>1, <2>1, <2>2, <2>3
<1> QED  BY <1>2

LEMMA AppendKeeps ==
  ASSUME NEW s \in Seq(Commands), NEW cmd \in Commands
  PROVE  /\ (\E i \in 1 .. Len(s) : s[i] = "configure")
              => \E i \in 1 .. Len(Append(s, cmd)) : Append(s, cmd)[i] = "configure"
         /\ cmd = "configure"
              => \E i \in 1 .. Len(Append(s, cmd)) : Append(s, cmd)[i] = "configure"
<1>1. /\ Len(Append(s, cmd)) = Len(s) + 1 /\ Len(s) \in Nat
      /\ \A i \in 1 .. Len(s) : Append(s, cmd)[i] = s[i]
      /\ Append(s, cmd)[Len(s) + 1] = cmd
  BY AppendProperties, LenProperties
<1>2. \A i \in 1 .. Len(s) : i \in 1 .. Len(Append(s, cmd))
  BY <1>1
<1>3. Len(s) + 1 \in 1 .. Len(Append(s, cmd))
  BY <1>1
<1> QED  BY <1>1, <1>2, <1>3, Zenon

LEMMA SendPends ==
  ASSUME ClientType, NEW cmd \in Commands, Send(cmd)
  PROVE  (Pending => Pending') /\ (cmd = "configure" => Pending')
<1>1. cmds'["table"] = Append(cmds["table"], cmd) /\ cmds["table"] \in Seq(Commands)
  BY DEF Send, Clients, ClientType
<1> QED  BY <1>1, AppendKeeps DEF Pending

LEMMA StepKeepsPending ==
  ClientType /\ [Next]_vars =>
    TableConfigure \/ (TableOwn /\ (Pending => Pending') /\ (~Pending' => file' = file))
<1> SUFFICES ASSUME ClientType, [Next]_vars, ~TableConfigure
             PROVE  TableOwn /\ (Pending => Pending') /\ (~Pending' => file' = file)
  OBVIOUS
<1>0. /\ cmds \in [Clients -> Seq(Commands)] /\ "table" \in Clients /\ "daq" \in Clients
      /\ "daq" # "table" /\ {"configure", "start", "stop"} = Commands
  BY DEF ClientType, Clients, Commands
<1>1. CASE TableStart \/ TableStop
  <2>1. TableOwn /\ file' = file
    BY <1>1 DEF TableStart, TableStop, Handled, TableOwn, rcVars
  <2>2. /\ cmds["table"] # <<>> /\ Head(cmds["table"]) # "configure"
        /\ cmds["table"] \in Seq(Commands)
    BY <1>0, <1>1 DEF TableStart, TableStop, Is
  <2>3. cmds'["table"] = Tail(cmds["table"])
    BY <1>0, <1>1 DEF TableStart, TableStop, Handled
  <2> QED  BY <2>1, <2>2, <2>3, TailKeeps DEF Pending
<1>2. CASE TableWorks \/ StageWorks \/ Report \/ TakeData \/ UNCHANGED vars
  <2>1. TableOwn
    BY <1>2 DEF TableWorks, Producing, StageWorks, Report, TakeData, vars, TableOwn
  <2>2. UNCHANGED <<cmds, file>>
    BY <1>2 DEF TableWorks, StageWorks, Report, TakeData, vars, clientVars, rcVars
  <2> QED  BY <2>1, <2>2 DEF Pending
<1>3. CASE DaqHandles
  <2>1. TableOwn /\ file' = file /\ cmds'["table"] = cmds["table"]
    BY <1>0, <1>3 DEF DaqHandles, Handled, TableOwn, rcVars
  <2> QED  BY <2>1 DEF Pending
<1>4. CASE Poll \/ Stopped \/ Configured \/ OperatorStarts \/ OperatorStops
  <2>1. TableOwn
    BY <1>4 DEF Poll, Stopped, Configured, OperatorStarts, OperatorStops, TableOwn
  <2>2. \/ cmds' = cmds /\ file' = file
        \/ file' = file /\ \E cmd \in Commands : Send(cmd)
        \/ Send("configure")
    BY <1>0, <1>4 DEF Poll, Stopped, Configured, OperatorStarts, OperatorStops, StartRun, StopRun,
                      Configure
  <2>3. (Pending => Pending') /\ (~Pending' => file' = file)
    <3>1. CASE cmds' = cmds /\ file' = file
      BY <3>1 DEF Pending
    <3>2. CASE file' = file /\ \E cmd \in Commands : Send(cmd)
      BY <3>2, SendPends
    <3>3. CASE Send("configure")
      BY <1>0, <3>3, SendPends
    <3> QED  BY <2>2, <3>1, <3>2, <3>3
  <2> QED  BY <2>1, <2>3
<1> QED
  BY <1>1, <1>2, <1>3, <1>4 DEF Next, ClientSteps, ExecSteps

(* Once the presets of a final position are set they are those of the
   configuration. *)
LEMMA FinalPresetSet ==
  ASSUME NEW p, FinalPart(p)
  PROVE  /\ FinalSet' /\ goal' = "final"
         /\ pc' = IF \E a \in Axes : conf'.pos[a] # Invalid THEN "trash" ELSE "idle"
BY DEF FinalPart, FinalPreset, FinalSet, WaitStable

LEMMA SettledConfigure ==
  ASSUME TableConfigure
  PROVE  Settled'
<1>1. DoConfigure(file) /\ file' = file
  BY DEF TableConfigure, Handled, rcVars
<1>2. conf' = file'
  BY <1>1 DEF DoConfigure
<1>3. CASE Approached # {}
  <2>1. goal' = "approach" /\ pc' = "trash"
    BY <1>1, <1>3 DEF DoConfigure, WaitStable
  <2> QED  BY <1>2, <2>1 DEF Settled, Positioning
<1>4. CASE Approached = {}
  <2>1. PICK p : FinalPart(p)
    BY <1>1, <1>4 DEF DoConfigure
  <2>2. /\ FinalSet' /\ goal' = "final"
        /\ pc' = IF \E a \in Axes : conf'.pos[a] # Invalid THEN "trash" ELSE "idle"
    BY <2>1, FinalPresetSet
  <2> QED  BY <1>2, <2>2 DEF Settled, Positioning
<1> QED  BY <1>3, <1>4

LEMMA SettledOwn ==
  ASSUME TableType, Waiting => WaitInv, Settled,
         TableOwn, Pending => Pending', ~Pending' => file' = file
  PROVE  Settled'
<1>1. CASE Judge
  <2>0. /\ pc = "judge" /\ goal # "run" /\ UNCHANGED <<at, conf, misread>>
        /\ (conf = file \/ Pending)
    BY <1>1 DEF Judge, Settled, Positioning
  <2>1. (Positioning => conf = file \/ Pending)'
    BY <2>0
  <2>2. CASE StableReadings >= Stability /\ goal = "approach"
    <3>1. FinalPart(preset)
      BY <1>1, <2>2 DEF Judge
    <3>2. /\ FinalSet' /\ goal' = "final"
          /\ pc' = IF \E a \in Axes : conf'.pos[a] # Invalid THEN "trash" ELSE "idle"
      BY <3>1, FinalPresetSet
    <3> QED  BY <2>0, <2>1, <3>2 DEF Settled, Positioning
  <2>3. CASE StableReadings >= Stability /\ goal # "approach"
    <3>1. goal = "final" /\ UNCHANGED <<preset, goal>> /\ pc' = "idle"
      BY <1>1, <2>0, <2>3 DEF Judge, TableType
    <3>2. FinalSet
      BY <2>0, <3>1 DEF Settled
    <3>3. ~misread => Arrived
      BY <1>1, <2>0, <2>3, JudgeArrived DEF Waiting
    <3>4. ~misread /\ conf = file /\ file' = file => InPlace'
      BY <2>0, <3>1, <3>2, <3>3 DEF InPlace, Arrived, FinalSet
    <3> QED  BY <2>0, <2>1, <3>1, <3>4 DEF Settled
  <2>4. CASE ~(StableReadings >= Stability)
    <3>1. pc' = "ask" /\ UNCHANGED <<preset, goal>>
      BY <1>1, <2>4 DEF Judge
    <3>2. FinalSet => FinalSet'
      BY <2>0, <3>1 DEF FinalSet
    <3> QED  BY <2>0, <2>1, <3>1, <3>2 DEF Settled, Positioning
  <2> QED  BY <2>2, <2>3, <2>4
<1>2. CASE Move
  <2>1. ~Arrived /\ UNCHANGED <<preset, conf, misread, goal, pc>>
    BY <1>2 DEF Move
  <2>2. FinalSet => FinalSet'
    BY <2>1 DEF FinalSet
  <2> QED  BY <2>1, <2>2 DEF Settled, Positioning, InPlace
<1>3. CASE Deliver \/ Trash \/ Ask \/ Receive \/ ReceiveTimeout \/ RunCycle \/ RunLoopEnds
           \/ DoStartRun \/ DoStopRun \/ UNCHANGED tableVars
  <2>1. /\ UNCHANGED <<at, preset, conf>>
        /\ Positioning' <=> Positioning
        /\ (goal = "final" /\ pc # "idle")' => goal = "final" /\ pc # "idle"
    BY <1>3 DEF Deliver, Trash, Ask, Receive, ReceiveTimeout, Got, RunCycle, RunLoopEnds, DoStartRun,
                DoStopRun, tableVars, stage, Positioning
  <2>2. misread => misread'
    <3>1. CASE Trash \/ ReceiveTimeout
      BY <3>1, Zenon DEF Trash, ReceiveTimeout
    <3>2. CASE ~(Trash \/ ReceiveTimeout)
      BY <1>3, <3>2 DEF Deliver, Ask, Receive, RunCycle, RunLoopEnds, DoStartRun, DoStopRun, tableVars
    <3> QED  BY <3>1, <3>2
  <2>3. (FinalSet => FinalSet') /\ (InPlace /\ file' = file => InPlace')
    BY <2>1 DEF FinalSet, InPlace, Arrived
  <2> QED  BY <2>1, <2>2, <2>3 DEF Settled
<1> QED  BY <1>1, <1>2, <1>3 DEF TableOwn

LEMMA SettledStep ==
  TableType /\ ClientType /\ (Waiting => WaitInv) /\ Settled /\ [Next]_vars => Settled'
BY StepKeepsPending, SettledConfigure, SettledOwn
-----------------------------------------------------------------------------
LEMMA PhaseUnchanged ==
  ASSUME NEW c \in Clients, UNCHANGED <<exec, running, seen>>,
         cmds'[c] = cmds[c], status'[c] = status[c], c = "table" => exit' = exit, InPhase(c)
  PROVE  InPhase(c)'
<1>1. seen'.status[c] = seen.status[c]
  OBVIOUS
<1>2. (Taking(c)' <=> Taking(c)) /\ (ConfigPhase(c)' <=> ConfigPhase(c))
  BY <1>1 DEF Taking, ConfigPhase
<1>3. (RunPhase(c)' <=> RunPhase(c)) /\ (StopPhase(c)' <=> StopPhase(c))
  BY <1>1, <1>2 DEF RunPhase, StopPhase
<1> QED  BY <1>2, <1>3 DEF InPhase

(* A client in its phase has at most one command to handle. *)
LEMMA PhaseOfCommand ==
  ASSUME NEW c \in Clients, NEW cmd, Is(c, cmd), InPhase(c)
  PROVE  /\ Tail(cmds[c]) = <<>>
         /\ cmd = "configure" => /\ exec = "waitConfigured" /\ seen.status[c] = "Stopped"
         /\ cmd = "start" => exec = "poll" /\ running
         /\ cmd = "stop" => /\ exec # "waitConfigured" /\ ~(exec = "poll" /\ running)
                            /\ Taking(c) /\ seen.status[c] = "Started"
<1>1. cmds[c] # <<>> /\ Head(cmds[c]) = cmd
  BY DEF Is
<1>2. CASE cmds[c] = <<"configure">>
  BY <1>1, <1>2 DEF InPhase, ConfigPhase, RunPhase, StopPhase
<1>3. CASE cmds[c] = <<"start">>
  BY <1>1, <1>3 DEF InPhase, ConfigPhase, RunPhase, StopPhase
<1>4. CASE cmds[c] = <<"stop">>
  BY <1>1, <1>4 DEF InPhase, ConfigPhase, RunPhase, StopPhase
<1> QED  BY <1>1, <1>2, <1>3, <1>4 DEF InPhase, ConfigPhase, RunPhase, StopPhase

(* A command that the run control sends to clients that have nothing to do. *)
LEMMA SentAlone ==
  ASSUME NEW c \in Clients, NEW cmd, Send(cmd), cmds[c] = <<>>
  PROVE  cmds'[c] = <<cmd>>
<1>1. cmds'[c] = Append(<<>>, cmd)
  BY DEF Send
<1>2. Append(<<>>, cmd) = <<cmd>>
  OBVIOUS
<1> QED  BY <1>1, <1>2

LEMMA AgreedStep == ClientType /\ StatusTrue /\ Agreed /\ [Next]_vars => Agreed'
<1> SUFFICES ASSUME ClientType, StatusTrue, Agreed, [Next]_vars, ~hasty', NEW c \in Clients
             PROVE  InPhase(c)'
  BY DEF Agreed
<1>0. /\ cmds \in [Clients -> Seq(Commands)] /\ status \in [Clients -> Messages]
      /\ "table" \in Clients /\ "daq" \in Clients /\ c \in {"table", "daq"} /\ "daq" # "table"
  BY DEF ClientType, Clients
<1>1. CASE TableConfigure
  <2>1. InPhase(c) /\ UNCHANGED <<exec, running, seen>> /\ Is("table", "configure")
    BY <1>1 DEF TableConfigure, Handled, rcVars, Agreed
  <2>2. CASE c = "table"
    <3>1. cmds'[c] = Tail(cmds[c]) /\ status'[c] \in {"Configured", "not finished"}
      BY <1>0, <1>1, <2>2 DEF TableConfigure, Handled
    <3>2. Tail(cmds[c]) = <<>> /\ exec = "waitConfigured" /\ seen.status[c] = "Stopped"
      BY <2>1, <2>2, PhaseOfCommand
    <3> QED  BY <2>1, <3>1, <3>2 DEF InPhase, ConfigPhase
  <2>3. CASE c = "daq"
    <3>1. cmds'[c] = cmds[c] /\ status'[c] = status[c]
      BY <1>0, <1>1, <2>3 DEF TableConfigure, Handled
    <3> QED  BY <1>0, <2>1, <2>3, <3>1, PhaseUnchanged
  <2> QED  BY <1>0, <2>2, <2>3
<1>2. CASE TableStart
  <2>1. InPhase(c) /\ UNCHANGED <<exec, running, seen>> /\ Is("table", "start")
    BY <1>2 DEF TableStart, Handled, rcVars, Agreed
  <2>2. CASE c = "table"
    <3>1. cmds'[c] = Tail(cmds[c]) /\ status'[c] = "Started" /\ ~exit'
      BY <1>0, <1>2, <2>2 DEF TableStart, Handled, DoStartRun
    <3>2. Tail(cmds[c]) = <<>> /\ exec = "poll" /\ running
      BY <2>1, <2>2, PhaseOfCommand
    <3> QED  BY <2>1, <3>1, <3>2 DEF InPhase, RunPhase, Taking
  <2>3. CASE c = "daq"
    <3>1. cmds'[c] = cmds[c] /\ status'[c] = status[c]
      BY <1>0, <1>2, <2>3 DEF TableStart, Handled
    <3> QED  BY <1>0, <2>1, <2>3, <3>1, PhaseUnchanged
  <2> QED  BY <1>0, <2>2, <2>3
<1>3. CASE TableStop
  <2>1. InPhase(c) /\ UNCHANGED <<exec, running, seen>> /\ Is("table", "stop")
    BY <1>3 DEF TableStop, Handled, rcVars, Agreed
  <2>2. CASE c = "table"
    <3>1. cmds'[c] = Tail(cmds[c]) /\ status'[c] = status[c]
      BY <1>0, <1>3, <2>2 DEF TableStop, Handled
    <3>2. /\ Tail(cmds[c]) = <<>> /\ exec # "waitConfigured" /\ ~(exec = "poll" /\ running)
          /\ status[c] = "Started" /\ seen.status[c] = "Started"
      BY <2>1, <2>2, PhaseOfCommand DEF Taking
    <3> QED  BY <2>1, <3>1, <3>2 DEF InPhase, StopPhase
  <2>3. CASE c = "daq"
    <3>1. cmds'[c] = cmds[c] /\ status'[c] = status[c]
      BY <1>0, <1>3, <2>3 DEF TableStop, Handled
    <3> QED  BY <1>0, <2>1, <2>3, <3>1, PhaseUnchanged
  <2> QED  BY <1>0, <2>2, <2>3
<1>4. CASE TableWorks
  <2>1. InPhase(c) /\ UNCHANGED <<exec, running, seen, cmds>>
    BY <1>4 DEF TableWorks, rcVars, Agreed
  <2>2. pc # "idle" /\ exit' = exit /\ (pc' = "idle" /\ goal = "run" => exit)
    BY <1>4 DEF TableWorks, Producing, Trash, Ask, Receive, ReceiveTimeout, Got, Judge, RunCycle,
                RunLoopEnds
  <2>3. CASE c = "daq" \/ pc' # "idle"
    <3>1. status'[c] = status[c]
      BY <1>0, <1>4, <2>3 DEF TableWorks
    <3> QED  BY <2>1, <2>2, <3>1, PhaseUnchanged
  <2>4. CASE c = "table" /\ pc' = "idle" /\ goal = "run"
    <3>1. status[c] = "Started" /\ exit /\ status'[c] = "Stopped"
      BY <1>0, <1>4, <2>2, <2>4 DEF TableWorks, StatusTrue
    <3>2. /\ exec # "waitConfigured" /\ ~(exec = "poll" /\ running)
          /\ cmds[c] = <<>> /\ seen.status[c] = "Started"
      BY <2>1, <2>4, <3>1 DEF InPhase, ConfigPhase, RunPhase, StopPhase, Taking
    <3> QED  BY <2>1, <3>1, <3>2 DEF InPhase, StopPhase
  <2>5. CASE c = "table" /\ pc' = "idle" /\ goal # "run"
    <3>1. status[c] = "not finished" /\ status'[c] = "Configured"
      BY <1>0, <1>4, <2>2, <2>5 DEF TableWorks, StatusTrue, Positioning
    <3>2. exec = "waitConfigured" /\ cmds[c] = <<>>
      BY <2>1, <3>1 DEF InPhase, ConfigPhase, RunPhase, StopPhase, Taking
    <3> QED  BY <2>1, <3>1, <3>2 DEF InPhase, ConfigPhase
  <2> QED  BY <1>0, <2>3, <2>4, <2>5
<1>5. CASE StageWorks \/ TakeData \/ UNCHANGED vars
  <2>1. UNCHANGED <<exec, running, seen, cmds, status, exit, hasty>>
    BY <1>5 DEF StageWorks, Move, Deliver, TakeData, vars, clientVars, rcVars, tableVars
  <2> QED  BY <2>1, PhaseUnchanged DEF Agreed
<1>6. CASE DaqHandles
  <2>1. InPhase(c) /\ UNCHANGED <<exec, running, seen, exit>>
    BY <1>6 DEF DaqHandles, Handled, rcVars, Agreed, tableVars
  <2>2. CASE c = "table"
    <3>1. cmds'[c] = cmds[c] /\ status'[c] = status[c]
      BY <1>0, <1>6, <2>2 DEF DaqHandles, Handled
    <3> QED  BY <2>1, <3>1, PhaseUnchanged
  <2>3. CASE c = "daq" /\ Is("daq", "configure") /\ Handled("daq", "Configured")
    <3>1. cmds'[c] = Tail(cmds[c]) /\ status'[c] = "Configured"
      BY <1>0, <2>3 DEF Handled
    <3>2. Tail(cmds[c]) = <<>> /\ exec = "waitConfigured"
      BY <2>1, <2>3, PhaseOfCommand
    <3> QED  BY <2>1, <3>1, <3>2 DEF InPhase, ConfigPhase
  <2>4. CASE c = "daq" /\ Is("daq", "start") /\ Handled("daq", "Started")
    <3>1. cmds'[c] = Tail(cmds[c]) /\ status'[c] = "Started"
      BY <1>0, <2>4 DEF Handled
    <3>2. Tail(cmds[c]) = <<>> /\ exec = "poll" /\ running
      BY <2>1, <2>4, PhaseOfCommand
    <3> QED  BY <1>0, <2>1, <2>4, <3>1, <3>2 DEF InPhase, RunPhase, Taking
  <2>5. CASE c = "daq" /\ Is("daq", "stop") /\ Handled("daq", "Stopped")
    <3>1. cmds'[c] = Tail(cmds[c]) /\ status'[c] = "Stopped"
      BY <1>0, <2>5 DEF Handled
    <3>2. /\ Tail(cmds[c]) = <<>> /\ exec # "waitConfigured" /\ ~(exec = "poll" /\ running)
          /\ seen.status[c] = "Started"
      BY <2>1, <2>5, PhaseOfCommand
    <3> QED  BY <2>1, <3>1, <3>2 DEF InPhase, StopPhase
  <2> QED  BY <1>0, <1>6, <2>2, <2>3, <2>4, <2>5 DEF DaqHandles
<1>7. CASE Report
  <2>1. /\ InPhase(c) /\ UNCHANGED <<exec, running, cmds, status, exit>>
        /\ seen'.status = status
    BY <1>7 DEF Report, rcVars, clientVars, tableVars, Agreed
  <2> QED  BY <2>1 DEF InPhase, ConfigPhase, RunPhase, StopPhase, Taking
<1>8. CASE Poll
  <2>1. exec = "poll" /\ running /\ UNCHANGED <<status, seen, exit>>
    BY <1>8 DEF Poll, tableVars
  <2>2. CASE UNCHANGED <<cmds, running, exec, hasty>>
    BY <2>1, <2>2, PhaseUnchanged DEF Agreed
  <2>3. CASE /\ StopRun /\ exec' = "waitStopped"
             /\ hasty' = (hasty \/ \E d \in Clients : seen.status[d] # "Started")
    <3>1. ~hasty /\ seen.status[c] = "Started"
      BY <2>3, Zenon
    <3>2. RunPhase(c) /\ cmds[c] = <<>> /\ Taking(c)
      BY <2>1, <3>1 DEF Agreed, InPhase, RunPhase
    <3>3. cmds'[c] = <<"stop">> /\ ~running'
      BY <2>3, <3>2, SentAlone DEF StopRun
    <3> QED  BY <2>1, <2>3, <3>1, <3>2, <3>3 DEF InPhase, StopPhase, Taking
  <2> QED  BY <1>8, <2>2, <2>3 DEF Poll
<1>9. CASE Stopped
  <2>1. /\ exec = "waitStopped" /\ seen.status[c] = "Stopped" /\ UNCHANGED <<status, seen>>
        /\ hasty' = (hasty /\ \E d \in Clients : cmds[d] # <<>> \/ status[d] # "Stopped")
    BY <1>9 DEF Stopped, AllStopped
  <2>2. cmds[c] = <<>> /\ status[c] = "Stopped"
    <3>1. CASE hasty
      BY <2>1, <3>1, Zenon
    <3>2. CASE ~hasty
      BY <2>1, <3>2 DEF Agreed, InPhase, StopPhase
    <3> QED  BY <3>1, <3>2
  <2>3. CASE StartRun
    <3>1. cmds'[c] = <<"start">> /\ exec' = "poll" /\ running'
      BY <2>2, <2>3, SentAlone DEF StartRun
    <3> QED  BY <2>1, <2>2, <3>1 DEF InPhase, RunPhase
  <2>4. CASE Send("configure") /\ exec' = "waitConfigured"
    <3>1. cmds'[c] = <<"configure">>
      BY <2>2, <2>4, SentAlone
    <3> QED  BY <2>1, <2>2, <2>4, <3>1 DEF InPhase, ConfigPhase
  <2> QED  BY <1>9, <2>3, <2>4 DEF Stopped, Configure
<1>10. CASE Configured
  <2>1. /\ exec = "waitConfigured" /\ seen.status[c] = "Configured" /\ StartRun
        /\ UNCHANGED <<status, seen>> /\ InPhase(c)
    BY <1>10 DEF Configured, AllConfigured, Agreed
  <2>2. cmds[c] = <<>> /\ status[c] = "Configured"
    BY <2>1 DEF InPhase, ConfigPhase
  <2>3. cmds'[c] = <<"start">> /\ exec' = "poll" /\ running'
    BY <2>1, <2>2, SentAlone DEF StartRun
  <2> QED  BY <2>1, <2>2, <2>3 DEF InPhase, RunPhase
<1>11. CASE OperatorStarts
  <2>1. /\ exec = "poll" /\ ~running /\ seen.status[c] \in {"Configured", "Stopped"}
        /\ cmds[c] = <<>> /\ StartRun /\ UNCHANGED <<status, seen>> /\ InPhase(c)
    BY <1>11 DEF OperatorStarts, Agreed
  <2>2. status[c] \in {"Configured", "Stopped"}
    BY <2>1 DEF InPhase, StopPhase
  <2>3. cmds'[c] = <<"start">> /\ exec' = "poll" /\ running'
    BY <2>1, SentAlone DEF StartRun
  <2> QED  BY <2>1, <2>2, <2>3 DEF InPhase, RunPhase
<1>12. CASE OperatorStops
  <2>1. /\ exec = "poll" /\ running /\ seen.status[c] = "Started"
        /\ StopRun /\ UNCHANGED <<status, seen, exec, exit>> /\ InPhase(c)
    BY <1>12 DEF OperatorStops, Agreed, tableVars
  <2>2. cmds[c] = <<>> /\ Taking(c)
    BY <2>1 DEF InPhase, RunPhase
  <2>3. cmds'[c] = <<"stop">> /\ ~running'
    BY <2>1, <2>2, SentAlone DEF StopRun
  <2> QED  BY <2>1, <2>2, <2>3 DEF InPhase, StopPhase, Taking
<1> QED
  BY <1>1, <1>2, <1>3, <1>4, <1>5, <1>6, <1>7, <1>8, <1>9, <1>10, <1>11, <1>12
  DEF Next, ClientSteps, ExecSteps

(* Whoever takes data, the stage has no other command to handle. *)
LEMMA NobodyTooEarly ==
  ASSUME ClientType, StatusTrue, Agreed, ~hasty, NEW c \in Clients, status[c] = "Started"
  PROVE  ~Pending /\ ~Positioning
<1>1. InPhase(c) /\ InPhase("table")
  BY DEF Agreed, Clients
<1>2. exec # "waitConfigured"
  BY <1>1 DEF InPhase, ConfigPhase
<1>3. /\ status["table"] # "not finished"
      /\ cmds["table"] \in {<<>>, <<"start">>, <<"stop">>}
  BY <1>1, <1>2 DEF InPhase, RunPhase, StopPhase, Taking
<1>4. ~Positioning
  BY <1>3 DEF StatusTrue
<1>5. ~Pending
  <2>1. CASE cmds["table"] = <<>>
    BY <2>1 DEF Pending
  <2>2. CASE cmds["table"] = <<"start">>
    BY <2>2 DEF Pending
  <2>3. CASE cmds["table"] = <<"stop">>
    BY <2>3 DEF Pending
  <2> QED  BY <1>3, <2>1, <2>2, <2>3
<1> QED  BY <1>4, <1>5

LEMMA StandsInit ==
  Init => ClientType /\ StatusTrue /\ Agreed /\ Settled /\ (Waiting => WaitInv)
<1> SUFFICES ASSUME Init
             PROVE  ClientType /\ StatusTrue /\ Agreed /\ Settled /\ (Waiting => WaitInv)
  OBVIOUS
<1>1. /\ at = [a \in Axes |-> Rounded(file.pos[a])] /\ preset = at /\ pc = "idle" /\ goal = "final"
      /\ cmds = [c \in Clients |-> <<>>] /\ status = [c \in Clients |-> "Configured"]
      /\ seen.status = status /\ hasty = FALSE /\ exec = "poll" /\ running = FALSE
  BY DEF Init, TableInit
<1>2. hasty \in BOOLEAN
  BY <1>1, Zenon
<1>3. ClientType
  <2>1. cmds \in [Clients -> Seq(Commands)]
    BY <1>1
  <2>2. status \in [Clients -> Messages]
    BY <1>1 DEF Messages
  <2> QED  BY <1>2, <2>1, <2>2 DEF ClientType
<1>4. status["table"] = "Configured" /\ \A c \in Clients : /\ cmds[c] = <<>> /\ status[c] = "Configured"
                                                           /\ seen.status[c] = "Configured"
  BY <1>1 DEF Clients
<1>5. StatusTrue
  BY <1>1, <1>4 DEF StatusTrue, Positioning
<1>6. Agreed
  BY <1>1, <1>4 DEF Agreed, InPhase, StopPhase
<1>7. InPlace
  BY <1>1 DEF InPlace, Arrived
<1> QED  BY <1>1, <1>3, <1>5, <1>6, <1>7 DEF Settled, Positioning, Waiting

(* Spec implies that StageStands always holds: for every set of configurations,
   every distance and every delay of commands, answers and reports, the stage
   stands at the position of the configuration while a client takes data, unless
   DoConfigure took something else for a position or Exec ended a run that not
   all clients had started. *)
THEOREM StandsDuringRun == Spec => []StageStands
<1> DEFINE IInv == /\ ClientType /\ StatusTrue /\ Agreed /\ Settled
                   /\ Waiting => WaitInv
<1>1. Init => IInv
  BY StandsInit
<1>2. TableType /\ IInv /\ [Next]_vars => IInv'
  BY StepOfTable, ClientTypeStep, StatusStep, AgreedStep, SettledStep, WaitStep
<1>3. IInv => StageStands
  <2> SUFFICES ASSUME IInv, NEW c \in Clients, status[c] = "Started", ~misread, ~hasty,
                      \E a \in Axes : file.pos[a] # Invalid
               PROVE  InPlace
    BY DEF StageStands, InPlace
  <2>1. ~Pending /\ ~Positioning
    BY NobodyTooEarly
  <2> QED  BY <2>1 DEF Settled
<1> HIDE DEF IInv
<1> QED  BY <1>1, <1>2, <1>3, TypeAlways, PTL DEF Spec
=============================================================================
