--------------------------- MODULE AhcalRunControl ---------------------------
(***************************************************************************)
(* AhcalRunControl together with the moving stage (DesyTable) and a client *)
(* that takes data, which stands for the other producers and the data      *)
(* collectors.  Exec polls the status of the clients every second, ends a  *)
(* run by its limits, and starts the next one with the next configuration. *)
(*                                                                         *)
(* The EUDAQ library is external: commands reach a client in order; what   *)
(* the run control sees of a client is its last report.  The operator      *)
(* starts the first run and may stop any; he acts between two polls.       *)
(***************************************************************************)
EXTENDS DesyTable

CONSTANTS
  Configs,          \* configuration files
  Reprocessing,     \* REPROCESSING_INACTIVITY_TIMEOUT, in polls
  MaxEventN, MaxTime, MaxCmds, MaxStarts
                    \* bounds: events, seconds, pending commands, runs that are
                    \* started before the last one is left to go on for ever

Clients == {"table", "daq"}

ASSUME ConfigAssumption ==
  \A c \in Configs :
    /\ c.seconds \in Nat /\ c.events \in Nat /\ c.inactivity \in Nat
    /\ \A a \in Axes : c.pos[a] \in Int /\ c.approachMm[a] \in Int

VARIABLES
  cmds,             \* commands on the way to each client
  status,           \* the message of each client, which tells its state, too
  eventN, finished, \* tags EventN and ReprocessingFinished of "daq"
  seen,             \* what the run control saw last: status and tags
  exec,             \* Exec: "poll", "waitStopped" or "waitConfigured"
  running,          \* m_flag_running
  file,             \* the configuration
  monitored, inactivity, idle, elapsed,
                    \* m_monitored_event, m_inactivity_timeout, seconds since
                    \* m_last_change_time and m_tp_start_run
  starts,           \* runs started, counted for the bound
  hasty             \* history: Exec ended a run before all had started it,
                    \* and some have not caught up

clientVars == <<cmds, status, eventN, finished>>
rcVars == <<exec, running, file, monitored, inactivity, idle, elapsed, starts, hasty>>
vars == <<tableVars, clientVars, seen, rcVars>>
-----------------------------------------------------------------------------
(* The clients (external but for the table). *)
Is(c, cmd) == cmds[c] # <<>> /\ Head(cmds[c]) = cmd

Handled(c, st) ==
  /\ cmds' = [cmds EXCEPT ![c] = Tail(@)]
  /\ status' = [status EXCEPT ![c] = st]
  /\ UNCHANGED <<seen, rcVars>>

TableConfigure ==
  /\ Is("table", "configure")
  /\ DoConfigure(file)
  /\ Handled("table", IF pc' = "idle" THEN "Configured" ELSE "not finished")
  /\ UNCHANGED <<eventN, finished>>

TableStart ==
  /\ Is("table", "start") /\ DoStartRun /\ Handled("table", "Started")
  /\ UNCHANGED <<eventN, finished>>

TableStop ==
  /\ Is("table", "stop") /\ DoStopRun /\ Handled("table", status["table"])
  /\ UNCHANGED <<eventN, finished>>

(* The producer works by itself; DoConfigure and RunLoop return.  (Bound: no
   reading is given up while the clients catch up with a run ended hastily.) *)
TableWorks ==
  /\ Producing
  /\ hasty => UNCHANGED timeouts
  /\ status' = IF pc' # "idle" THEN status
               ELSE [status EXCEPT !["table"] = IF goal = "run" THEN "Stopped" ELSE "Configured"]
  /\ UNCHANGED <<cmds, eventN, finished, seen, rcVars>>

StageWorks == (Move \/ Deliver) /\ UNCHANGED <<clientVars, seen, rcVars>>

DaqHandles ==
  /\ \/ Is("daq", "configure") /\ Handled("daq", "Configured") /\ UNCHANGED <<eventN, finished>>
     \/ Is("daq", "start") /\ Handled("daq", "Started") /\ eventN' = 0 /\ finished' = FALSE
     \/ Is("daq", "stop") /\ Handled("daq", "Stopped") /\ finished' = FALSE /\ UNCHANGED eventN
  /\ UNCHANGED tableVars

(* Bound: an event comes, or the input file ends, no faster than the reports. *)
TakeData ==
  /\ status["daq"] = "Started" /\ starts < MaxStarts
  /\ ~finished /\ eventN = seen.eventN
  /\ \/ eventN < MaxEventN /\ eventN' = eventN + 1 /\ UNCHANGED finished
     \/ finished' = TRUE /\ UNCHANGED eventN
  /\ UNCHANGED <<tableVars, cmds, status, seen, rcVars>>

Report ==
  /\ seen' = [status |-> status, eventN |-> eventN, finished |-> finished]
  /\ seen' # seen
  /\ UNCHANGED <<tableVars, clientVars, rcVars>>
-----------------------------------------------------------------------------
Send(cmd) == cmds' = [c \in Clients |-> Append(cmds[c], cmd)]

(* m_tp_start_run, the command, m_monitored_event, m_last_change_time,
   m_flag_running and m_inactivity_timeout, in this order. *)
StartRun ==
  /\ Send("start")
  /\ elapsed' = 0 /\ monitored' = 0 /\ idle' = 0
  /\ running' = TRUE /\ inactivity' = file'.inactivity
  /\ exec' = "poll" /\ starts' = starts + 1

(* The counters are not looked at before StartRun sets them again: they are
   forgotten here, which keeps the state space small. *)
StopRun ==
  /\ Send("stop") /\ running' = FALSE
  /\ monitored' = 0 /\ inactivity' = 0 /\ idle' = 0 /\ elapsed' = 0
  /\ UNCHANGED starts

(* Configure sets the limits (they are read from file here); its value of the
   inactivity timeout has a misspelt key and is replaced in StartRun. *)
Configure(f) ==
  /\ file' = f
  /\ Send("configure")
  /\ UNCHANGED <<running, monitored, inactivity, idle, elapsed, starts>>

OperatorStarts ==
  /\ exec = "poll" /\ ~running /\ starts < MaxStarts
  /\ \A c \in Clients : seen.status[c] \in {"Configured", "Stopped"}
  /\ \A c \in Clients : cmds[c] = <<>>
  /\ UNCHANGED file
  /\ StartRun
  /\ UNCHANGED <<hasty, tableVars, status, eventN, finished, seen>>

OperatorStops ==
  /\ exec = "poll" /\ running
  /\ \A c \in Clients : seen.status[c] = "Started"
  /\ StopRun
  /\ UNCHANGED <<tableVars, status, eventN, finished, seen, exec, file, hasty>>
-----------------------------------------------------------------------------
Later(t) == IF t < MaxTime THEN t + 1 ELSE t

(* The reasons to end the run, for the timeout that is in force when the status
   of the collector is looked at. *)
Inactive(timeout) == seen.eventN = monitored /\ timeout # 0 /\ timeout <= Later(idle)

TimeIsUp == file.seconds # 0 /\ Later(elapsed) > file.seconds

EnoughEvents == file.events # 0 /\ seen.eventN > file.events

(* One second of Exec.  The order of the clients in the status map decides
   whether the timeout of a finished reprocessing counts in this poll. *)
Poll ==
  /\ exec = "poll" /\ running /\ starts < MaxStarts
  /\ \A c \in Clients : Len(cmds[c]) < MaxCmds
  /\ LET reprocessed == IF seen.finished THEN Reprocessing ELSE inactivity
     IN  \E timeout \in {inactivity, reprocessed} :
           IF Inactive(timeout) \/ TimeIsUp \/ EnoughEvents
           THEN /\ StopRun /\ exec' = "waitStopped"
                /\ hasty' = (hasty \/ \E c \in Clients : seen.status[c] # "Started")
           ELSE /\ monitored' = seen.eventN
                /\ idle' = IF seen.eventN # monitored THEN 0 ELSE Later(idle)
                /\ elapsed' = IF file.seconds = 0 THEN 0 ELSE Later(elapsed)
                /\ inactivity' = reprocessed
                /\ UNCHANGED <<cmds, running, exec, starts, hasty>>
  /\ UNCHANGED <<tableVars, status, eventN, finished, seen, file>>

AllStopped == \A c \in Clients : seen.status[c] = "Stopped"

(* WaitForStates, then either the next configuration or the next run. *)
Stopped ==
  /\ exec = "waitStopped" /\ AllStopped
  /\ \/ UNCHANGED file /\ StartRun
     \/ \E f \in Configs : Configure(f) /\ exec' = "waitConfigured"
  /\ hasty' = (hasty /\ \E c \in Clients : cmds[c] # <<>> \/ status[c] # "Stopped")
  /\ UNCHANGED <<tableVars, status, eventN, finished, seen>>

AllConfigured == \A c \in Clients : seen.status[c] = "Configured"

(* WaitForMessage. *)
Configured ==
  /\ exec = "waitConfigured" /\ AllConfigured
  /\ UNCHANGED file
  /\ StartRun
  /\ UNCHANGED <<hasty, tableVars, status, eventN, finished, seen>>
-----------------------------------------------------------------------------
Init ==
  /\ file \in {f \in Configs : \A a \in Axes : f.pos[a] # Invalid}
  /\ TableInit(file)
  /\ cmds = [c \in Clients |-> <<>>]
  /\ status = [c \in Clients |-> "Configured"]
  /\ eventN = 0 /\ finished = FALSE
  /\ seen = [status |-> status, eventN |-> 0, finished |-> FALSE]
  /\ exec = "poll" /\ running = FALSE
  /\ monitored = 0 /\ inactivity = 0 /\ idle = 0 /\ elapsed = 0
  /\ starts = 0 /\ hasty = FALSE

ClientSteps ==
  \/ TableConfigure
  \/ TableStart
  \/ TableStop
  \/ TableWorks
  \/ StageWorks
  \/ DaqHandles
  \/ Report

ExecSteps ==
  \/ Poll
  \/ Stopped
  \/ Configured

Next ==
  \/ ClientSteps
  \/ ExecSteps
  \/ TakeData
  \/ OperatorStarts
  \/ OperatorStops

(* Each client and each thread goes on with what it can do; nobody is obliged
   to take data, to start or to stop. *)
Fairness ==
  /\ WF_vars(TableConfigure \/ TableStart \/ TableStop) /\ WF_vars(TableWorks)
  /\ WF_vars(StageWorks) /\ WF_vars(DaqHandles) /\ WF_vars(Report) /\ WF_vars(ExecSteps)

Spec == Init /\ [][Next]_vars /\ Fairness
-----------------------------------------------------------------------------
(* While a client takes data the stage stands at the position of the
   configuration, if that has one: neither the end of the old run nor the
   positioning for the new one is skipped over, however late a client handles
   its commands and however late its status is seen.  (Not if a position could
   not be read, which is taken for a stable one, or old answers were taken for
   positions, nor once Exec has ended a run that not all clients had started:
   WaitForStates takes such a client for stopped.) *)
StageStands ==
  (\E c \in Clients : status[c] = "Started") /\ ~misread /\ ~hasty
  /\ (\E a \in Axes : file.pos[a] # Invalid) =>
    /\ Arrived
    /\ \A a \in Axes : file.pos[a] # Invalid => at[a] = Rounded(file.pos[a])

(* A run that Exec ends is followed by the next one: all clients are seen to
   stop, the stage arrives, and all are sent the next start. *)
RestartCompletes ==
  exec = "waitStopped" ~> exec = "poll" /\ running
=============================================================================
