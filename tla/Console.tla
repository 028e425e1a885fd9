------------------------------- MODULE Console -------------------------------
(***************************************************************************)
(* The parts an operator of the system sits in front of: the commands that *)
(* start and stop the daemon (DaemonControl), the model settings it reads  *)
(* and saves (ModelSettings), the answer to a chat turn (AgentTurn), the   *)
(* page that follows the messages (ChatStream) and the regression harness  *)
(* (HarnessBaseline).  They share no state: a daemon that starts is a start*)
(* of the settings, a turn writes the texts the page shows, but what one   *)
(* part leaves to another is open in the other's model.  A behaviour       *)
(* therefore follows one of them, chosen at the start.                     *)
(***************************************************************************)
EXTENDS DaemonControl, ModelSettings, AgentTurn, ChatStream, HarnessBaseline

VARIABLE part   \* the part that is followed

consoleVars == <<part, daemonVars, settingsVars, turnVars, streamVars, harnessVars>>

Init ==
  /\ part \in {"daemon", "settings", "turn", "stream", "harness"}
  /\ DaemonInit /\ SettingsInit /\ TurnInit /\ StreamInit /\ HarnessInit
  /\ part # "settings" => ~secrets /\ env = CHOOSE e \in Envs : TRUE
  /\ part # "harness" => absolute

DaemonStep ==
  /\ part = "daemon" /\ DaemonNext
  /\ UNCHANGED <<part, settingsVars, turnVars, streamVars, harnessVars>>
SettingsStep ==
  /\ part = "settings" /\ SettingsNext
  /\ UNCHANGED <<part, daemonVars, turnVars, streamVars, harnessVars>>
TurnStep ==
  /\ part = "turn" /\ TurnNext
  /\ UNCHANGED <<part, daemonVars, settingsVars, streamVars, harnessVars>>
StreamStep ==
  /\ part = "stream" /\ StreamNext
  /\ UNCHANGED <<part, daemonVars, settingsVars, turnVars, harnessVars>>
HarnessStep ==
  /\ part = "harness" /\ HarnessNext
  /\ UNCHANGED <<part, daemonVars, settingsVars, turnVars, streamVars>>

Next == DaemonStep \/ SettingsStep \/ TurnStep \/ StreamStep \/ HarnessStep

Spec == Init /\ [][Next]_consoleVars
=============================================================================
