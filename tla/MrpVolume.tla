----------------------------- MODULE MrpVolume -----------------------------
(* Volume and speaker group over MRP (pyatv-proto-mrp: facade/audio.rs,     *)
(* state/volume.rs). A caller decides from the cached level whether to wait *)
(* for a report of the device, sends its command, and is released by the    *)
(* next report of any caller's change. The actor applies the reports.      *)
EXTENDS Integers, Sequences

CONSTANTS
    Callers,      \* each makes one call
    MaxLevel,     \* levels are 0..MaxLevel, MaxLevel for 100.0
    VolumeStep,   \* ABSOLUTE_STEP
    MaxCommands,  \* bound: commands on their way
    MaxReports    \* bound: reports on their way

ASSUME VolumeAssumption == {MaxLevel, VolumeStep, MaxCommands, MaxReports} \subseteq Nat

VARIABLES
    volume,      \* VolumeState: absolute, relative, level; known once a report set the level
    deviceLevel, \* of the device, which reports every change of it, and every regrouping
    commands,    \* commands on their way to it
    pushes,      \* its reports on their way to the actor
    callers      \* what each caller does

volumeVars == <<volume, deviceLevel, commands, pushes, callers>>

Levels == 0..MaxLevel
Operations == {"set", "up", "down", "group"}

Called == [at |-> "read", op |-> "none", want |-> 0, waits |-> FALSE, knew |-> FALSE,
            executed |-> FALSE, told |-> FALSE]

VolumeInit ==
    /\ volume = [absolute |-> FALSE, relative |-> FALSE, level |-> 0, known |-> FALSE]
    /\ deviceLevel \in Levels
    /\ commands = <<>> /\ pushes = <<>>
    /\ callers = [c \in Callers |-> [Called EXCEPT !.at = "idle"]]
-----------------------------------------------------------------------------
CallsAudio(c) ==
    /\ callers[c].at = "idle"
    /\ \E op \in Operations, level \in Levels :
          /\ op # "set" => level = 0
          /\ callers' = [callers EXCEPT ![c] = [Called EXCEPT !.op = op, !.want = level]]
    /\ UNCHANGED <<volume, deviceLevel, commands, pushes>>

Sending(c, waits) ==
    [callers[c] EXCEPT !.at = "send", !.waits = waits, !.knew = volume.known]

Returned(c) == [callers[c] EXCEPT !.at = "done"]

(* set_level up to its send: the waiter exists before the request.          *)
SetLevel(c) ==
    /\ callers[c].at = "read" /\ callers[c].op = "set"
    /\ callers' = [callers EXCEPT ![c] =
          Sending(c, volume.absolute /\ volume.level # callers[c].want)]
    /\ UNCHANGED <<volume, deviceLevel, commands, pushes>>

(* modify_group up to its send.                                             *)
ModifyGroup(c) ==
    /\ callers[c].at = "read" /\ callers[c].op = "group"
    /\ callers' = [callers EXCEPT ![c] = Sending(c, TRUE)]
    /\ UNCHANGED <<volume, deviceLevel, commands, pushes>>

Target(up) ==
    IF up THEN IF volume.level + VolumeStep > MaxLevel THEN MaxLevel ELSE volume.level + VolumeStep
    ELSE IF volume.level < VolumeStep THEN 0 ELSE volume.level - VolumeStep

(* step up to its send, or to set_level, which reads the volume again.      *)
TakesStep(c, up) ==
    LET boundary == IF up THEN MaxLevel ELSE 0
        done == (volume.absolute /\ volume.level = boundary) \/ ~(volume.absolute \/ volume.relative)
    IN  /\ callers[c].at = "read" /\ callers[c].op = (IF up THEN "up" ELSE "down")
        /\ callers' = [callers EXCEPT ![c] =
              IF done THEN Returned(c)
              ELSE IF volume.relative THEN Sending(c, volume.absolute)
              ELSE [@ EXCEPT !.op = "set", !.want = Target(up)]]
        /\ UNCHANGED <<volume, deviceLevel, commands, pushes>>

(* The message goes out, or the first of a key press; the actor may apply   *)
(* the report before the send returns.                                      *)
Sends(c) ==
    /\ callers[c].at = "send" /\ Len(commands) < MaxCommands
    /\ commands' = Append(commands, [by |-> c, op |-> callers[c].op, want |-> callers[c].want])
    /\ callers' = [callers EXCEPT ![c].at = "sent"]
    /\ UNCHANGED <<volume, deviceLevel, pushes>>

SendFails(c) ==
    /\ callers[c].at \in {"send", "sent"}
    /\ callers' = [callers EXCEPT ![c] = Returned(c)]
    /\ UNCHANGED <<volume, deviceLevel, commands, pushes>>

SendReturns(c) ==
    /\ callers[c].at = "sent"
    /\ callers' = [callers EXCEPT ![c] = IF @.waits THEN [@ EXCEPT !.at = "wait"] ELSE Returned(c)]
    /\ UNCHANGED <<volume, deviceLevel, commands, pushes>>

(* Mutant: the waiter is created when the wait begins.                      *)
HearsLate(c) == callers[c].at = "wait"

(* The Notified of a caller hears every report from its creation on.        *)
Hears(c) == callers[c].at \in {"send", "sent", "wait"}

(* The wait ends with a report, or with CONFIRM_TIMEOUT, an error for a     *)
(* level and none for a group.                                              *)
Confirmed(c) ==
    /\ callers[c].at = "wait" /\ callers[c].told
    /\ callers' = [callers EXCEPT ![c] = Returned(c)]
    /\ UNCHANGED <<volume, deviceLevel, commands, pushes>>

TimesOut(c) ==
    /\ callers[c].at = "wait" /\ ~callers[c].told
    /\ callers' = [callers EXCEPT ![c] = Returned(c)]
    /\ UNCHANGED <<volume, deviceLevel, commands, pushes>>
-----------------------------------------------------------------------------
SendsReport(report) ==
    /\ Len(pushes) < MaxReports
    /\ pushes' = Append(pushes, report)

(* The device carries out a command, and reports a level that it changed   *)
(* and a group in any case.                                                 *)
Executes ==
    LET command == Head(commands)
        Near(level) == IF level < 0 THEN 0 ELSE IF level > MaxLevel THEN MaxLevel ELSE level
        level == CASE command.op = "set" -> command.want
                   [] command.op = "up" -> Near(deviceLevel + 1)
                   [] command.op = "down" -> Near(deviceLevel - 1)
                   [] OTHER -> deviceLevel
    IN  /\ commands # <<>>
        /\ commands' = Tail(commands)
        /\ callers' = [callers EXCEPT ![command.by].executed = TRUE]
        /\ deviceLevel' = level
        /\ IF command.op = "group"
           THEN SendsReport([on |-> "group", own |-> TRUE, level |-> 0])
           ELSE IF level = deviceLevel THEN UNCHANGED pushes
           ELSE SendsReport([on |-> "volume", own |-> TRUE, level |-> level])
        /\ UNCHANGED volume

(* Its remote changes the level, or another speaker's level changes.        *)
DeviceMoves ==
    /\ \/ \E level \in Levels \ {deviceLevel} :
             deviceLevel' = level /\ SendsReport([on |-> "volume", own |-> TRUE, level |-> level])
       \/ SendsReport([on |-> "volume", own |-> FALSE, level |-> 0]) /\ UNCHANGED deviceLevel
    /\ UNCHANGED <<volume, commands, callers>>

(* apply_volume_capabilities                                                *)
CapabilitiesChange ==
    /\ \E absolute, relative \in BOOLEAN :
          volume' = [volume EXCEPT !.absolute = absolute, !.relative = relative]
    /\ UNCHANGED <<deviceLevel, commands, pushes, callers>>

(* handle_volume_changed: the level of this device is kept; a report of any *)
(* speaker releases the waiters. handle_device_info does so for groups.     *)
HandleReport ==
    LET report == Head(pushes)
    IN  /\ pushes # <<>>
        /\ pushes' = Tail(pushes)
        /\ volume' = IF report.on = "volume" /\ report.own
                     THEN [volume EXCEPT !.level = report.level, !.known = TRUE] ELSE volume
        /\ callers' = [c \in Callers |->
              IF Hears(c) /\ (report.on = "group" <=> callers[c].op = "group")
              THEN [callers[c] EXCEPT !.told = TRUE] ELSE callers[c]]
        /\ UNCHANGED <<deviceLevel, commands>>

VolumeNext ==
    \/ Executes \/ DeviceMoves \/ CapabilitiesChange \/ HandleReport
    \/ \E c \in Callers :
          \/ CallsAudio(c) \/ SetLevel(c) \/ ModifyGroup(c) \/ TakesStep(c, TRUE) \/ TakesStep(c, FALSE)
          \/ Sends(c) \/ SendFails(c) \/ SendReturns(c) \/ Confirmed(c) \/ TimesOut(c)

VolumeSpec == VolumeInit /\ [][VolumeNext]_volumeVars
-----------------------------------------------------------------------------
(* The values the variables take.                                           *)
VolumeTypeOK ==
    /\ volume.level \in Levels /\ deviceLevel \in Levels
    /\ {callers[c].at : c \in Callers} \subseteq {"idle", "read", "send", "sent", "wait", "done"}
    /\ Len(commands) <= MaxCommands /\ Len(pushes) <= MaxReports

(* volume.rs:96: the waiter exists "before the change is requested, or the  *)
(* push can arrive in the gap and be missed", and there is none where the   *)
(* level shows that nothing will change. A caller whose command was carried *)
(* out has been told, or a report is on its way: if it times out, the       *)
(* device was late. A caller that had never heard the level is excepted.    *)
NoWaitInVain ==
    \A c \in Callers :
        callers[c].at = "wait" /\ callers[c].executed /\ callers[c].knew
            => callers[c].told \/ pushes # <<>>
=============================================================================
