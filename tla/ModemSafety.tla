----------------------------- MODULE ModemSafety -----------------------------
(***************************************************************************)
(* Voice mode as a transaction on the modem: the helper                    *)
(* qmodem_voip_modem_safety saves the modem's settings in a journal,       *)
(* changes them one AT command at a time and puts them back on failure or  *)
(* disable; the voip daemon decides when it runs, and a USB hotplug script *)
(* runs it too.  An AT command may fail with or without its effect, the    *)
(* modem may reset, and the daemon and the helper may die at any step.     *)
(* A setting has the value it had before voice mode or the value voice     *)
(* mode wants; "usb" is the audio field of usbcfg (its ADB field is        *)
(* unlocked before the settings are saved and left on by restore).         *)
(***************************************************************************)
EXTENDS Integers, Sequences

CONSTANTS
    Method,         \* media method of the capability record
    Baseline,       \* settings of the modem before voice mode was ever enabled
    MaxAttempts,    \* QMODEM_VOIP_ACTIVATION_ATTEMPTS
    MaxRequests,    \* bound: enable and disable calls and originated calls
    MaxTroubles     \* bound: failing steps, deaths, reloads, modem restarts and resets

ASSUME MethodAssumption == Method \in {"serial_pcm", "uac", "pcm_socket"}
\* audio was not forwarded before: what a reboot loses has the value it boots with
ASSUME BaselineAssumption ==
    /\ Baseline \in [{"ims", "voice", "gps", "usb", "qdai", "pcm", "audio"} -> {"base", "voip"}]
    /\ Baseline["pcm"] = "base" /\ Baseline["audio"] = "base"

VARIABLES
    modem,          \* the settings as the modem has them
    journal,        \* modem-safety.journal, NoJournal if the file is absent
    helper,         \* the helper processes: the daemon's and one in the background
    result,         \* exit status of the daemon's last helper: TRUE for 0
    usb,            \* a USB add event is waiting for hotplug
    uci,            \* qmodem_voip.main.enabled
    argument,       \* --start-enabled as the init script passed it to procd
    pc,             \* what the daemon waits for: "idle", or the caller of the helper
    enabled,        \* call.enabled
    start,          \* start_enabled
    attempts,       \* activation_attempts
    timer,          \* activation_timer is pending
    restart,        \* restart_timer is pending
    requests, troubles,
    overlap,        \* history: two helpers ran at once and one was not a recovery
    cut,            \* history: a restore of an enabled journal ended half way
    stuck,          \* history: the daemon failed to correct the configuration
    stale,          \* history: the daemon was respawned with an argument that is not
                    \* what the configuration says, and no method was called since
    disturbed       \* history: since the daemon's last recovery began the modem was
                    \* reset or another helper ran

files == <<modem, journal>>
daemon == <<uci, argument, pc, enabled, start, attempts, timer, restart>>
history == <<overlap, cut, stuck, stale, disturbed>>
vars == <<files, helper, result, usb, daemon, requests, troubles, history>>

\* QPCMV (with qpcmv_cfg) and QAUDMOD are lost when the modem reboots
Volatile == {"pcm", "audio"}
Settings == {"ims", "voice", "gps", "usb", "qdai"} \cup Volatile
Values == {"base", "voip"}
Phases == {"captured", "ims", "voice", "audio", "gps", "usb", "qdai", "reboot",
           "forwarding", "enabled"}
NoJournal == [phase |-> "none", saved |-> Baseline]
Slots == {"child", "back"}
NoHelper == [program |-> "none", at |-> 0, saved |-> Baseline, undo |-> FALSE]

Serial == Method = "serial_pcm"
OnlyIf(test, step) == IF test THEN step ELSE <<"skip">>
-------------------------------------------------------------------------------
(* The helper's programs, one entry per command that can fail              *)

\* qmodem_voip_enable, from the first journal on
EnableProgram ==
    IF Method = "pcm_socket" THEN << <<"write", "enabled">> >>
    ELSE << <<"write", "captured">>,
            <<"set", "ims">>, <<"write", "ims">>,
            <<"set", "voice">>, <<"write", "voice">>,
            <<"find">>,
            <<"set", "audio">>, <<"write", "audio">>,
            <<"set", "gps">>, <<"write", "gps">>,
            <<"set", "usb">>, <<"write", "usb">>,
            OnlyIf(Serial, <<"set", "qdai">>), OnlyIf(Serial, <<"write", "qdai">>),
            <<"write", "reboot">>, <<"boot">>, <<"find">>,
            <<"forward">>, <<"write", "forwarding">>, <<"write", "enabled">> >>

\* mutant: the journal goes before the modem has rebooted
Mut_RestoreProgram ==
    << <<"find">>, <<"put", "ims">>, <<"put", "voice">>, <<"put", "pcm">>,
       <<"put", "qdai">>, <<"put", "audio">>, <<"put", "gps">>, <<"delete">>,
       <<"put", "usb">>, <<"boot">> >>

\* qmodem_voip_restore
RestoreProgram ==
    IF Method = "pcm_socket" THEN << <<"delete">> >>
    ELSE << <<"find">>, <<"put", "ims">>, <<"put", "voice">>, <<"put", "pcm">>,
            OnlyIf(Serial, <<"put", "qdai">>), <<"put", "audio">>, <<"put", "gps">>,
            <<"put", "usb">>, <<"boot">>, <<"delete">> >>

\* qmodem_voip_recover with an enabled journal
RecoverProgram ==
    << <<"find">>, OnlyIf(Serial, <<"check">>), OnlyIf(Serial, <<"set", "usb">>),
       OnlyIf(Serial, <<"set", "qdai">>), OnlyIf(Serial, <<"boot">>),
       OnlyIf(Serial, <<"find">>), OnlyIf(Serial, <<"zero">>),
       OnlyIf(Method # "pcm_socket", <<"forward">>) >>

\* qmodem_voip_arm
ArmProgram == << <<"find">>, <<"armed">>, OnlyIf(Method # "pcm_socket", <<"forward">>) >>

Program(name) == CASE name = "enable" -> EnableProgram
                   [] name = "arm" -> ArmProgram
                   [] name = "restore" -> RestoreProgram
                   [] name = "recover" -> RecoverProgram
Step(p) == Program(helper[p].program)[helper[p].at]
Running(p) == helper[p].program # "none"
-------------------------------------------------------------------------------
Trouble == troubles < MaxTroubles /\ troubles' = troubles + 1

Init ==
    /\ modem = Baseline /\ journal = NoJournal
    /\ helper = [p \in Slots |-> NoHelper] /\ result = TRUE /\ usb = FALSE
    /\ uci \in BOOLEAN /\ argument = uci /\ pc = "idle" /\ enabled = FALSE
    /\ start = uci /\ attempts = 0 /\ timer = uci /\ restart = FALSE
    /\ requests = (IF uci THEN 1 ELSE 0) /\ troubles = 0
    /\ overlap = FALSE /\ cut = FALSE /\ stuck = FALSE /\ stale = FALSE
    /\ disturbed = FALSE

\* a helper starts in slot p; what it overlaps with is noted
Launch(p, program, saved) ==
    /\ helper' = [helper EXCEPT ![p] = [program |-> program, at |-> 1,
                                        saved |-> saved, undo |-> FALSE]]
    /\ overlap' = (overlap \/ \E q \in Slots \ {p} : Running(q) /\
                        ~(program = "recover" /\ helper[q].program = "recover"))

\* the helper in slot p exits; only the daemon waits for an exit status
Exit(p, ok) ==
    /\ helper' = [helper EXCEPT ![p] = NoHelper]
    /\ result' = IF p = "child" THEN ok ELSE result

\* the helper found its answer without a command that changes anything
Answer(ok) == result' = ok /\ UNCHANGED <<helper, overlap>>

\* mutant: a journal of any phase is replaced
Mut_StartEnable ==
    \/ /\ journal.phase = "enabled" /\ Launch("child", "recover", journal.saved)
       /\ UNCHANGED result
    \/ journal.phase # "enabled" /\ Launch("child", "enable", modem) /\ UNCHANGED result

\* qmodem_voip_enable up to the first write: an interrupted transaction is a fault, else
\* the settings are read (what fails before the first write is in Activate)
StartEnable ==
    \/ /\ journal.phase = "enabled"
       /\ Launch("child", "recover", journal.saved) /\ UNCHANGED result
    \/ journal.phase \notin {"none", "enabled"} /\ Answer(FALSE)
    \/ /\ journal = NoJournal
       /\ Launch("child", "enable", modem) /\ UNCHANGED result

\* qmodem_voip_disable
StartDisable ==
    IF journal = NoJournal THEN Answer(TRUE)
    ELSE Launch("child", "restore", journal.saved) /\ UNCHANGED result

\* qmodem_voip_recover
StartRecover(p) ==
    \/ journal = NoJournal /\ Answer(IF p = "child" THEN TRUE ELSE result)
    \/ /\ journal # NoJournal
       /\ Launch(p, IF journal.phase = "enabled" THEN "recover" ELSE "restore", journal.saved)
       /\ UNCHANGED result

\* the step after s succeeded: the next one, or the end
Advance(p) ==
    IF helper[p].at < Len(Program(helper[p].program))
    THEN helper' = [helper EXCEPT ![p].at = @ + 1] /\ UNCHANGED result
    ELSE Exit(p, ~helper[p].undo)

\* mutant: the forwarding state is taken to have survived
Mut_Effect(p) ==
    LET s == Step(p)
    IN  IF s[1] = "set" THEN [modem EXCEPT ![s[2]] = "voip"]
        ELSE IF s[1] = "put" THEN [modem EXCEPT ![s[2]] = helper[p].saved[s[2]]]
        ELSE IF s[1] = "boot" THEN [k \in Settings |-> IF k \in Volatile THEN "base" ELSE modem[k]]
        ELSE modem

\* what a command does to the modem
Effect(p) ==
    LET s == Step(p)
    IN  CASE s[1] = "set" -> [modem EXCEPT ![s[2]] = "voip"]
          [] s[1] = "put" -> [modem EXCEPT ![s[2]] = helper[p].saved[s[2]]]
          [] s[1] = "boot" -> [k \in Settings |-> IF k \in Volatile THEN "base" ELSE modem[k]]
          [] s[1] = "zero" -> [modem EXCEPT !["pcm"] = "base"]
          [] s[1] = "forward" -> [k \in Settings |->
                IF k = "pcm" \/ (Serial /\ k = "audio") THEN "voip" ELSE modem[k]]
          [] OTHER -> modem

\* what it does to the journal: mv of a complete file, or rm
File(p) ==
    LET s == Step(p)
    IN  CASE s[1] = "write" -> [phase |-> s[2], saved |-> helper[p].saved]
          [] s[1] = "delete" -> NoJournal
          [] OTHER -> journal

\* usbcfg and QDAI are as voice mode wants them: no reboot is needed
InPlace == modem["usb"] = "voip" /\ modem["qdai"] = "voip"

\* forwarding is off though QDAI is right: all that arm repairs during a call
Drifted == modem["pcm"] # "voip" /\ (Serial => modem["qdai"] = "voip")

\* a command of the helper in slot p succeeds
Command(p) ==
    /\ Running(p)
    /\ modem' = Effect(p) /\ journal' = File(p)
    /\ usb' = (usb \/ Step(p)[1] = "boot")
    /\ IF Step(p)[1] = "check" /\ InPlace
       THEN helper' = [helper EXCEPT ![p].at = 7] /\ UNCHANGED result
       ELSE IF Step(p)[1] = "armed" /\ ~Drifted THEN Exit(p, TRUE) ELSE Advance(p)
    /\ UNCHANGED <<daemon, requests, troubles, history>>

\* the helper gives up: enable restores once a journal exists, the others leave it
GiveUp(p) ==
    IF helper[p].program = "enable" /\ helper[p].at > 1
    THEN IF journal = NoJournal THEN Exit(p, FALSE)
         ELSE /\ helper' = [helper EXCEPT ![p] = [program |-> "restore", at |-> 1,
                                                  saved |-> journal.saved, undo |-> TRUE]]
              /\ UNCHANGED result
    ELSE Exit(p, FALSE)

\* a command fails (the AT port, the wait for re-enumeration, a write), with or
\* without having had its effect; rm -f is not checked
CommandFails(p) ==
    /\ Running(p) /\ Trouble /\ Step(p)[1] \notin {"delete", "skip"}
    /\ \/ modem' = Effect(p) /\ journal' = File(p) /\ usb' = (usb \/ Step(p)[1] = "boot")
       \/ UNCHANGED <<files, usb>>
    /\ GiveUp(p)
    /\ cut' = (cut \/ (helper[p].program = "restore" /\ journal.phase = "enabled"))
    /\ UNCHANGED <<daemon, requests, overlap, stuck, stale, disturbed>>

\* the modem reboots by itself: volatile settings go, USB enumerates anew
ModemReset ==
    /\ Trouble
    /\ modem' = [k \in Settings |-> IF k \in Volatile THEN "base" ELSE modem[k]]
    /\ usb' = TRUE /\ disturbed' = TRUE
    /\ UNCHANGED <<journal, helper, result, daemon, requests, overlap, cut, stuck, stale>>

\* 21-qmodem-voip-audio: recover in the background if the journal says enabled
Hotplug ==
    /\ usb /\ usb' = FALSE
    /\ \/ /\ journal.phase = "enabled" /\ ~Running("back")
          /\ StartRecover("back") /\ disturbed' = TRUE
       \/ journal.phase # "enabled" /\ UNCHANGED <<helper, result, overlap, disturbed>>
    /\ UNCHANGED <<files, daemon, requests, troubles, cut, stuck, stale>>
-------------------------------------------------------------------------------
(* The daemon                                                              *)

\* set_application_enabled(0), whose result is ignored; bound: it fails once.
\* enable_method has set it before.
Withdrawn(by) == \/ uci' = FALSE /\ UNCHANGED stuck
                 \/ ~stuck /\ stuck' = TRUE /\ uci' = (uci \/ by = "method")

\* mutant: the timer is not set again
Mut_ActivationFailed(by) ==
    IF by = "timer" /\ attempts + 1 < MaxAttempts
    THEN attempts' = attempts + 1 /\ timer' = FALSE /\ UNCHANGED <<uci, start, stuck>>
    ELSE /\ attempts' = IF by = "timer" THEN attempts + 1 ELSE attempts
         /\ start' = FALSE /\ timer' = (timer /\ by # "timer")
         /\ Withdrawn(by)

\* an activation ended without voice mode; the timer retries, enable_method does not
ActivationFailed(by) ==
    IF by = "timer" /\ attempts + 1 < MaxAttempts
    THEN attempts' = attempts + 1 /\ timer' = TRUE /\ UNCHANGED <<uci, start, stuck>>
    ELSE /\ attempts' = IF by = "timer" THEN attempts + 1 ELSE attempts
         /\ start' = FALSE /\ timer' = (timer /\ by # "timer")
         /\ Withdrawn(by)

\* activate_runtime: the ADB check may fail or ask for a restart, the gate, the probe,
\* enable_ubus or capture_baseline may fail, else the helper enables voice mode
Activate(by) ==
    /\ stale' = (stale /\ by = "timer")
    /\ \/ /\ Trouble
          /\ ActivationFailed(by)
          /\ UNCHANGED <<pc, enabled, restart, helper, result, overlap>>
       \/ /\ Trouble
          /\ enabled' = TRUE /\ restart' = TRUE
          /\ start' = TRUE /\ uci' = (uci \/ by = "method") /\ timer' = (timer /\ by # "timer")
          /\ UNCHANGED <<pc, attempts, helper, result, overlap, stuck>>
       \/ /\ StartEnable
          /\ pc' = IF by = "timer" THEN "enable by timer" ELSE "enable by method"
          /\ start' = TRUE /\ uci' = (uci \/ by = "method") /\ timer' = (timer /\ by # "timer")
          /\ UNCHANGED <<enabled, restart, attempts, troubles, stuck>>
    /\ UNCHANGED argument

\* qmodem_voip_activation_timer
ActivationTimer ==
    /\ pc = "idle" /\ timer
    /\ IF start /\ ~enabled THEN Activate("timer")
       ELSE /\ timer' = FALSE
            /\ UNCHANGED <<uci, argument, pc, enabled, start, attempts, restart,
                           helper, result, overlap, stuck, stale, troubles>>
    /\ UNCHANGED <<files, usb, requests, cut, disturbed>>

\* enable_method
EnableMethod ==
    /\ pc = "idle" /\ ~enabled /\ requests < MaxRequests /\ requests' = requests + 1
    /\ Activate("method")
    /\ UNCHANGED <<files, usb, cut, disturbed>>

By == IF pc \in {"enable by timer", "undo by timer"} THEN "timer" ELSE "method"

\* the helper's enable is over: ready, failed, or undone because the media engine
\* or start_recovery failed
EnableReturns ==
    /\ pc \in {"enable by timer", "enable by method"} /\ ~Running("child")
    /\ \/ /\ result
          /\ enabled' = TRUE /\ pc' = "idle"
          /\ UNCHANGED <<uci, start, attempts, timer, restart, helper, result, overlap, troubles, stuck>>
       \/ /\ result /\ Trouble
          /\ StartDisable
          /\ pc' = IF By = "timer" THEN "undo by timer" ELSE "undo by method"
          /\ UNCHANGED <<uci, enabled, start, attempts, timer, restart, stuck>>
       \/ /\ ~result
          /\ ActivationFailed(By) /\ pc' = "idle"
          /\ UNCHANGED <<enabled, restart, helper, result, overlap, troubles>>
    /\ UNCHANGED <<files, usb, argument, requests, cut, stale, disturbed>>

UndoReturns ==
    /\ pc \in {"undo by timer", "undo by method"} /\ ~Running("child")
    /\ ActivationFailed(By) /\ pc' = "idle"
    /\ UNCHANGED <<files, helper, result, usb, argument, enabled, restart, requests,
                   troubles, overlap, cut, stale, disturbed>>

\* disable_method: a pending restart is cancelled, else the helper restores
DisableMethod ==
    /\ pc = "idle" /\ requests < MaxRequests /\ requests' = requests + 1
    /\ uci' = FALSE /\ start' = FALSE /\ timer' = FALSE /\ stale' = FALSE
    /\ \/ /\ restart \/ ~enabled
          /\ restart' = FALSE /\ enabled' = FALSE
          /\ UNCHANGED <<pc, helper, result, overlap>>
       \/ /\ ~restart /\ enabled
          /\ StartDisable /\ pc' = "disable"
          /\ UNCHANGED <<restart, enabled>>
    /\ UNCHANGED <<files, usb, argument, attempts, troubles, cut, stuck, disturbed>>

\* the restore failed: disable is refused and voice mode stays on
DisableReturns ==
    /\ pc = "disable" /\ ~Running("child")
    /\ pc' = "idle"
    /\ enabled' = ~result /\ start' = ~result
    /\ \/ uci' = ~result /\ UNCHANGED stuck
       \/ ~result /\ ~stuck /\ stuck' = TRUE /\ UNCHANGED uci
    /\ UNCHANGED <<files, helper, result, usb, argument, attempts, timer, restart,
                   requests, troubles, overlap, cut, stale, disturbed>>

\* action_call, originate and answer: an enabled journal and a recovery that succeeds
\* come before the call
PrepareCall ==
    /\ pc = "idle" /\ enabled /\ journal.phase = "enabled"
    /\ requests < MaxRequests /\ requests' = requests + 1
    /\ StartRecover("child") /\ pc' = "recover" /\ disturbed' = Running("back")
    /\ UNCHANGED <<files, usb, uci, argument, enabled, start, attempts, timer, restart,
                   troubles, cut, stuck, stale>>

\* recovered: ATD or ATA is sent ("calling"), or the caller gets media_not_ready, or
\* invalid_state while a restart is pending
RecoverReturns ==
    /\ pc = "recover" /\ ~Running("child")
    /\ pc' = IF result /\ ~restart THEN "calling" ELSE "idle"
    /\ UNCHANGED <<files, helper, result, usb, uci, argument, enabled, start, attempts,
                   timer, restart, requests, troubles, history>>

Called ==
    /\ pc = "calling" /\ pc' = "idle"
    /\ UNCHANGED <<files, helper, result, usb, uci, argument, enabled, start, attempts,
                   timer, restart, requests, troubles, history>>

\* start_serial_arm: a helper the daemon does not wait for, while a call is active
Arm ==
    /\ pc = "idle" /\ enabled /\ ~restart /\ journal.phase = "enabled" /\ ~Running("back")
    /\ Serial /\ Launch("back", "arm", journal.saved) /\ disturbed' = TRUE
    /\ UNCHANGED <<files, result, usb, daemon, requests, troubles, cut, stuck, stale>>

\* main: the daemon starts with the argument on its command line
Started(on) ==
    /\ argument' = on /\ stale' = (uci # on)
    /\ pc' = "idle" /\ enabled' = FALSE /\ start' = on /\ attempts' = 0 /\ timer' = on
    /\ restart' = FALSE /\ UNCHANGED uci

\* qmodem_voip_restart_timer: the daemon ends, procd starts it again as it was
RestartTimer ==
    /\ pc = "idle" /\ restart /\ Started(argument)
    /\ UNCHANGED <<files, helper, result, usb, requests, troubles, overlap, cut, stuck,
                   disturbed>>

\* the helper dies with the daemon or goes on as an orphan
ChildLeft ==
    /\ \/ /\ helper' = [helper EXCEPT !["child"] = NoHelper]
          /\ cut' = (cut \/ (helper["child"].program = "restore" /\ journal.phase = "enabled"))
       \/ /\ Running("child") /\ ~Running("back")
          /\ helper' = [helper EXCEPT !["child"] = NoHelper, !["back"] = helper["child"]]
          /\ UNCHANGED cut
    /\ UNCHANGED <<files, result, usb, overlap, stuck, disturbed>>

\* the daemon dies and procd starts it again as it was
Crash == Trouble /\ Started(argument) /\ ChildLeft /\ UNCHANGED requests

\* reload_service: stop, and a start that reads the configuration anew
ReloadService == Trouble /\ Started(uci) /\ ChildLeft /\ UNCHANGED requests

Next ==
    \/ \E p \in Slots : Command(p) \/ CommandFails(p)
    \/ ModemReset \/ Hotplug \/ ActivationTimer \/ EnableMethod \/ EnableReturns
    \/ UndoReturns \/ DisableMethod \/ DisableReturns \/ PrepareCall \/ RecoverReturns
    \/ Called \/ Arm \/ RestartTimer \/ Crash \/ ReloadService

Fairness ==
    /\ \A p \in Slots : WF_vars(Command(p))
    /\ WF_vars(ActivationTimer) /\ WF_vars(EnableReturns) /\ WF_vars(UndoReturns)
    /\ WF_vars(DisableReturns) /\ WF_vars(RecoverReturns) /\ WF_vars(Called)
    /\ WF_vars(RestartTimer)

Spec == Init /\ [][Next]_vars /\ Fairness
-------------------------------------------------------------------------------
(* Properties                                                              *)

TypeOK ==
    /\ modem \in [Settings -> Values]
    /\ journal \in [phase : Phases \cup {"none"}, saved : [Settings -> Values]]
    /\ \A p \in Slots : Running(p) => helper[p].at \in 1..Len(Program(helper[p].program))
    /\ attempts \in 0..MaxAttempts

\* "Capture volatile modem and USB settings in a checksummed journal": whatever fails
\* or dies, the journal holds the settings of before voice mode, never those of a
\* transaction that was cut short.
BaselineKept == journal # NoJournal /\ ~overlap => journal.saved = Baseline

\* Without a journal nothing of voice mode is left on the modem, whether enable
\* failed, was undone, or disable succeeded.
NoTraceWithoutJournal ==
    journal = NoJournal /\ ~overlap /\ (\A p \in Slots : ~Running(p)) => modem = Baseline

Needed == CASE Method = "serial_pcm" -> Settings
            [] Method = "uac" -> Settings \ {"qdai", "audio"}
            [] Method = "pcm_socket" -> {}

\* A call goes out only on a modem in voice mode with its audio forwarded: the
\* recovery before it repairs what a reset of the modem undid.
CallHasVoice ==
    pc = "calling" /\ ~overlap /\ ~cut /\ ~disturbed => \A k \in Needed : modem[k] = "voip"

\* What is persisted and what the daemon does come to agree: an "enabled" in the
\* configuration is made true or taken back, and voice mode does not stay on without it,
\* unless the configuration could not be written or procd respawned the daemon with an
\* older --start-enabled than the configuration's.
ActivationSettles == []<>(enabled = uci \/ stuck \/ stale)

\* "On failure or disable, restore the journaled baseline": when disable answers ok
\* there is no journal left.
DisableRestores ==
    [][(DisableMethod /\ pc' = "idle") \/ (DisableReturns /\ result) => journal' = NoJournal]_vars
===============================================================================
