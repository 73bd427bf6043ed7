--------------------------- MODULE ModemSafetyProofs ---------------------------
(* Proofs about voice mode as a transaction *)
EXTENDS ModemSafety, TLAPS

\* The settings that some program of the method changes
Touched == CASE Method = "serial_pcm" -> Settings
             [] Method = "uac" -> Settings \ {"qdai"}
             [] Method = "pcm_socket" -> {}

\* The first n commands of restore were carried out: what they put back is back
PutBack(m, n) ==
    \A i \in 1..n, k \in Settings : RestoreProgram[i] = <<"put", k>> => m[k] = Baseline[k]

Helpers == [program : {"none", "enable", "restore", "recover", "arm"}, at : Nat,
            saved : [Settings -> Values], undo : BOOLEAN]
Journals == [phase : Phases \cup {"none"}, saved : [Settings -> Values]]

\* What holds while no two helpers overlap, other than two recoveries
Calm ==
    /\ journal.saved = Baseline
    /\ \A p \in Slots : helper[p].saved = Baseline
    /\ journal = NoJournal => modem = Baseline
    /\ \A p \in Slots : Running(p) /\ journal = NoJournal =>
            helper[p].program = "enable" /\ helper[p].at = 1
    /\ \A p \in Slots : helper[p].program = "restore" => PutBack(modem, helper[p].at - 1)
    /\ \A p, q \in Slots : Running(p) /\ Running(q) /\ p # q => helper[p].program = "recover"

Core ==
    /\ modem \in [Settings -> Values]
    /\ journal \in Journals
    /\ helper \in [Slots -> Helpers]
    /\ \A p \in Slots : Running(p) => helper[p].at \in 1..Len(Program(helper[p].program))
    /\ overlap \in BOOLEAN
    /\ \A k \in Settings \ Touched : modem[k] = Baseline[k]
    /\ ~overlap => Calm

\* The inductive invariant; the daemon starts a helper only when none of its own runs
Inv == Core /\ (pc \in {"idle", "calling"} => ~Running("child"))
-------------------------------------------------------------------------------
(* What the programs consist of                                            *)

\* every entry of restore, and that all is put back before the journal goes
LEMMA RestoreSteps ==
    /\ Len(RestoreProgram) \in Nat \ {0}
    /\ \A i \in 1..Len(RestoreProgram) :
          \/ RestoreProgram[i][1] \in {"find", "boot", "skip"}
          \/ \E k \in Touched : RestoreProgram[i] = <<"put", k>>
          \/ /\ RestoreProgram[i][1] = "delete" /\ i = Len(RestoreProgram)
             /\ \A k \in Touched : \E j \in 1..(i - 1) : RestoreProgram[j] = <<"put", k>>
  <1> USE DEF RestoreProgram, OnlyIf, Serial, Touched, Settings, Volatile
  <1>1. CASE Method = "pcm_socket"
    BY <1>1
  <1>2. CASE Method = "uac"
    BY <1>2
  <1>3. CASE Method = "serial_pcm"
    BY <1>3
  <1> QED BY <1>1, <1>2, <1>3, MethodAssumption, Zenon

\* every entry of enable: it begins with a journal and never removes it
LEMMA EnableSteps ==
    /\ Len(EnableProgram) \in Nat \ {0}
    /\ EnableProgram[1][1] = "write"
    /\ \A i \in 1..Len(EnableProgram) :
          \/ EnableProgram[i][1] \in {"find", "boot", "skip"}
          \/ EnableProgram[i][1] = "forward" /\ Method # "pcm_socket"
          \/ \E k \in Touched : EnableProgram[i] = <<"set", k>>
          \/ \E k \in Phases : EnableProgram[i] = <<"write", k>>
  <1> USE DEF EnableProgram, OnlyIf, Serial, Touched, Settings, Volatile, Phases
  <1>1. CASE Method = "pcm_socket"
    BY <1>1
  <1>2. CASE Method = "uac"
    BY <1>2
  <1>3. CASE Method = "serial_pcm"
    BY <1>3
  <1> QED BY <1>1, <1>2, <1>3, MethodAssumption, Zenon

\* every entry of recover and arm: neither touches the journal
LEMMA RecoverSteps ==
    /\ Len(RecoverProgram) = 8
    /\ \A i \in 1..Len(RecoverProgram) :
          \/ RecoverProgram[i][1] \in {"find", "boot", "skip", "check"}
          \/ RecoverProgram[i][1] \in {"forward", "zero"} /\ Method # "pcm_socket"
          \/ \E k \in Touched : RecoverProgram[i] = <<"set", k>>
  <1> USE DEF RecoverProgram, OnlyIf, Serial, Touched, Settings, Volatile
  <1>1. CASE Method = "pcm_socket"
    BY <1>1
  <1>2. CASE Method = "uac"
    BY <1>2
  <1>3. CASE Method = "serial_pcm"
    BY <1>3
  <1> QED BY <1>1, <1>2, <1>3, MethodAssumption, Zenon

\* every entry of arm: it only forwards audio
LEMMA ArmSteps ==
    /\ Len(ArmProgram) = 3
    /\ \A i \in 1..Len(ArmProgram) :
          \/ ArmProgram[i][1] \in {"find", "skip", "armed"}
          \/ ArmProgram[i][1] = "forward" /\ Method # "pcm_socket"
  BY DEF ArmProgram, OnlyIf

\* audio was not forwarded before voice mode
LEMMA BaselineTyped == Baseline \in [Settings -> Values] /\ \A k \in Volatile : Baseline[k] = "base"
  BY BaselineAssumption DEF Settings, Volatile, Values

\* every method but the PCM socket changes all settings, or all but QDAI
LEMMA TouchedSettings ==
    /\ Touched \subseteq Settings
    /\ Method # "pcm_socket" => Touched \in {Settings, Settings \ {"qdai"}}
    /\ Serial => Touched = Settings
  BY MethodAssumption DEF Touched, Settings, Serial

\* the entry a running helper is at
LEMMA StepKinds ==
    ASSUME Core, NEW p \in Slots, Running(p)
    PROVE  \/ Step(p)[1] \in {"find", "boot", "skip", "check", "armed"}
           \/ Step(p)[1] \in {"forward", "zero"} /\ Method # "pcm_socket"
           \/ \E k \in Touched : Step(p) = <<"set", k>> /\ helper[p].program # "restore"
           \/ \E k \in Touched : Step(p) = <<"put", k>> /\ helper[p].program = "restore"
           \/ \E k \in Phases : Step(p) = <<"write", k>> /\ helper[p].program = "enable"
           \/ Step(p)[1] = "delete" /\ helper[p].program = "restore"
  <1>1. helper[p].program \in {"enable", "restore", "recover", "arm"}
    BY DEF Core, Helpers, Running
  <1>2. helper[p].at \in 1..Len(Program(helper[p].program))
    BY DEF Core
  <1>3. CASE helper[p].program = "enable"
    BY <1>2, <1>3, EnableSteps DEF Step, Program
  <1>4. CASE helper[p].program = "restore"
    BY <1>2, <1>4, RestoreSteps DEF Step, Program
  <1>5. CASE helper[p].program = "recover"
    BY <1>2, <1>5, RecoverSteps, Zenon DEF Step, Program
  <1>6. CASE helper[p].program = "arm"
    BY <1>2, <1>6, ArmSteps, Zenon DEF Step, Program
  <1> QED BY <1>1, <1>3, <1>4, <1>5, <1>6

\* a command keeps the type of the modem and changes only settings of the method
LEMMA EffectTyped ==
    ASSUME Core, NEW p \in Slots, Running(p)
    PROVE  /\ Effect(p) \in [Settings -> Values]
           /\ \A k \in Settings \ Touched : Effect(p)[k] = Baseline[k]
           /\ File(p) \in Journals
  <1> USE DEF Core, Helpers, Journals
  <1>0. helper[p].saved \in [Settings -> Values]
    OBVIOUS
  <1>1. CASE Step(p)[1] \in {"find", "skip", "check", "armed"}
    BY <1>1 DEF Effect, File
  <1>2. CASE Step(p)[1] = "boot"
    BY <1>2, BaselineTyped DEF Effect, File, Values
  <1>3. CASE Step(p)[1] \in {"forward", "zero"} /\ Method # "pcm_socket"
    BY <1>3, TouchedSettings DEF Effect, File, Values, Settings, Volatile
  <1>4. ASSUME NEW k \in Touched, Step(p) = <<"set", k>> \/ Step(p) = <<"put", k>>
        PROVE  /\ Effect(p) \in [Settings -> Values]
               /\ \A l \in Settings \ Touched : Effect(p)[l] = Baseline[l]
               /\ File(p) = journal
    <2>a. k \in Settings /\ helper[p].saved[k] \in Values /\ "voip" \in Values
      BY <1>0, TouchedSettings DEF Values
    <2>1. PICK v \in Values : Effect(p) = [modem EXCEPT ![k] = v]
      <3>1. CASE Step(p) = <<"set", k>>
        <4>1. Effect(p) = [modem EXCEPT ![k] = "voip"]
          BY <3>1 DEF Effect
        <4> QED BY <2>a, <4>1, Zenon
      <3>2. CASE Step(p) = <<"put", k>>
        <4>1. Effect(p) = [modem EXCEPT ![k] = helper[p].saved[k]]
          BY <3>2 DEF Effect
        <4> QED BY <2>a, <4>1, Zenon
      <3> QED BY <1>4, <3>1, <3>2
    <2>2. File(p) = journal
      BY <1>4 DEF File
    <2> QED BY <2>1, <2>2, TouchedSettings
  <1>5. ASSUME NEW k \in Phases, Step(p) = <<"write", k>>
        PROVE  Effect(p) = modem /\ File(p) = [phase |-> k, saved |-> helper[p].saved]
    BY <1>5 DEF Effect, File
  <1>6. CASE Step(p)[1] = "delete"
    BY <1>6, BaselineTyped DEF Effect, File, NoJournal
  <1> QED BY <1>0, <1>1, <1>2, <1>3, <1>4, <1>5, <1>6, StepKinds

\* what a command does to the journal, by program: enable has one afterwards, restore
\* removes it only when all is put back, recover and arm leave it alone
LEMMA CalmFile ==
    ASSUME Core, Calm, NEW p \in Slots, Running(p)
    PROVE  /\ File(p).saved = Baseline
           /\ helper[p].program = "enable" => File(p) # NoJournal
           /\ helper[p].program \in {"recover", "arm"} => journal # NoJournal /\ File(p) = journal
           /\ helper[p].program = "restore" =>
                 /\ journal # NoJournal
                 /\ Step(p)[1] # "delete" => File(p) = journal
                 /\ Step(p)[1] = "delete" =>
                       /\ File(p) = NoJournal /\ Effect(p) = Baseline
                       /\ helper[p].at = Len(RestoreProgram)
  <1>0. /\ journal.saved = Baseline /\ helper[p].saved = Baseline
        /\ journal = NoJournal => helper[p].program = "enable" /\ helper[p].at = 1
    BY DEF Calm
  <1>1. CASE helper[p].program = "enable"
    <2>1. CASE \E k \in Phases : Step(p) = <<"write", k>>
      <3>1. PICK k \in Phases : Step(p) = <<"write", k>>
        BY <2>1
      <3>2. File(p) = [phase |-> k, saved |-> Baseline]
        BY <1>0, <3>1 DEF File
      <3>3. k # "none"
        BY DEF Phases
      <3> QED BY <1>1, <3>2, <3>3 DEF NoJournal
    <2>2. CASE Step(p)[1] # "write"
      <3>1. helper[p].at # 1
        BY <1>1, <2>2, EnableSteps DEF Step, Program
      <3>2. File(p) = journal
        BY <1>1, <2>2, StepKinds DEF File
      <3> QED BY <1>0, <1>1, <3>1, <3>2
    <2> QED BY <1>1, <2>1, <2>2, StepKinds
  <1>2. CASE helper[p].program \in {"recover", "arm"}
    <2>1. Step(p)[1] \notin {"write", "delete"}
      BY <1>2, StepKinds
    <2> QED BY <1>0, <1>2, <2>1 DEF File
  <1>3. CASE helper[p].program = "restore"
    <2>1. Step(p)[1] # "write"
      BY <1>3, StepKinds
    <2>2. CASE Step(p)[1] # "delete"
      BY <1>0, <1>3, <2>1, <2>2 DEF File
    <2>3. CASE Step(p)[1] = "delete"
      <3>1. helper[p].at \in 1..Len(RestoreProgram) /\ Step(p) = RestoreProgram[helper[p].at]
        BY <1>3 DEF Core, Step, Program
      <3>2. /\ helper[p].at = Len(RestoreProgram)
            /\ \A k \in Touched : \E j \in 1..(helper[p].at - 1) : RestoreProgram[j] = <<"put", k>>
        <4>1. \A k \in Touched : RestoreProgram[helper[p].at] # <<"put", k>>
          BY <2>3, <3>1
        <4> QED BY <2>3, <3>1, <4>1, RestoreSteps, Zenon
      <3>3. \A k \in Touched : modem[k] = Baseline[k]
        BY <1>3, <3>2, TouchedSettings, Zenon DEF Calm, PutBack
      <3>4. modem = Baseline
        BY <3>3, BaselineTyped DEF Core
      <3>5. Effect(p) = modem /\ File(p) = NoJournal
        BY <2>3 DEF Effect, File
      <3>6. NoJournal.saved = Baseline
        BY DEF NoJournal
      <3>7. journal # NoJournal
        BY <1>0, <1>3
      <3> QED BY <1>3, <2>3, <3>2, <3>4, <3>5, <3>6, <3>7
    <2> QED BY <2>2, <2>3
  <1> QED BY <1>1, <1>2, <1>3 DEF Core, Helpers, Running

\* a command of restore puts back its setting and disturbs none that was put back
LEMMA RestoreEffect ==
    ASSUME Core, Calm, NEW p \in Slots, helper[p].program = "restore",
           NEW i \in 1..helper[p].at, NEW k \in Settings, RestoreProgram[i] = <<"put", k>>
    PROVE  Effect(p)[k] = Baseline[k]
  <1>0. Running(p)
    BY DEF Running
  <1>1. /\ helper[p].at \in 1..Len(RestoreProgram) /\ Step(p) = RestoreProgram[helper[p].at]
        /\ helper[p].saved = Baseline
    BY <1>0 DEF Core, Calm, Step, Program
  <1>2. i < helper[p].at => modem[k] = Baseline[k]
    BY <1>1 DEF Calm, PutBack
  <1>3. CASE Step(p)[1] = "boot"
    <2>1. i < helper[p].at
      BY <1>1, <1>3
    <2> QED BY <1>2, <1>3, <2>1, BaselineTyped DEF Effect
  <1>4. ASSUME NEW l \in Touched, Step(p) = <<"put", l>> PROVE Effect(p)[k] = Baseline[k]
    <2>1. Effect(p) = [modem EXCEPT ![l] = Baseline[l]]
      BY <1>1, <1>4 DEF Effect
    <2>2. i = helper[p].at => k = l
      <3>1. Step(p)[2] = l /\ RestoreProgram[i][2] = k
        BY <1>4
      <3> QED BY <1>1, <3>1
    <2> QED BY <1>1, <1>2, <2>1, <2>2, TouchedSettings DEF Core
  <1>5. CASE Step(p)[1] \in {"find", "skip", "delete"}
    <2>1. i < helper[p].at
      BY <1>1, <1>5
    <2> QED BY <1>2, <1>5, <2>1 DEF Effect
  <1> QED BY <1>1, <1>3, <1>4, <1>5, RestoreSteps
-------------------------------------------------------------------------------
(* How a step may change the invariant: one slot at a time                 *)

\* the slot p takes the value h: what is left to show about h and the files
LEMMA Replaced ==
    ASSUME Core, NEW p \in Slots, NEW h \in Helpers,
           helper' = [helper EXCEPT ![p] = h],
           modem' \in [Settings -> Values], journal' \in Journals, overlap' \in BOOLEAN,
           \A k \in Settings \ Touched : modem'[k] = Baseline[k],
           h.program # "none" => h.at \in 1..Len(Program(h.program)),
           overlap' = FALSE =>
              /\ overlap = FALSE
              /\ journal'.saved = Baseline /\ h.saved = Baseline
              /\ journal' = NoJournal =>
                    /\ modem' = Baseline
                    /\ h.program = "none" \/ (h.program = "enable" /\ h.at = 1)
                    /\ \A q \in Slots \ {p} : Running(q) =>
                          helper[q].program = "enable" /\ helper[q].at = 1
              /\ h.program = "restore" => PutBack(modem', h.at - 1)
              /\ \A q \in Slots \ {p} :
                    helper[q].program = "restore" => PutBack(modem', helper[q].at - 1)
              /\ \A q \in Slots \ {p} : Running(q) /\ h.program # "none" =>
                    h.program = "recover" /\ helper[q].program = "recover"
    PROVE  Core'
  <1>1. helper' \in [Slots -> Helpers] /\ helper'[p] = h
        /\ \A q \in Slots \ {p} : helper'[q] = helper[q]
    BY DEF Core
  <1>2. \A q \in Slots : Running(q)' => helper'[q].at \in 1..Len(Program(helper'[q].program))
    BY <1>1 DEF Core, Running
  <1>3. ASSUME overlap' = FALSE PROVE Calm'
    <2>0. Calm
      BY <1>3 DEF Core
    <2>1. \A q \in Slots : helper'[q].saved = Baseline
      BY <1>1, <1>3, <2>0 DEF Calm
    <2>2. \A q \in Slots : Running(q)' /\ journal' = NoJournal =>
             helper'[q].program = "enable" /\ helper'[q].at = 1
      BY <1>1, <1>3 DEF Running
    <2>3. \A q \in Slots : helper'[q].program = "restore" => PutBack(modem', helper'[q].at - 1)
      BY <1>1, <1>3
    <2>4. ASSUME NEW q \in Slots, NEW r \in Slots, Running(q)', Running(r)', q # r
          PROVE  helper'[q].program = "recover"
      <3>1. CASE q = p
        BY <1>1, <1>3, <2>4, <3>1 DEF Running
      <3>2. CASE r = p
        BY <1>1, <1>3, <2>4, <3>2 DEF Running
      <3>3. CASE q # p /\ r # p
        BY <1>1, <2>0, <2>4, <3>3 DEF Calm, Running
      <3> QED BY <3>1, <3>2, <3>3
    <2> QED BY <1>3, <2>1, <2>2, <2>3, <2>4 DEF Calm, NoJournal
  <1> QED BY <1>1, <1>2, <1>3, Zenon DEF Core

\* an empty slot is a slot with the settings of before voice mode
LEMMA NoHelperTyped == NoHelper \in Helpers /\ NoHelper.program = "none" /\ NoHelper.saved = Baseline
  BY BaselineTyped DEF NoHelper, Helpers

\* a helper ends and leaves the files as they are
LEMMA Stopped ==
    ASSUME Core, NEW p \in Slots, helper' = [helper EXCEPT ![p] = NoHelper],
           UNCHANGED <<files, overlap>>
    PROVE  Core'
  <1>1. modem' = modem /\ journal' = journal /\ overlap' = overlap
    BY DEF files
  <1>2. overlap = FALSE => Calm
    BY DEF Core
  <1>3. overlap = FALSE =>
           /\ journal'.saved = Baseline
           /\ journal' = NoJournal =>
                 /\ modem' = Baseline
                 /\ \A q \in Slots \ {p} : Running(q) =>
                          helper[q].program = "enable" /\ helper[q].at = 1
           /\ \A q \in Slots \ {p} :
                    helper[q].program = "restore" => PutBack(modem', helper[q].at - 1)
    BY <1>1, <1>2 DEF Calm
  <1>4. /\ modem' \in [Settings -> Values] /\ journal' \in Journals /\ overlap' \in BOOLEAN
        /\ \A k \in Settings \ Touched : modem'[k] = Baseline[k]
    BY <1>1 DEF Core
  <1> QED BY <1>1, <1>3, <1>4, NoHelperTyped, Replaced, Zenon

\* a helper starts in a free slot: with the settings of before voice mode and, unless it
\* is to write the journal, with a journal
LEMMA Launched ==
    ASSUME Core, NEW p \in Slots, ~Running(p), UNCHANGED files,
           NEW program \in {"enable", "restore", "recover", "arm"},
           NEW saved \in [Settings -> Values], Launch(p, program, saved),
           overlap = FALSE => saved = Baseline /\ (journal # NoJournal \/ program = "enable")
    PROVE  Core'
  <1> DEFINE h == [program |-> program, at |-> 1, saved |-> saved, undo |-> FALSE]
  <1>1. /\ modem' = modem /\ journal' = journal
        /\ helper' = [helper EXCEPT ![p] = h] /\ overlap' \in BOOLEAN
    BY DEF files, Launch
  <1>2. h \in Helpers /\ h.program = program /\ h.at = 1 /\ h.saved = saved
    BY DEF Helpers
  <1>3. 1 \in 1..Len(Program(program))
    <2>1. /\ 1 \in 1..Len(EnableProgram) /\ 1 \in 1..Len(RestoreProgram)
          /\ 1 \in 1..Len(RecoverProgram) /\ 1 \in 1..Len(ArmProgram)
      BY EnableSteps, RestoreSteps, RecoverSteps, ArmSteps
    <2> QED BY <2>1 DEF Program
  <1>4. ASSUME overlap' = FALSE
        PROVE  /\ overlap = FALSE
               /\ \A q \in Slots \ {p} : Running(q) =>
                     program = "recover" /\ helper[q].program = "recover"
    BY <1>4, Zenon DEF Launch, Core
  <1>5. overlap = FALSE => Calm
    BY DEF Core
  <1>6. overlap' = FALSE =>
           /\ journal'.saved = Baseline /\ saved = Baseline
           /\ journal' = NoJournal =>
                 /\ modem' = Baseline /\ program = "enable"
                 /\ \A q \in Slots \ {p} : Running(q) =>
                          helper[q].program = "enable" /\ helper[q].at = 1
           /\ \A q \in Slots \ {p} :
                    helper[q].program = "restore" => PutBack(modem', helper[q].at - 1)
    BY <1>1, <1>4, <1>5, Zenon DEF Calm
  <1>7. PutBack(modem', h.at - 1)
    BY <1>2 DEF PutBack
  <1>8. /\ modem' \in [Settings -> Values] /\ journal' \in Journals
        /\ \A k \in Settings \ Touched : modem'[k] = Baseline[k]
    BY <1>1 DEF Core
  <1> HIDE DEF h
  <1> QED BY <1>1, <1>2, <1>3, <1>4, <1>6, <1>7, <1>8, Replaced, Zenon

\* a helper gives up: enable becomes a restore of the journal's settings
LEMMA GivenUp ==
    ASSUME Core, NEW p \in Slots, Running(p), GiveUp(p), overlap' = overlap,
           \/ modem' = modem /\ journal' = journal
           \/ modem' = Effect(p) /\ journal' = File(p) /\ Step(p)[1] # "delete"
    PROVE  Core'
  <1>1. /\ modem' \in [Settings -> Values] /\ journal' \in Journals /\ overlap' \in BOOLEAN
        /\ \A k \in Settings \ Touched : modem'[k] = Baseline[k]
    BY EffectTyped DEF Core
  <1>2. PICK h \in Helpers :
           /\ helper' = [helper EXCEPT ![p] = h]
           /\ \/ h.program = "none" /\ h.saved = Baseline
              \/ /\ h.program = "restore" /\ h.at = 1 /\ h.saved = journal.saved
                 /\ helper[p].program = "enable" /\ journal # NoJournal
    <2>1. CASE helper' = [helper EXCEPT ![p] = NoHelper]
      BY <2>1, NoHelperTyped, Zenon
    <2>2. CASE /\ helper' = [helper EXCEPT ![p] = [program |-> "restore", at |-> 1,
                                                   saved |-> journal.saved, undo |-> TRUE]]
               /\ helper[p].program = "enable" /\ journal # NoJournal
      <3> DEFINE r == [program |-> "restore", at |-> 1, saved |-> journal.saved, undo |-> TRUE]
      <3>1. r \in Helpers /\ r.program = "restore" /\ r.at = 1 /\ r.saved = journal.saved
        BY DEF Helpers, Core, Journals
      <3> QED BY <2>2, <3>1, Zenon
    <2> QED BY <2>1, <2>2, Zenon DEF GiveUp, Exit
  <1>3. h.program # "none" => h.at \in 1..Len(Program(h.program))
    BY <1>2, RestoreSteps DEF Program
  <1>4. ASSUME overlap = FALSE
        PROVE  /\ journal'.saved = Baseline /\ h.saved = Baseline
               /\ h.program # "none" => journal' # NoJournal
               /\ journal' = NoJournal => modem' = Baseline
               /\ journal' = NoJournal => journal = NoJournal
               /\ h.program = "restore" => PutBack(modem', h.at - 1)
               /\ \A q \in Slots \ {p} :
                    helper[q].program = "restore" => PutBack(modem', helper[q].at - 1)
               /\ \A q \in Slots \ {p} : Running(q) => h.program = "none"
    <2>0. Calm
      BY <1>4 DEF Core
    <2>1. \A q \in Slots \ {p} : Running(q) =>
             helper[p].program = "recover" /\ helper[q].program = "recover"
      BY <2>0 DEF Calm
    <2>2. \A q \in Slots \ {p} : helper[q].program # "restore"
      BY <2>1 DEF Running
    <2>3. /\ journal'.saved = Baseline
          /\ journal' = NoJournal => journal = NoJournal /\ modem' = modem
      <3>1. CASE modem' = modem /\ journal' = journal
        BY <2>0, <3>1 DEF Calm
      <3>2. CASE modem' = Effect(p) /\ journal' = File(p) /\ Step(p)[1] # "delete"
        <4>1. File(p).saved = Baseline /\ File(p) # NoJournal
          BY <2>0, <3>2, CalmFile DEF Core, Helpers, Running
        <4> QED BY <3>2, <4>1
      <3> QED BY <3>1, <3>2
    <2>4. h.program = "restore" => PutBack(modem', h.at - 1)
      BY <1>2 DEF PutBack
    <2> QED BY <1>2, <2>0, <2>1, <2>2, <2>3, <2>4 DEF Calm
  <1>5. overlap = FALSE => \A q \in Slots \ {p} : Running(q) /\ journal = NoJournal =>
             helper[q].program = "enable" /\ helper[q].at = 1
    BY DEF Core, Calm
  <1> QED BY <1>1, <1>2, <1>3, <1>4, <1>5, Replaced, Zenon

\* only recover looks whether usbcfg and QDAI are in place
LEMMA CheckStep ==
    ASSUME Core, NEW p \in Slots, Running(p), Step(p)[1] = "check"
    PROVE  helper[p].program = "recover"
  <1>1. helper[p].program \in {"enable", "restore", "recover", "arm"}
    BY DEF Core, Helpers, Running
  <1>2. helper[p].at \in 1..Len(Program(helper[p].program))
    BY DEF Core
  <1>3. helper[p].program # "enable"
    <2>1. ASSUME helper[p].program = "enable"
          PROVE  Step(p) = EnableProgram[helper[p].at] /\ helper[p].at \in 1..Len(EnableProgram)
      BY <1>2, <2>1 DEF Step, Program
    <2>2. \A k : Step(p) # <<"set", k>> /\ Step(p) # <<"write", k>>
      OBVIOUS
    <2> QED BY <2>1, <2>2, EnableSteps
  <1>4. helper[p].program # "restore"
    <2>1. ASSUME helper[p].program = "restore"
          PROVE  Step(p) = RestoreProgram[helper[p].at] /\ helper[p].at \in 1..Len(RestoreProgram)
      BY <1>2, <2>1 DEF Step, Program
    <2>2. \A k : Step(p) # <<"put", k>>
      OBVIOUS
    <2> QED BY <2>1, <2>2, RestoreSteps
  <1>5. helper[p].program # "arm"
    <2>1. ASSUME helper[p].program = "arm"
          PROVE  Step(p) = ArmProgram[helper[p].at] /\ helper[p].at \in 1..Len(ArmProgram)
      BY <1>2, <2>1 DEF Step, Program
    <2> QED BY <2>1, ArmSteps
  <1> QED BY <1>1, <1>3, <1>4, <1>5

\* a command of a helper succeeds, and the helper goes on or ends
LEMMA CommandCore ==
    ASSUME Core, NEW p \in Slots, Command(p)
    PROVE  Core'
  <1>0. Running(p) /\ modem' = Effect(p) /\ journal' = File(p) /\ overlap' = overlap
    BY DEF Command, history
  <1>1. /\ modem' \in [Settings -> Values] /\ journal' \in Journals /\ overlap' \in BOOLEAN
        /\ \A k \in Settings \ Touched : modem'[k] = Baseline[k]
    BY <1>0, EffectTyped DEF Core
  <1>a. /\ helper[p] \in Helpers /\ helper[p].at \in 1..Len(Program(helper[p].program))
        /\ Len(Program(helper[p].program)) \in Nat
    <2>1. helper[p].program \in {"enable", "restore", "recover", "arm"}
      BY <1>0 DEF Core, Helpers, Running
    <2>2. Len(Program(helper[p].program)) \in Nat
      BY <2>1, EnableSteps, RestoreSteps, RecoverSteps, ArmSteps DEF Program
    <2> QED BY <1>0, <2>2 DEF Core
  <1>2. PICK h \in Helpers :
           /\ helper' = [helper EXCEPT ![p] = h]
           /\ \/ h.program = "none" /\ h.saved = Baseline
              \/ /\ h.program = helper[p].program /\ h.saved = helper[p].saved
                 /\ h.at \in 1..Len(Program(h.program))
                 /\ \/ h.program = "recover"
                    \/ h.at = helper[p].at + 1
    <2>1. CASE helper' = [helper EXCEPT ![p] = NoHelper]
      BY <2>1, NoHelperTyped, Zenon
    <2>2. CASE Step(p)[1] = "check" /\ helper' = [helper EXCEPT ![p].at = 7]
      <3> DEFINE r == [helper[p] EXCEPT !.at = 7]
      <3>1. helper[p].program = "recover"
        BY <1>0, <2>2, CheckStep
      <3>2. /\ r \in Helpers /\ r.program = "recover" /\ r.saved = helper[p].saved /\ r.at = 7
        BY <1>a, <3>1 DEF Helpers
      <3>3. helper' = [helper EXCEPT ![p] = r]
        BY <2>2
      <3>4. 7 \in 1..Len(Program("recover"))
        <4>1. Program("recover") = RecoverProgram
          BY DEF Program
        <4>2. Len(RecoverProgram) = 8
          BY RecoverSteps
        <4> QED BY <4>1, <4>2, 7 \in 1..8, Zenon
      <3> HIDE DEF r
      <3> QED BY <3>1, <3>2, <3>3, <3>4, Zenon
    <2>3. CASE /\ helper[p].at < Len(Program(helper[p].program))
               /\ helper' = [helper EXCEPT ![p].at = @ + 1]
      <3> DEFINE r == [helper[p] EXCEPT !.at = @ + 1]
      <3>1. /\ r \in Helpers /\ r.program = helper[p].program /\ r.saved = helper[p].saved
            /\ r.at = helper[p].at + 1
        BY <1>a DEF Helpers
      <3>2. helper' = [helper EXCEPT ![p] = r]
        BY <2>3
      <3>3. helper[p].at + 1 \in 1..Len(Program(helper[p].program))
        BY <1>a, <2>3
      <3> HIDE DEF r
      <3> QED BY <3>1, <3>2, <3>3, Zenon
    <2> QED BY <2>1, <2>2, <2>3, Zenon DEF Command, Advance, Exit
  <1>3. ASSUME overlap = FALSE
        PROVE  /\ journal'.saved = Baseline /\ h.saved = Baseline
               /\ journal' = NoJournal => modem' = Baseline
               /\ journal' = NoJournal => h.program = "none"
               /\ journal' = NoJournal => \A q \in Slots \ {p} : ~Running(q)
               /\ h.program = "restore" => PutBack(modem', h.at - 1)
               /\ \A q \in Slots \ {p} : helper[q].program # "restore"
               /\ \A q \in Slots \ {p} : Running(q) /\ h.program # "none" =>
                    h.program = "recover" /\ helper[q].program = "recover"
    <2>0. Calm
      BY <1>3 DEF Core
    <2>1. \A q \in Slots \ {p} : Running(q) =>
             helper[p].program = "recover" /\ helper[q].program = "recover"
      BY <1>0, <2>0, Zenon DEF Calm
    <2>2. \A q \in Slots \ {p} : helper[q].program # "restore"
      BY <2>1 DEF Running
    <2>3. /\ journal'.saved = Baseline
          /\ journal' = NoJournal => /\ helper[p].program = "restore" /\ modem' = Baseline
                                     /\ helper[p].at = Len(RestoreProgram)
      BY <1>0, <2>0, CalmFile, Zenon DEF Core, Helpers, Running
    <2>4. journal' = NoJournal => h.program = "none"
      BY <1>2, <1>a, <2>3 DEF Program
    <2>5. h.saved = Baseline
      BY <1>2, <2>0 DEF Calm
    <2>6. ASSUME h.program = "restore" PROVE PutBack(modem', h.at - 1)
      <3>1. helper[p].program = "restore" /\ h.at - 1 = helper[p].at
        BY <1>2, <1>a, <2>6 DEF Helpers
      <3>2. ASSUME NEW i \in 1..helper[p].at, NEW k \in Settings, RestoreProgram[i] = <<"put", k>>
            PROVE  modem'[k] = Baseline[k]
        BY <1>0, <2>0, <3>1, <3>2, RestoreEffect
      <3> QED BY <3>1, <3>2 DEF PutBack
    <2> QED BY <1>2, <2>1, <2>2, <2>3, <2>4, <2>5, <2>6
  <1> QED BY <1>0, <1>1, <1>2, <1>3, Replaced, Zenon

\* the modem reboots by itself: what it loses had the value it boots with
LEMMA ResetCore ==
    ASSUME Core, modem' = [k \in Settings |-> IF k \in Volatile THEN "base" ELSE modem[k]],
           UNCHANGED <<journal, helper, overlap>>
    PROVE  Core'
  <1>1. /\ modem' \in [Settings -> Values]
        /\ \A k \in Settings : modem[k] = Baseline[k] => modem'[k] = Baseline[k]
    BY BaselineTyped DEF Core, Values
  <1>2. ASSUME overlap = FALSE PROVE Calm'
    <2>1. Calm
      BY <1>2 DEF Core
    <2>2. journal = NoJournal => modem' = Baseline
      BY <1>1, <2>1, BaselineTyped DEF Calm
    <2>3. \A p \in Slots : helper[p].program = "restore" => PutBack(modem', helper[p].at - 1)
      BY <1>1, <2>1 DEF Calm, PutBack
    <2> QED BY <2>1, <2>2, <2>3 DEF Calm, Running, NoJournal
  <1> QED BY <1>1, <1>2, Zenon DEF Core, Running

\* steps of the daemon alone
LEMMA SameCore ==
    ASSUME Core, UNCHANGED <<modem, journal, helper, overlap>>
    PROVE  Core'
  BY DEF Core, Calm, Running, NoJournal

\* the journal holds the settings of before voice mode
LEMMA JournalSaved ==
    ASSUME Core
    PROVE  journal.saved \in [Settings -> Values] /\ (overlap = FALSE => journal.saved = Baseline)
  BY DEF Core, Calm, Journals

\* enable starts: the modem without a journal is as it was before voice mode
LEMMA StartEnableCore ==
    ASSUME Core, ~Running("child"), UNCHANGED files, StartEnable
    PROVE  Core'
  <1>1. CASE journal.phase = "enabled" /\ Launch("child", "recover", journal.saved)
    <2>1. journal # NoJournal
      BY <1>1 DEF NoJournal
    <2> QED BY <1>1, <2>1, JournalSaved, Launched, Zenon DEF Slots
  <1>2. CASE Answer(FALSE)
    BY <1>2, SameCore DEF Answer, files
  <1>3. CASE journal = NoJournal /\ Launch("child", "enable", modem)
    <2>1. modem \in [Settings -> Values] /\ (overlap = FALSE => modem = Baseline)
      BY <1>3 DEF Core, Calm
    <2> QED BY <1>3, <2>1, Launched, Zenon DEF Slots
  <1> QED BY <1>1, <1>2, <1>3, Zenon DEF StartEnable

\* disable and an undone activation start a restore only when there is a journal
LEMMA StartDisableCore ==
    ASSUME Core, ~Running("child"), UNCHANGED files, StartDisable
    PROVE  Core'
  <1>1. CASE Answer(TRUE)
    BY <1>1, SameCore DEF Answer, files
  <1>2. CASE journal # NoJournal /\ Launch("child", "restore", journal.saved)
    BY <1>2, JournalSaved, Launched, Zenon DEF Slots
  <1> QED BY <1>1, <1>2, Zenon DEF StartDisable

\* recovery before a call or after USB enumeration starts only with a journal
LEMMA StartRecoverCore ==
    ASSUME Core, NEW p \in Slots, ~Running(p), UNCHANGED files, StartRecover(p)
    PROVE  Core'
  <1>1. CASE Answer(IF p = "child" THEN TRUE ELSE result)
    BY <1>1, SameCore DEF Answer, files
  <1>2. CASE journal # NoJournal /\ Launch(p, "recover", journal.saved)
    BY <1>2, JournalSaved, Launched, Zenon
  <1>3. CASE journal # NoJournal /\ Launch(p, "restore", journal.saved)
    BY <1>3, JournalSaved, Launched, Zenon
  <1> QED BY <1>1, <1>2, <1>3, Zenon DEF StartRecover

\* the daemon dies, and its helper dies too or goes on in the background
LEMMA ChildLeftCore ==
    ASSUME Core, ChildLeft
    PROVE  Core'
  <1>0. modem' = modem /\ journal' = journal /\ overlap' = overlap
    BY DEF ChildLeft, files
  <1>1. CASE helper' = [helper EXCEPT !["child"] = NoHelper]
    BY <1>0, <1>1, Stopped DEF files, Slots
  <1>2. CASE /\ Running("child") /\ ~Running("back")
             /\ helper' = [helper EXCEPT !["child"] = NoHelper, !["back"] = helper["child"]]
    <2>1. /\ helper' \in [Slots -> Helpers]
          /\ helper'["child"] = NoHelper /\ helper'["back"] = helper["child"]
      BY <1>2, NoHelperTyped DEF Core, Slots
    <2>2. \A q \in Slots : Running(q)' => helper'[q].at \in 1..Len(Program(helper'[q].program))
      BY <2>1, NoHelperTyped DEF Core, Running, Slots
    <2>3. ASSUME overlap = FALSE PROVE Calm'
      <3>1. Calm
        BY <2>3 DEF Core
      <3>2. \A q \in Slots : helper'[q].saved = Baseline
        BY <2>1, <3>1, NoHelperTyped DEF Calm, Slots
      <3>3. \A q \in Slots : Running(q)' /\ journal' = NoJournal =>
               helper'[q].program = "enable" /\ helper'[q].at = 1
        BY <1>0, <2>1, <3>1, NoHelperTyped DEF Calm, Slots, Running
      <3>4. \A q \in Slots : helper'[q].program = "restore" => PutBack(modem', helper'[q].at - 1)
        BY <1>0, <2>1, <3>1, NoHelperTyped DEF Calm, Slots
      <3>5. \A p, q \in Slots : Running(p)' /\ Running(q)' => p = q
        BY <2>1, NoHelperTyped DEF Slots, Running
      <3>6. journal'.saved = Baseline /\ (journal' = NoJournal => modem' = Baseline)
        BY <1>0, <3>1 DEF Calm
      <3> QED BY <3>2, <3>3, <3>4, <3>5, <3>6 DEF Calm, NoJournal
    <2> QED BY <1>0, <2>1, <2>2, <2>3, Zenon DEF Core
  <1> QED BY <1>1, <1>2 DEF ChildLeft
-------------------------------------------------------------------------------
(* The invariant                                                           *)

\* every step keeps what is said of the modem, the journal and the helpers
LEMMA NextCore ==
    ASSUME Inv, Next
    PROVE  Core'
  <1>0. Core /\ (pc \in {"idle", "calling"} => ~Running("child"))
    BY DEF Inv
  <1>1. ASSUME NEW p \in Slots, Command(p) PROVE Core'
    BY <1>0, <1>1, CommandCore
  <1>2. ASSUME NEW p \in Slots, CommandFails(p) PROVE Core'
    <2>1. Running(p) /\ GiveUp(p) /\ overlap' = overlap /\ Step(p)[1] # "delete"
      BY <1>2 DEF CommandFails
    <2>2. \/ modem' = modem /\ journal' = journal
          \/ modem' = Effect(p) /\ journal' = File(p)
      BY <1>2 DEF CommandFails, files
    <2> QED BY <1>0, <2>1, <2>2, GivenUp
  <1>3. CASE ModemReset
    BY <1>0, <1>3, ResetCore DEF ModemReset
  <1>4. CASE Hotplug
    <2>1. CASE ~Running("back") /\ StartRecover("back")
      BY <1>0, <1>4, <2>1, StartRecoverCore DEF Hotplug, Slots, files
    <2>2. CASE UNCHANGED <<helper, overlap>>
      BY <1>0, <1>4, <2>2, SameCore DEF Hotplug, files
    <2> QED BY <1>4, <2>1, <2>2 DEF Hotplug
  <1>5. CASE ActivationTimer \/ EnableMethod
    <2>1. UNCHANGED files /\ ~Running("child")
      BY <1>0, <1>5 DEF ActivationTimer, EnableMethod
    <2>2. StartEnable \/ UNCHANGED <<helper, overlap>>
      BY <1>5, Zenon DEF ActivationTimer, EnableMethod, Activate
    <2>3. CASE StartEnable
      BY <1>0, <2>1, <2>3, StartEnableCore
    <2>4. CASE UNCHANGED <<helper, overlap>>
      BY <1>0, <2>1, <2>4, SameCore DEF files
    <2> QED BY <2>2, <2>3, <2>4
  <1>6. CASE EnableReturns \/ DisableMethod
    <2>1. UNCHANGED files /\ ~Running("child")
      BY <1>0, <1>6, Zenon DEF EnableReturns, DisableMethod
    <2>2. StartDisable \/ UNCHANGED <<helper, overlap>>
      BY <1>6, Zenon DEF EnableReturns, DisableMethod
    <2>3. CASE StartDisable
      BY <1>0, <2>1, <2>3, StartDisableCore
    <2>4. CASE UNCHANGED <<helper, overlap>>
      BY <1>0, <2>1, <2>4, SameCore DEF files
    <2> QED BY <2>2, <2>3, <2>4
  <1>7. CASE PrepareCall
    <2>1. UNCHANGED files /\ ~Running("child") /\ StartRecover("child")
      BY <1>0, <1>7 DEF PrepareCall
    <2> QED BY <1>0, <2>1, StartRecoverCore DEF Slots
  <1>8. CASE UndoReturns \/ DisableReturns \/ RecoverReturns \/ Called \/ RestartTimer
    <2>1. UNCHANGED <<modem, journal, helper, overlap>>
      BY <1>8, Zenon DEF UndoReturns, DisableReturns, RecoverReturns, Called, RestartTimer, files, history
    <2> QED BY <1>0, <2>1, SameCore
  <1>9. CASE Arm
    <2>1. UNCHANGED files /\ ~Running("back") /\ Launch("back", "arm", journal.saved)
      BY <1>9 DEF Arm
    <2>2. journal # NoJournal
      BY <1>9 DEF Arm, NoJournal
    <2> QED BY <1>0, <2>1, <2>2, JournalSaved, Launched, Zenon DEF Slots
  <1>10. CASE Crash \/ ReloadService
    BY <1>0, <1>10, ChildLeftCore DEF Crash, ReloadService
  <1> QED BY <1>1, <1>2, <1>3, <1>4, <1>5, <1>6, <1>7, <1>8, <1>9, <1>10 DEF Next

\* the daemon handles nothing else while a helper of its own runs
LEMMA NextWaits ==
    ASSUME Inv, Next
    PROVE  pc' \in {"idle", "calling"} => ~Running("child")'
  <1>0. Core /\ (pc \in {"idle", "calling"} => ~Running("child"))
    BY DEF Inv
  <1>a. helper \in [Slots -> Helpers] /\ "child" \in Slots /\ "back" \in Slots
    BY <1>0 DEF Core, Slots
  <1>1. ASSUME NEW p \in Slots, Command(p) \/ CommandFails(p)
        PROVE  pc' = pc /\ (~Running("child") => ~Running("child")')
    <2>1. pc' = pc /\ Running(p)
      BY <1>1, Zenon DEF Command, CommandFails, daemon
    <2>2. p # "child" => helper'["child"] = helper["child"]
      BY <1>1, <1>a DEF Command, CommandFails, GiveUp, Advance, Exit
    <2> QED BY <2>1, <2>2 DEF Running
  <1>2. CASE ModemReset \/ Hotplug \/ Arm
    <2>1. pc' = pc
      BY <1>2 DEF ModemReset, Hotplug, Arm, daemon
    <2>2. helper'["child"] = helper["child"]
      BY <1>2, <1>a, Zenon DEF ModemReset, Hotplug, Arm, StartRecover, Answer, Launch
    <2> QED BY <1>0, <2>1, <2>2 DEF Running
  <1>3. CASE ActivationTimer \/ EnableMethod
    <2>1. pc' \in {"idle", "calling"} => helper' = helper
      BY <1>3, Zenon DEF ActivationTimer, EnableMethod, Activate
    <2> QED BY <1>0, <1>3, <2>1, Zenon DEF Running, ActivationTimer, EnableMethod
  <1>4. CASE EnableReturns \/ DisableMethod
    <2>1. pc' \in {"idle", "calling"} => helper' = helper
      BY <1>4, Zenon DEF EnableReturns, DisableMethod
    <2> QED BY <1>0, <1>4, <2>1, Zenon DEF Running, EnableReturns, DisableMethod
  <1>5. CASE PrepareCall
    BY <1>5 DEF PrepareCall
  <1>6. CASE UndoReturns \/ DisableReturns \/ RecoverReturns
    BY <1>6, Zenon DEF UndoReturns, DisableReturns, RecoverReturns, Running
  <1>7. CASE Called \/ RestartTimer
    BY <1>0, <1>7 DEF Called, RestartTimer, Running
  <1>8. CASE Crash \/ ReloadService
    <2>1. helper'["child"] = NoHelper
      BY <1>8, <1>a DEF Crash, ReloadService, ChildLeft
    <2> QED BY <2>1, NoHelperTyped DEF Running
  <1> QED BY <1>0, <1>1, <1>2, <1>3, <1>4, <1>5, <1>6, <1>7, <1>8 DEF Next

\* before voice mode was ever enabled there is no journal and no helper
LEMMA InitInv == Init => Inv
  <1> SUFFICES ASSUME Init PROVE Inv
    OBVIOUS
  <1>1. /\ modem = Baseline /\ journal = NoJournal /\ overlap = FALSE
        /\ helper = [p \in Slots |-> NoHelper]
    BY DEF Init
  <1>2. \A p \in Slots : helper[p] = NoHelper /\ ~Running(p)
    BY <1>1, NoHelperTyped DEF Running
  <1>3. NoJournal \in Journals /\ NoJournal.saved = Baseline
    BY BaselineTyped DEF NoJournal, Journals
  <1>4. Calm
    BY <1>1, <1>2, <1>3, NoHelperTyped DEF Calm
  <1>5. Core
    BY <1>1, <1>2, <1>3, <1>4, NoHelperTyped, BaselineTyped, Zenon DEF Core
  <1> QED BY <1>2, <1>5 DEF Inv, Slots

\* the invariant is inductive
LEMMA NextInv == Inv /\ [Next]_vars => Inv'
  <1>1. ASSUME Inv, Next PROVE Inv'
    BY <1>1, NextCore, NextWaits DEF Inv
  <1>2. ASSUME Inv, UNCHANGED vars PROVE Inv'
    <2>1. UNCHANGED <<modem, journal, helper, overlap, pc>>
      BY <1>2 DEF vars, files, daemon, history
    <2> QED BY <1>2, <2>1, SameCore DEF Inv, Running
  <1> QED BY <1>1, <1>2

\* Whatever command fails, whenever the daemon, its helper or the modem restarts, the
\* journal of voice mode keeps the settings of before voice mode, as long as no two
\* helpers overlap other than two recoveries: for every media method, number of
\* attempts, requests and troubles.
THEOREM JournalKeepsBaseline == Spec => []BaselineKept
  <1>1. Inv => BaselineKept
    BY DEF Inv, Core, Calm, BaselineKept
  <1> QED BY <1>1, InitInv, NextInv, PTL DEF Spec

\* Once the journal is gone and no helper runs, the modem is as it was before voice mode
\* (restore removes the journal last), under the same condition.
THEOREM RestoredWithoutJournal == Spec => []NoTraceWithoutJournal
  <1>1. Inv => NoTraceWithoutJournal
    BY DEF Inv, Core, Calm, NoTraceWithoutJournal
  <1> QED BY <1>1, InitInv, NextInv, PTL DEF Spec
-------------------------------------------------------------------------------
(* Voice mode on the modem while the journal says "enabled"                *)

\* the settings voice mode needs that outlast a reboot of the modem
Lasting == Needed \ Volatile

\* what the first n commands of enable have set is set
SetSoFar(m, n) ==
    \A i \in 1..n, k \in Lasting : EnableProgram[i] = <<"set", k>> => m[k] = "voip"

\* an enabled journal that nobody takes back means that voice mode is set
Settled ==
    journal.phase = "enabled" /\ (\A p \in Slots : helper[p].program # "restore") =>
        \A k \in Lasting : modem[k] = "voip"
Setting == \A p \in Slots : helper[p].program = "enable" => SetSoFar(modem, helper[p].at - 1)

\* the recovery before a call has succeeded
Recovered == pc = "calling" \/ (pc = "recover" /\ ~Running("child") /\ result = TRUE)
Forwarded == Recovered /\ disturbed = FALSE => \A k \in Needed : modem[k] = "voip"

\* a recovery before a call is the only helper, unless that is noted
Alone ==
    /\ pc = "recover" => helper["child"].program \in {"none", "recover"}
    /\ pc = "recover" /\ disturbed = FALSE /\ Running("child") => journal.phase = "enabled"
    /\ pc \in {"recover", "calling"} /\ disturbed = FALSE => ~Running("back")

\* The inductive invariant of CallHasVoice, together with Inv
VoiceInv ==
    /\ cut \in BOOLEAN /\ disturbed \in BOOLEAN /\ result \in BOOLEAN /\ Alone
    /\ overlap = FALSE /\ cut = FALSE => Settled /\ Setting /\ Forwarded

\* enable sets all that lasts before it writes "enabled", and that is its last command
LEMMA EnableSets ==
    /\ \A k \in Lasting : \E i \in 1..(Len(EnableProgram) - 1) : EnableProgram[i] = <<"set", k>>
    /\ \A i \in 1..Len(EnableProgram) :
          EnableProgram[i] = <<"write", "enabled">> => i = Len(EnableProgram)
  <1> USE DEF EnableProgram, OnlyIf, Serial, Lasting, Needed, Settings, Volatile
  <1>1. CASE Method = "pcm_socket"
    BY <1>1
  <1>2. CASE Method = "uac"
    <2>1. /\ Lasting = {"ims", "voice", "gps", "usb"} /\ Len(EnableProgram) = 20
          /\ EnableProgram[2] = <<"set", "ims">> /\ EnableProgram[4] = <<"set", "voice">>
          /\ EnableProgram[9] = <<"set", "gps">> /\ EnableProgram[11] = <<"set", "usb">>
      BY <1>2
    <2>2. \A i \in 1..20 : EnableProgram[i] = <<"write", "enabled">> => i = 20
      BY <1>2
    <2> HIDE DEF EnableProgram, Lasting
    <2> QED BY <2>1, <2>2
  <1>3. CASE Method = "serial_pcm"
    BY <1>3
  <1> QED BY <1>1, <1>2, <1>3, MethodAssumption, Zenon

\* restore ends with the removal of the journal, recover with the forwarding of audio
LEMMA LastSteps ==
    /\ RestoreProgram[Len(RestoreProgram)][1] = "delete"
    /\ RecoverProgram[8][1] = IF Method = "pcm_socket" THEN "skip" ELSE "forward"
    /\ \A i \in 1..8 : RecoverProgram[i][1] # "armed"
    /\ \A i \in 1..Len(EnableProgram) : EnableProgram[i][1] # "armed"
    /\ \A i \in 1..Len(RestoreProgram) : RestoreProgram[i][1] # "armed"
  <1> USE DEF RestoreProgram, RecoverProgram, EnableProgram, OnlyIf, Serial
  <1>1. CASE Method = "pcm_socket"
    BY <1>1
  <1>2. CASE Method = "uac"
    BY <1>2
  <1>3. CASE Method = "serial_pcm"
    BY <1>3
  <1> QED BY <1>1, <1>2, <1>3, MethodAssumption, Zenon

\* what a call needs is what lasts and the forwarding of audio
LEMMA NeededSettings ==
    /\ Needed \subseteq Settings /\ Lasting \subseteq Settings /\ Lasting \cap Volatile = {}
    /\ Needed \subseteq Lasting \cup Volatile
    /\ Method = "pcm_socket" => Needed = {}
    /\ "audio" \in Needed => Serial
  BY MethodAssumption DEF Needed, Lasting, Settings, Volatile, Serial

\* only restore takes back what lasts
LEMMA VoiceKept ==
    ASSUME Core, NEW p \in Slots, Running(p), helper[p].program # "restore",
           NEW k \in Lasting, modem[k] = "voip"
    PROVE  Effect(p)[k] = "voip"
  <1>0. k \in Settings /\ k \notin Volatile /\ k # "pcm" /\ k # "audio" /\ modem \in [Settings -> Values]
    BY NeededSettings DEF Core, Volatile
  <1>1. CASE Step(p)[1] \in {"find", "skip", "check", "armed"}
    BY <1>1 DEF Effect
  <1>2. CASE Step(p)[1] = "boot"
    BY <1>0, <1>2 DEF Effect
  <1>3. CASE Step(p)[1] = "forward"
    BY <1>0, <1>3 DEF Effect
  <1>4. CASE Step(p)[1] = "zero"
    BY <1>0, <1>4 DEF Effect
  <1>5. ASSUME NEW l \in Touched, Step(p) = <<"set", l>> PROVE Effect(p)[k] = "voip"
    <2>1. Effect(p) = [modem EXCEPT ![l] = "voip"]
      BY <1>5 DEF Effect
    <2> QED BY <1>0, <2>1
  <1>6. ASSUME NEW l \in Phases, Step(p) = <<"write", l>> PROVE Effect(p)[k] = "voip"
    BY <1>6 DEF Effect
  <1> QED BY <1>1, <1>2, <1>3, <1>4, <1>5, <1>6, StepKinds, Zenon

\* where a helper is after a command that succeeded
LEMMA CommandMoves ==
    ASSUME Core, NEW p \in Slots, Command(p)
    PROVE  /\ \A q \in Slots \ {p} : helper'[q] = helper[q]
           /\ \/ /\ helper'[p].program = "none"
                 /\ Step(p)[1] = "armed" \/ helper[p].at = Len(Program(helper[p].program))
              \/ /\ helper'[p].program = helper[p].program
                 /\ helper'[p].at = helper[p].at + 1 \/ helper[p].program = "recover"
  <1>1. /\ helper \in [Slots -> Helpers] /\ helper[p] \in Helpers /\ Running(p)
        /\ helper[p].at \in 1..Len(Program(helper[p].program))
    BY DEF Core, Command
  <1>2. CASE Step(p)[1] = "check" /\ helper' = [helper EXCEPT ![p].at = 7]
    <2>1. helper[p].program = "recover"
      BY <1>1, <1>2, CheckStep
    <2> QED BY <1>1, <1>2, <2>1 DEF Helpers
  <1>3. CASE Step(p)[1] = "armed" /\ helper' = [helper EXCEPT ![p] = NoHelper]
    BY <1>1, <1>3, NoHelperTyped
  <1>4. CASE helper' = [helper EXCEPT ![p].at = @ + 1]
    BY <1>1, <1>4 DEF Helpers
  <1>5. CASE /\ ~(helper[p].at < Len(Program(helper[p].program)))
             /\ helper' = [helper EXCEPT ![p] = NoHelper]
    <2>1. Len(Program(helper[p].program)) \in Nat
      <3>1. helper[p].program \in {"enable", "restore", "recover", "arm"}
        BY <1>1 DEF Helpers, Running
      <3> QED BY <3>1, EnableSteps, RestoreSteps, RecoverSteps, ArmSteps DEF Program
    <2>2. helper[p].at = Len(Program(helper[p].program))
      BY <1>1, <1>5, <2>1
    <2> QED BY <1>1, <1>5, <2>2, NoHelperTyped
  <1> QED BY <1>2, <1>3, <1>4, <1>5, Zenon DEF Command, Advance, Exit

\* where it is after one that failed
LEMMA FailureMoves ==
    ASSUME Core, NEW p \in Slots, GiveUp(p)
    PROVE  /\ \A q \in Slots \ {p} : helper'[q] = helper[q]
           /\ \/ /\ helper'[p].program = "none" /\ (p = "child" => result' = FALSE)
                 /\ helper[p].program = "enable" /\ helper[p].at > 1 => journal = NoJournal
              \/ /\ helper'[p].program = "restore" /\ helper[p].program = "enable"
                 /\ helper[p].at > 1
  <1>1. helper \in [Slots -> Helpers]
    BY DEF Core
  <1>2. CASE helper[p].program = "enable" /\ helper[p].at > 1 /\ journal # NoJournal
    <2>1. helper' = [helper EXCEPT ![p] = [program |-> "restore", at |-> 1,
                                           saved |-> journal.saved, undo |-> TRUE]]
      BY <1>2, Zenon DEF GiveUp
    <2>2. helper'[p].program = "restore" /\ \A q \in Slots \ {p} : helper'[q] = helper[q]
      BY <1>1, <2>1
    <2> QED BY <1>2, <2>2
  <1>3. CASE ~(helper[p].program = "enable" /\ helper[p].at > 1 /\ journal # NoJournal)
    BY <1>1, <1>3, NoHelperTyped, Zenon DEF GiveUp, Exit
  <1> QED BY <1>2, <1>3, Zenon

\* a helper other than a recovery is the only one
LEMMA OnlyHelper ==
    ASSUME Core, overlap = FALSE, NEW p \in Slots, Running(p), NEW q \in Slots \ {p}, Running(q)
    PROVE  helper[p].program = "recover" /\ helper[q].program = "recover"
  BY DEF Core, Calm

\* a command that succeeds: enable comes to "enabled" with all set, restore ends without
\* a journal, and recover and arm take nothing back
LEMMA CommandSettled ==
    ASSUME Core, overlap = FALSE, Settled, Setting, NEW p \in Slots, Command(p)
    PROVE  Settled' /\ Setting'
  <1>1. /\ Running(p) /\ modem' = Effect(p) /\ journal' = File(p) /\ Calm
        /\ helper[p].at \in 1..Len(Program(helper[p].program)) /\ helper[p].at \in Nat
        /\ Step(p) = Program(helper[p].program)[helper[p].at]
    BY DEF Core, Command, Helpers, Step
  <1>2. /\ \A q \in Slots \ {p} : helper'[q] = helper[q]
        /\ \/ /\ helper'[p].program = "none"
              /\ Step(p)[1] = "armed" \/ helper[p].at = Len(Program(helper[p].program))
           \/ /\ helper'[p].program = helper[p].program
              /\ helper'[p].at = helper[p].at + 1 \/ helper[p].program = "recover"
    BY CommandMoves
  <1>3. CASE helper[p].program = "enable"
    <2>1. \A q \in Slots \ {p} : helper'[q].program = "none"
      BY <1>1, <1>2, <1>3, OnlyHelper, Zenon DEF Running
    <2>2. SetSoFar(modem', helper[p].at)
      <3> SUFFICES ASSUME NEW i \in 1..helper[p].at, NEW k \in Lasting,
                          EnableProgram[i] = <<"set", k>>
                   PROVE  modem'[k] = "voip"
        BY DEF SetSoFar
      <3>1. CASE i = helper[p].at
        <4>1. Step(p) = <<"set", k>>
          BY <1>1, <1>3, <3>1 DEF Program
        <4>2. Effect(p) = [modem EXCEPT ![k] = "voip"]
          BY <4>1 DEF Effect
        <4> QED BY <1>1, <4>2, NeededSettings, Zenon DEF Core
      <3>2. CASE i # helper[p].at
        <4>1. i \in 1..(helper[p].at - 1)
          BY <1>1, <3>2
        <4>2. modem[k] = "voip"
          BY <1>3, <4>1 DEF Setting, SetSoFar
        <4> QED BY <1>1, <1>3, <4>2, VoiceKept, Zenon
      <3> QED BY <3>1, <3>2
    <2>3. Setting'
      <3>1. helper'[p].program = "enable" => helper'[p].at - 1 = helper[p].at
        BY <1>1, <1>2, <1>3
      <3>2. \A q \in Slots : helper'[q].program = "enable" => SetSoFar(modem', helper'[q].at - 1)
        BY <2>1, <2>2, <3>1, Zenon
      <3> QED BY <3>2, Zenon DEF Setting, SetSoFar
    <2>4. ASSUME journal'.phase = "enabled" PROVE \A k \in Lasting : modem'[k] = "voip"
      <3>1. CASE journal.phase = "enabled"
        <4>1. \A q \in Slots : helper[q].program # "restore"
          BY <1>2, <1>3, <2>1, Zenon
        <4> QED BY <1>1, <1>3, <3>1, <4>1, VoiceKept, Zenon DEF Settled
      <3>2. CASE journal.phase # "enabled"
        <4>1. PICK f \in Phases : Step(p) = <<"write", f>>
          BY <1>1, <1>3, <2>4, <3>2, StepKinds DEF File
        <4>2. File(p) = [phase |-> f, saved |-> helper[p].saved]
          BY <4>1 DEF File
        <4>3. Step(p) = <<"write", "enabled">>
          BY <1>1, <2>4, <4>1, <4>2
        <4>4. helper[p].at = Len(EnableProgram)
          BY <1>1, <1>3, <4>3, EnableSets DEF Program
        <4>5. SetSoFar(modem, Len(EnableProgram) - 1) /\ modem' = modem
          BY <1>1, <1>3, <4>3, <4>4 DEF Setting, Effect
        <4> QED BY <4>5, EnableSets, Zenon DEF SetSoFar
      <3> QED BY <3>1, <3>2
    <2> QED BY <2>3, <2>4 DEF Settled
  <1>4. CASE helper[p].program = "restore"
    <2>1. \A q \in Slots \ {p} : helper'[q].program = "none"
      BY <1>1, <1>2, <1>4, OnlyHelper, Zenon DEF Running
    <2>2. helper'[p].program = "none" => journal'.phase = "none"
      <3>1. Program("restore") = RestoreProgram
        BY DEF Program
      <3>2. Step(p)[1] # "armed"
        BY <1>1, <1>4, <3>1, LastSteps, Zenon
      <3>3. helper'[p].program = "none" => Step(p)[1] = "delete"
        BY <1>1, <1>2, <1>4, <3>1, <3>2, LastSteps, Zenon
      <3>4. Step(p)[1] = "delete" => File(p).phase = "none"
        BY DEF File, NoJournal
      <3> QED BY <1>1, <3>3, <3>4, Zenon
    <2>3. helper'[p].program # "none" => helper'[p].program = "restore"
      BY <1>2, <1>4, Zenon
    <2> QED BY <2>1, <2>2, <2>3, Zenon DEF Settled, Setting
  <1>5. CASE helper[p].program \in {"recover", "arm"}
    <2>1. journal' = journal
      BY <1>1, <1>5, CalmFile, Zenon
    <2>2. \A q \in Slots : helper'[q].program \in {"none", helper[q].program}
      BY <1>2, Zenon
    <2>3. \A q \in Slots : helper'[q].program # "enable"
      BY <1>1, <1>2, <1>5, OnlyHelper, Zenon DEF Running
    <2>4. (\A q \in Slots : helper'[q].program # "restore") =>
             \A q \in Slots : helper[q].program # "restore"
      BY <1>2, <1>5, Zenon
    <2>5. \A k \in Lasting : modem[k] = "voip" => modem'[k] = "voip"
      BY <1>1, <1>5, VoiceKept, Zenon
    <2> QED BY <2>1, <2>3, <2>4, <2>5, Zenon DEF Settled, Setting
  <1> QED BY <1>1, <1>3, <1>4, <1>5 DEF Core, Helpers, Running

\* a command that fails: enable turns to restore, and a restore that fails is noted
LEMMA FailureSettled ==
    ASSUME Core, overlap = FALSE, Settled, Setting, NEW p \in Slots, CommandFails(p),
           cut' = FALSE
    PROVE  Settled' /\ Setting'
  <1>1. /\ Running(p) /\ GiveUp(p) /\ Calm /\ Step(p)[1] # "delete"
        /\ ~(helper[p].program = "restore" /\ journal.phase = "enabled")
        /\ \/ modem' = Effect(p) /\ journal' = File(p)
           \/ modem' = modem /\ journal' = journal
    BY Zenon DEF Core, CommandFails, files
  <1>2. /\ \A q \in Slots \ {p} : helper'[q] = helper[q]
        /\ \/ /\ helper'[p].program = "none"
              /\ helper[p].program = "enable" /\ helper[p].at > 1 => journal = NoJournal
           \/ /\ helper'[p].program = "restore" /\ helper[p].program = "enable"
              /\ helper[p].at > 1
    BY <1>1, FailureMoves, Zenon
  <1>3. \A q \in Slots : helper'[q].program # "enable"
    BY <1>1, <1>2, OnlyHelper, Zenon DEF Running
  <1>4. Setting'
    BY <1>3 DEF Setting
  <1>5. ASSUME journal'.phase = "enabled", \A q \in Slots : helper'[q].program # "restore"
        PROVE  \A k \in Lasting : modem'[k] = "voip"
    <2>1. helper'[p].program = "none"
      BY <1>2, <1>5, Zenon
    <2>2. CASE helper[p].program = "restore"
      <3>1. File(p) = journal
        BY <1>1, <2>2, CalmFile, Zenon
      <3> QED BY <1>1, <1>5, <2>2, <3>1, Zenon
    <2>3. CASE helper[p].program \in {"recover", "arm"}
      <3>1. journal.phase = "enabled" /\ \A q \in Slots : helper[q].program # "restore"
        BY <1>1, <1>2, <1>5, <2>3, CalmFile, Zenon
      <3> QED BY <1>1, <2>3, <3>1, VoiceKept, Zenon DEF Settled
    <2>4. CASE helper[p].program = "enable"
      <3>1. \A q \in Slots : helper[q].program # "restore"
        BY <1>2, <1>5, <2>4
      <3>2. CASE journal.phase = "enabled"
        BY <1>1, <2>4, <3>1, <3>2, VoiceKept, Zenon DEF Settled
      <3>3. CASE journal.phase # "enabled"
        <4>1. helper[p].at = 1
          <5>1. helper[p].at \in Nat \ {0}
            BY <1>1 DEF Core, Helpers
          <5>2. helper[p].at > 1 => journal # NoJournal
            BY <1>1, <2>4 DEF Calm
          <5> QED BY <1>2, <2>1, <2>4, <5>1, <5>2
        <4>2. PICK f \in Phases : Step(p) = <<"write", f>>
          BY <1>1, <1>5, <2>4, <3>3, StepKinds DEF File
        <4>3. File(p) = [phase |-> f, saved |-> helper[p].saved]
          BY <4>2 DEF File
        <4>4. Step(p) = <<"write", "enabled">> /\ Step(p) = EnableProgram[1]
          BY <1>1, <1>5, <2>4, <3>3, <4>1, <4>2, <4>3 DEF Step, Program
        <4>5. Method = "pcm_socket"
          BY <4>4 DEF EnableProgram
        <4> QED BY <4>5, NeededSettings DEF Lasting
      <3> QED BY <3>2, <3>3
    <2> QED BY <1>1, <2>2, <2>3, <2>4 DEF Core, Helpers, Running
  <1> QED BY <1>4, <1>5 DEF Settled

\* the last command of a recovery before a call forwards the audio
LEMMA CommandForwarded ==
    ASSUME Inv, Alone, Settled, Forwarded, NEW p \in Slots, Command(p)
    PROVE  Forwarded'
  <1>1. /\ Core /\ Running(p) /\ modem' = Effect(p) /\ pc' = pc /\ disturbed' = disturbed
        /\ pc = "calling" => ~Running("child")
    BY DEF Inv, Command, daemon, history
  <1> SUFFICES ASSUME Recovered', disturbed = FALSE PROVE \A k \in Needed : modem'[k] = "voip"
    BY <1>1, Zenon DEF Forwarded, Needed, Serial, Settings
  <1>2. pc = "recover" /\ p = "child" /\ helper'["child"].program = "none"
    <2>1. pc \in {"recover", "calling"}
      BY <1>1 DEF Recovered
    <2>2. ~Running("back")
      BY <2>1 DEF Alone
    <2> QED BY <1>1, <2>1, <2>2 DEF Recovered, Slots, Running
  <1>3. /\ helper["child"].program = "recover" /\ journal.phase = "enabled"
        /\ \A q \in Slots : helper[q].program # "restore"
    BY <1>1, <1>2 DEF Alone, Slots, Running
  <1>4. helper[p].at = 8
    <2>1. Program("recover") = RecoverProgram /\ Len(RecoverProgram) = 8
      BY RecoverSteps DEF Program
    <2>2. helper[p].at \in 1..8 /\ Step(p) = RecoverProgram[helper[p].at]
      BY <1>1, <1>2, <1>3, <2>1, Zenon DEF Core, Step
    <2>3. Step(p)[1] # "armed"
      BY <2>2, LastSteps, Zenon
    <2> QED BY <1>1, <1>2, <1>3, <2>1, <2>3, CommandMoves, Zenon
  <1>5. Step(p) = RecoverProgram[8]
    BY <1>2, <1>3, <1>4 DEF Step, Program
  <1>6. ASSUME NEW k \in Needed PROVE modem'[k] = "voip"
    <2>1. CASE k \in Lasting
      <3>1. modem[k] = "voip"
        BY <1>3, <2>1 DEF Settled
      <3> QED BY <1>1, <1>2, <1>3, <2>1, <3>1, VoiceKept
    <2>2. CASE k \in Volatile
      <3>1. Step(p)[1] = "forward"
        BY <1>5, LastSteps, NeededSettings
      <3>2. Effect(p) = [l \in Settings |->
                IF l = "pcm" \/ (Serial /\ l = "audio") THEN "voip" ELSE modem[l]]
        BY <3>1 DEF Effect
      <3> QED BY <1>1, <2>2, <3>2, NeededSettings DEF Volatile
    <2> QED BY <2>1, <2>2, NeededSettings
  <1> QED BY <1>6

\* a recovery that fails is no recovery
LEMMA FailureForwarded ==
    ASSUME Inv, Alone, Forwarded, NEW p \in Slots, CommandFails(p)
    PROVE  Forwarded'
  <1>1. /\ Core /\ Running(p) /\ GiveUp(p) /\ pc' = pc /\ disturbed' = disturbed
        /\ pc = "calling" => ~Running("child")
    BY Zenon DEF Inv, CommandFails, daemon
  <1>2. ASSUME Recovered', disturbed = FALSE PROVE FALSE
    <2>1. pc \in {"recover", "calling"}
      BY <1>1, <1>2 DEF Recovered
    <2>2. ~Running("back")
      BY <1>2, <2>1 DEF Alone
    <2>3. pc = "recover" /\ p = "child" /\ helper'["child"].program = "none" /\ result' = TRUE
      BY <1>1, <1>2, <2>1, <2>2, Zenon DEF Recovered, Slots, Running
    <2> QED BY <1>1, <2>3, FailureMoves, Zenon
  <1> QED BY <1>1, <1>2, Zenon DEF Forwarded

\* every step keeps a recovery before a call alone, or notes that it is not
LEMMA NextAlone ==
    ASSUME Inv, VoiceInv, Next
    PROVE  Alone' /\ cut' \in BOOLEAN /\ disturbed' \in BOOLEAN /\ result' \in BOOLEAN
  <1>0. /\ Core /\ (pc \in {"idle", "calling"} => ~Running("child"))
        /\ helper \in [Slots -> Helpers] /\ "child" \in Slots /\ "back" \in Slots
    BY DEF Inv, Core, Slots
  <1>a. Alone /\ cut \in BOOLEAN /\ disturbed \in BOOLEAN /\ result \in BOOLEAN
    BY DEF VoiceInv
  <1>b. cut' \in BOOLEAN /\ disturbed' \in BOOLEAN
    <2>1. ASSUME NEW p \in Slots, CommandFails(p) PROVE cut' \in BOOLEAN /\ disturbed' = disturbed
      BY <2>1, Zenon DEF CommandFails
    <2>2. CASE Crash \/ ReloadService
      <3>1. cut' \in BOOLEAN
        BY <1>a, <2>2, Zenon DEF Crash, ReloadService, ChildLeft
      <3> QED BY <1>a, <2>2, <3>1 DEF Crash, ReloadService, ChildLeft
    <2>3. CASE PrepareCall
      <3>1. disturbed' \in BOOLEAN
        BY <2>3, Zenon DEF PrepareCall, Running
      <3> QED BY <1>a, <2>3, <3>1 DEF PrepareCall
    <2>4. CASE ModemReset \/ Hotplug \/ Arm
      BY <1>a, <2>4, Zenon DEF ModemReset, Hotplug, Arm
    <2>5. CASE \/ \E p \in Slots : Command(p)
               \/ ActivationTimer \/ EnableMethod \/ EnableReturns \/ UndoReturns
               \/ DisableMethod \/ DisableReturns \/ RecoverReturns \/ Called \/ RestartTimer
      BY <1>a, <2>5, Zenon DEF Command, ActivationTimer, EnableMethod, EnableReturns, UndoReturns,
                        DisableMethod, DisableReturns, RecoverReturns, Called, RestartTimer, history
    <2> QED BY <1>a, <2>1, <2>2, <2>3, <2>4, <2>5, Zenon DEF Next
  <1>c. result' \in BOOLEAN
    <2>1. \A p \in Slots : helper[p].undo \in BOOLEAN
      BY <1>0 DEF Helpers
    <2> QED BY <1>a, <2>1, Zenon DEF Next, Command, CommandFails, ModemReset, Hotplug, ActivationTimer,
                EnableMethod, EnableReturns, UndoReturns, DisableMethod, DisableReturns,
                PrepareCall, RecoverReturns, Called, Arm, RestartTimer, Crash, ReloadService, ChildLeft,
                history, Advance, GiveUp, Exit, Answer, StartEnable, StartDisable, StartRecover, Activate
  <1> SUFFICES Alone'
    BY <1>b, <1>c
  <1>1. ASSUME NEW p \in Slots, Command(p) \/ CommandFails(p) PROVE Alone'
    <2>1. /\ pc' = pc /\ disturbed' = disturbed /\ Running(p)
          /\ \A q \in Slots \ {p} : helper'[q] = helper[q]
          /\ helper'[p].program \in {"none", helper[p].program} \/ helper[p].program = "enable"
      <3>1. CASE Command(p)
        BY <1>0, <3>1, CommandMoves, Zenon DEF Command, daemon, history
      <3>2. CASE CommandFails(p)
        BY <1>0, <3>2, FailureMoves, Zenon DEF CommandFails, daemon
      <3> QED BY <1>1, <3>1, <3>2, Zenon
    <2>2. pc = "recover" => helper'["child"].program \in {"none", "recover"}
      BY <1>0, <1>a, <2>1, Zenon DEF Alone
    <2>3. pc \in {"recover", "calling"} /\ disturbed = FALSE => helper'["back"].program = "none"
      BY <1>0, <1>a, <2>1 DEF Alone, Running
    <2>4. ASSUME pc = "recover", disturbed = FALSE, helper'["child"].program # "none"
          PROVE  journal'.phase = "enabled"
      <3>1. Running("child") /\ journal.phase = "enabled" /\ p = "child"
        BY <1>0, <1>a, <2>1, <2>4, Zenon DEF Alone, Running, Slots
      <3>2. helper[p].program = "recover"
        BY <1>a, <2>4, <3>1 DEF Alone, Running
      <3>3. Step(p)[1] \notin {"write", "delete"}
        BY <1>0, <2>1, <3>2, StepKinds
      <3>4. File(p) = journal
        BY <3>3 DEF File
      <3> QED BY <1>1, <3>1, <3>4, Zenon DEF Command, CommandFails, files
    <2> QED BY <2>1, <2>2, <2>3, <2>4, Zenon DEF Alone, Running
  <1>2. CASE ModemReset
    BY <1>a, <1>2, Zenon DEF ModemReset, daemon, Alone, Running
  <1>3. CASE Hotplug
    <2>1. pc' = pc /\ journal' = journal /\ helper'["child"] = helper["child"]
      BY <1>0, <1>3, Zenon DEF Hotplug, daemon, files, StartRecover, Launch, Answer
    <2>2. disturbed' = TRUE \/ UNCHANGED <<helper, disturbed>>
      BY <1>3 DEF Hotplug
    <2> QED BY <1>a, <2>1, <2>2 DEF Alone, Running
  <1>4. CASE pc' \notin {"recover", "calling"}
    BY <1>4 DEF Alone
  <1>5. CASE PrepareCall
    <2>1. /\ pc' = "recover" /\ journal' = journal /\ journal.phase = "enabled"
          /\ journal # NoJournal
      BY <1>5 DEF PrepareCall, files, NoJournal
    <2>4. Launch("child", "recover", journal.saved)
      BY <1>5, <2>1, Zenon DEF PrepareCall, StartRecover
    <2>3. disturbed' = FALSE => ~Running("back")
      BY <1>5, Zenon DEF PrepareCall
    <2>2. helper'["child"].program = "recover" /\ helper'["back"] = helper["back"]
      BY <1>0, <2>4, Zenon DEF Launch
    <2> QED BY <2>1, <2>2, <2>3 DEF Alone, Running
  <1>6. CASE RecoverReturns
    <2>1. UNCHANGED <<helper, disturbed>> /\ pc = "recover" /\ pc' # "recover"
      BY <1>6 DEF RecoverReturns, history
    <2> QED BY <1>a, <2>1 DEF Alone, Running
  <1>7. CASE \/ ActivationTimer \/ EnableMethod \/ EnableReturns \/ UndoReturns \/ DisableMethod
             \/ DisableReturns \/ Called \/ Arm \/ RestartTimer \/ Crash \/ ReloadService
    <2>1. pc' \notin {"recover", "calling"}
      BY <1>7, Zenon DEF ActivationTimer, EnableMethod, Activate, EnableReturns, UndoReturns,
                  DisableMethod, DisableReturns, Called, Arm, RestartTimer, Crash, ReloadService,
                  Started, daemon
    <2> QED BY <1>4, <2>1
  <1> QED BY <1>1, <1>2, <1>3, <1>5, <1>6, <1>7 DEF Next

\* helpers that start or end leave what is set as it is
LEMMA SlotsSettled ==
    ASSUME Settled, Setting, UNCHANGED files,
           \A p \in Slots : helper[p].program = "restore" /\ journal.phase = "enabled" =>
               \E q \in Slots : helper'[q].program = "restore",
           \A p \in Slots : helper'[p].program = "enable" =>
               helper'[p].at = 1 \/ \E q \in Slots : helper'[p] = helper[q]
    PROVE  Settled' /\ Setting'
  <1>1. modem' = modem /\ journal' = journal
    BY DEF files
  <1>2. Settled'
    BY <1>1 DEF Settled
  <1>3. ASSUME NEW p \in Slots, helper'[p].program = "enable"
        PROVE  SetSoFar(modem', helper'[p].at - 1)
    <2>1. CASE helper'[p].at = 1
      BY <2>1 DEF SetSoFar
    <2>2. ASSUME NEW q \in Slots, helper'[p] = helper[q]
          PROVE  SetSoFar(modem', helper'[p].at - 1)
      BY <1>1, <1>3, <2>2, Zenon DEF Setting
    <2> QED BY <1>3, <2>1, <2>2, Zenon
  <1> QED BY <1>2, <1>3, Zenon DEF Setting, SetSoFar

\* a helper starts in a free slot
LEMMA LaunchSettled ==
    ASSUME Core, Settled, Setting, UNCHANGED files, NEW p \in Slots, ~Running(p),
           NEW program, NEW saved, Launch(p, program, saved)
    PROVE  Settled' /\ Setting'
  <1>1. /\ helper'[p].at = 1 /\ \A q \in Slots \ {p} : helper'[q] = helper[q]
        /\ helper[p].program = "none"
    BY Zenon DEF Launch, Core, Running
  <1> QED BY <1>1, SlotsSettled, Zenon

\* no other step takes voice mode off the modem or ends a restore without a note
LEMMA NextSettled ==
    ASSUME Inv, VoiceInv, Next, overlap' = FALSE, cut' = FALSE
    PROVE  overlap = FALSE /\ cut = FALSE /\ Settled' /\ Setting'
  <1>0. /\ Core /\ (pc \in {"idle", "calling"} => ~Running("child"))
        /\ helper \in [Slots -> Helpers] /\ "child" \in Slots /\ "back" \in Slots
        /\ overlap \in BOOLEAN /\ cut \in BOOLEAN
    BY Zenon DEF Inv, Core, Slots, VoiceInv
  <1>1. overlap = FALSE
    <2>1. UNCHANGED overlap \/ \E p, program, saved : Launch(p, program, saved)
      BY Zenon DEF Next, Command, CommandFails, ModemReset, Hotplug, ActivationTimer, EnableMethod,
                EnableReturns, UndoReturns, DisableMethod, DisableReturns, PrepareCall,
                RecoverReturns, Called, Arm, RestartTimer, Crash, ReloadService, ChildLeft,
                history, Activate,
                StartEnable, StartDisable, StartRecover, Answer
    <2> QED BY <1>0, <2>1, Zenon DEF Launch
  <1>2. cut = FALSE
    <2>1. ASSUME NEW p \in Slots, CommandFails(p) PROVE cut = FALSE
      BY <1>0, <2>1, Zenon DEF CommandFails
    <2>2. CASE Crash \/ ReloadService
      BY <1>0, <2>2, Zenon DEF Crash, ReloadService, ChildLeft
    <2> QED BY <2>1, <2>2, Zenon DEF Next, Command, ModemReset, Hotplug, ActivationTimer, EnableMethod,
                EnableReturns, UndoReturns, DisableMethod, DisableReturns, PrepareCall,
                RecoverReturns, Called, Arm, RestartTimer, history
  <1>3. Settled /\ Setting
    BY <1>1, <1>2 DEF VoiceInv
  <1> SUFFICES Settled' /\ Setting'
    BY <1>1, <1>2
  <1>4. ASSUME NEW p \in Slots, Command(p) PROVE Settled' /\ Setting'
    BY <1>0, <1>1, <1>3, <1>4, CommandSettled, Zenon
  <1>5. ASSUME NEW p \in Slots, CommandFails(p) PROVE Settled' /\ Setting'
    BY <1>0, <1>1, <1>3, <1>5, FailureSettled, Zenon
  <1>6. CASE ModemReset
    <2>1. /\ UNCHANGED <<journal, helper>>
          /\ modem' = [k \in Settings |-> IF k \in Volatile THEN "base" ELSE modem[k]]
      BY <1>6 DEF ModemReset
    <2>2. \A k \in Lasting : modem'[k] = modem[k]
      BY <2>1, NeededSettings
    <2> QED BY <1>3, <2>1, <2>2, Zenon DEF Settled, Setting, SetSoFar
  <1>7. CASE Crash \/ ReloadService
    <2>1. /\ UNCHANGED files
          /\ \/ helper' = [helper EXCEPT !["child"] = NoHelper]
             \/ /\ ~Running("back")
                /\ helper' = [helper EXCEPT !["child"] = NoHelper, !["back"] = helper["child"]]
      BY <1>7, Zenon DEF Crash, ReloadService, ChildLeft
    <2>2. ASSUME helper' = [helper EXCEPT !["child"] = NoHelper]
          PROVE  ~(helper["child"].program = "restore" /\ journal.phase = "enabled")
      <3>1. NoHelper # helper["child"] \/ helper["child"].program = "none"
        BY NoHelperTyped
      <3>2. helper'["back"] # helper["child"] \/ helper["child"] = helper["back"]
        BY <1>0, <2>2
      <3> QED BY <1>0, <1>7, <2>2, <3>1, <3>2, Zenon DEF Crash, ReloadService, ChildLeft, Running
    <2>3. ASSUME helper' = [helper EXCEPT !["child"] = NoHelper]
          PROVE  Settled' /\ Setting'
      <3>1. helper'["child"].program = "none" /\ helper'["back"] = helper["back"]
        BY <1>0, <2>3, NoHelperTyped
      <3> QED BY <1>3, <2>1, <2>2, <2>3, <3>1, SlotsSettled DEF Slots
    <2>4. ASSUME ~Running("back"),
                 helper' = [helper EXCEPT !["child"] = NoHelper, !["back"] = helper["child"]]
          PROVE  Settled' /\ Setting'
      <3>1. helper'["child"].program = "none" /\ helper'["back"] = helper["child"]
        BY <1>0, <2>4, NoHelperTyped
      <3> QED BY <1>3, <2>1, <2>4, <3>1, SlotsSettled, Zenon DEF Slots, Running
    <2> QED BY <2>1, <2>3, <2>4
  <1>8. CASE \/ Hotplug \/ ActivationTimer \/ EnableMethod \/ EnableReturns \/ UndoReturns
             \/ DisableMethod \/ DisableReturns \/ PrepareCall \/ RecoverReturns \/ Called
             \/ Arm \/ RestartTimer
    <2>1. /\ UNCHANGED files
          /\ \/ UNCHANGED helper
             \/ \E p \in Slots : \E program, saved : ~Running(p) /\ Launch(p, program, saved)
      <3>1. CASE Hotplug \/ Arm
        BY <1>0, <1>8, <3>1, Zenon DEF Hotplug, Arm, StartRecover, Answer
      <3>2. CASE ActivationTimer \/ EnableMethod
        BY <1>0, <3>2, Zenon DEF ActivationTimer, EnableMethod, Activate, StartEnable, Answer
      <3>3. CASE EnableReturns \/ DisableMethod
        BY <1>0, <3>3, Zenon DEF EnableReturns, DisableMethod, StartDisable, Answer
      <3>4. CASE PrepareCall
        BY <1>0, <3>4, Zenon DEF PrepareCall, StartRecover, Answer
      <3>5. CASE UndoReturns \/ DisableReturns \/ RecoverReturns \/ Called \/ RestartTimer
        BY <3>5, Zenon DEF UndoReturns, DisableReturns, RecoverReturns, Called, RestartTimer
      <3> QED BY <1>8, <3>1, <3>2, <3>3, <3>4, <3>5
    <2>2. CASE UNCHANGED helper
      BY <1>3, <2>1, <2>2, SlotsSettled, Zenon
    <2>3. ASSUME NEW p \in Slots, NEW program, NEW saved, ~Running(p), Launch(p, program, saved)
          PROVE  Settled' /\ Setting'
      BY <1>0, <1>3, <2>1, <2>3, LaunchSettled, Zenon
    <2> QED BY <2>1, <2>2, <2>3
  <1> QED BY <1>4, <1>5, <1>6, <1>7, <1>8 DEF Next

\* between the recovery and the call nothing changes the modem, unless that is noted
LEMMA NextForwarded ==
    ASSUME Inv, Alone, Settled, Forwarded, Next
    PROVE  Forwarded'
  <1>1. ASSUME NEW p \in Slots, Command(p) PROVE Forwarded'
    BY <1>1, CommandForwarded
  <1>2. ASSUME NEW p \in Slots, CommandFails(p) PROVE Forwarded'
    BY <1>2, FailureForwarded
  <1>3. CASE ModemReset
    BY <1>3 DEF ModemReset, Forwarded
  <1>4. CASE Hotplug
    <2>1. modem' = modem /\ pc' = pc /\ result' = result
      BY <1>4 DEF Hotplug, files, daemon, StartRecover, Answer
    <2>2. disturbed' = TRUE \/ UNCHANGED <<helper, disturbed>>
      BY <1>4 DEF Hotplug
    <2> QED BY <2>1, <2>2 DEF Forwarded, Recovered, Running
  <1>5. CASE PrepareCall
    <2>1. pc' = "recover" /\ Running("child")'
      <3>1. helper \in [Slots -> Helpers] /\ "child" \in Slots
        BY DEF Inv, Core, Slots
      <3>2. journal.phase = "enabled" /\ journal # NoJournal
        BY <1>5 DEF PrepareCall, NoJournal
      <3>3. Launch("child", "recover", journal.saved)
        BY <1>5, <3>2, Zenon DEF PrepareCall, StartRecover
      <3> QED BY <1>5, <3>1, <3>3, Zenon DEF PrepareCall, Launch, Running
    <2> QED BY <2>1 DEF Forwarded, Recovered
  <1>6. CASE RecoverReturns
    <2>1. /\ pc = "recover" /\ ~Running("child") /\ UNCHANGED <<modem, helper, result, disturbed>>
          /\ pc' = "idle" \/ (pc' = "calling" /\ result = TRUE)
      BY <1>6, Zenon DEF RecoverReturns, files, history
    <2> QED BY <2>1 DEF Forwarded, Recovered
  <1>7. CASE \/ ActivationTimer \/ EnableMethod \/ EnableReturns \/ UndoReturns \/ DisableMethod
             \/ DisableReturns \/ Called \/ Arm \/ RestartTimer \/ Crash \/ ReloadService
    <2>1. pc' \notin {"recover", "calling"}
      BY <1>7, Zenon DEF ActivationTimer, EnableMethod, Activate, EnableReturns, UndoReturns,
                  DisableMethod, DisableReturns, Called, Arm, RestartTimer, Crash, ReloadService,
                  Started, daemon
    <2> QED BY <2>1 DEF Forwarded, Recovered
  <1> QED BY <1>1, <1>2, <1>3, <1>4, <1>5, <1>6, <1>7 DEF Next

LEMMA InitVoice == Init => VoiceInv
  <1> SUFFICES ASSUME Init PROVE VoiceInv
    OBVIOUS
  <1>1. /\ journal.phase = "none" /\ pc = "idle" /\ cut = FALSE /\ disturbed = FALSE
        /\ result = TRUE /\ \A p \in Slots : helper[p].program = "none"
    BY NoHelperTyped, Zenon DEF Init, NoJournal
  <1> QED BY <1>1, Zenon DEF VoiceInv, Alone, Settled, Setting, Forwarded, Recovered

LEMMA NextVoice == Inv /\ VoiceInv /\ [Next]_vars => VoiceInv'
  <1>1. ASSUME Inv, VoiceInv, Next PROVE VoiceInv'
    <2>1. Alone' /\ cut' \in BOOLEAN /\ disturbed' \in BOOLEAN /\ result' \in BOOLEAN
      BY <1>1, NextAlone
    <2>2. ASSUME overlap' = FALSE, cut' = FALSE PROVE Settled' /\ Setting' /\ Forwarded'
      <3>1. overlap = FALSE /\ cut = FALSE /\ Settled' /\ Setting'
        BY <1>1, <2>2, NextSettled, Zenon
      <3>2. Alone /\ Settled /\ Forwarded
        BY <1>1, <3>1 DEF VoiceInv
      <3> QED BY <1>1, <3>1, <3>2, NextForwarded
    <2> QED BY <2>1, <2>2, Zenon DEF VoiceInv
  <1>2. ASSUME VoiceInv, UNCHANGED vars PROVE VoiceInv'
    <2>1. UNCHANGED <<modem, journal, helper, result, pc, overlap, cut, disturbed>>
      BY <1>2 DEF vars, files, daemon, history
    <2> QED BY <1>2, <2>1, Zenon DEF VoiceInv, Alone, Settled, Setting, SetSoFar, Forwarded, Recovered,
                              Running
  <1> QED BY <1>1, <1>2

\* ATD and ATA are sent only to a modem in voice mode with its audio forwarded: what
\* enable set is still set, and the recovery before the call forwarded the audio, unless
\* the modem was reset or another helper ran since, or a restore ended half way.
THEOREM CallsHaveVoice == Spec => []CallHasVoice
  <1>1. Inv /\ VoiceInv => CallHasVoice
    BY DEF Inv, Core, VoiceInv, Forwarded, Recovered, CallHasVoice
  <1> QED BY <1>1, InitInv, NextInv, InitVoice, NextVoice, PTL DEF Spec
===============================================================================
