------------------------------- MODULE AtCommand -------------------------------
(***************************************************************************)
(* Commands and answers on one open AT port of ubus-at-daemon              *)
(* (at_handler.c).  The ubus thread sends a command and waits; the reader  *)
(* thread reads what the modem writes, collects it for the waiting command *)
(* and decides line by line whether a line ends it.  They share            *)
(* waiting_for_response, active_command_id, current_response and the end   *)
(* flags, under response_mutex except where the code does without.         *)
(*                                                                         *)
(* A line is its kind and the command that caused it, 0 for an unsolicited *)
(* one (URC).  A step is what a thread does between two places where the   *)
(* other one may get in between.                                           *)
(***************************************************************************)
EXTENDS Integers, Sequences, FiniteSets

CONSTANTS
    CommandTypes,   \* [answer, flags]: the kinds of the lines a modem answers a command
                    \* with, and the kinds the caller's end flags match
    UrcKinds,       \* kinds of unsolicited lines
    MaxCommands,    \* bound: commands, send-only ones included
    MaxUrcs,        \* bound: unsolicited lines
    MaxResponse,    \* lines that current_response holds (MAX_BUFFER_SIZE)
    MaxLost,        \* bound: times the line buffer overflows
    MaxStrays       \* bound: commands whose answer nobody awaits (timed out or send-only)
                    \* and unsolicited lines that an end flag matches, such as NO CARRIER

Kinds == (UNION {{t.answer[i] : i \in DOMAIN t.answer} : t \in CommandTypes}) \cup UrcKinds

\* an answer ends with the first line that its end flags match
ASSUME CommandAssumption ==
    \A t \in CommandTypes :
        /\ t.flags \subseteq Kinds /\ t.answer \in Seq(Kinds) \ {<<>>}
        /\ \A i \in DOMAIN t.answer : t.answer[i] \in t.flags <=> i = Len(t.answer)
ASSUME CommandBounds ==
    /\ MaxCommands \in Nat /\ MaxUrcs \in Nat /\ MaxStrays \in Nat
    /\ MaxResponse \in Nat /\ MaxLost \in Nat

Line == [kind : Kinds, cmd : Nat]

VARIABLES
    \* the port
    waiting,            \* waiting_for_response
    active_command_id, next_command_id,
    response,           \* current_response.response, as lines
    said,               \* history: all lines read since the command waits
    flags,              \* expected_end_flags
    status,             \* current_response.status: "none" (0 after memset) or "done"
    ended_by,           \* the line that set end_flag_matched
    \* the ubus thread
    upc, answer,        \* where it is, and what the modem will say to its command
    timeouts, sendonly,
    results,            \* history: [id, status, response, said, ended_by] returned
    \* the reader
    rpc,
    chunk,              \* lines read and not handled yet
    was_waiting, command_id, is_terminal,
    lost,               \* times that lines were lost to an overflow of the line buffer
    events,             \* line events enqueued: [line, command_id, correlation]
    \* the modem
    pending,            \* lines still to be written, per command in order
    wire,               \* lines written and not read
    urcs, alike         \* unsolicited lines, and those that an end flag matches

port == <<waiting, active_command_id, next_command_id, flags, response, said, status,
          ended_by>>
calling == <<upc, answer, timeouts, sendonly, results>>
reading == <<rpc, chunk, was_waiting, command_id, is_terminal, lost, events>>
modem == <<pending, wire, urcs, alike>>
commandVars == <<port, calling, reading, modem>>

NoLine == [kind |-> "none", cmd |-> 0]

CommandInit ==
    /\ waiting = FALSE /\ active_command_id = 0 /\ next_command_id = 0
    /\ flags = {} /\ response = <<>> /\ said = <<>> /\ status = "none" /\ ended_by = NoLine
    /\ upc = "idle" /\ answer = <<>> /\ timeouts = 0 /\ sendonly = 0 /\ results = {}
    /\ rpc = "read" /\ chunk = <<>> /\ was_waiting = FALSE /\ command_id = 0
    /\ is_terminal = FALSE /\ lost = 0 /\ events = {}
    /\ pending = <<>> /\ wire = <<>> /\ urcs = 0 /\ alike = 0

-------------------------------------------------------------------------------
(* external: the modem                                                     *)

\* the modem answers one command after the other
ModemAnswers ==
    /\ pending # <<>>
    /\ wire' = Append(wire, Head(pending))
    /\ pending' = Tail(pending)
    /\ UNCHANGED <<port, calling, reading, urcs, alike>>

\* lines that the daemon takes for the wrong answer as the text does not tell them apart
Strays == timeouts + sendonly + alike

ModemUrc ==
    /\ urcs < MaxUrcs
    /\ urcs' = urcs + 1
    /\ \E k \in UrcKinds :
           /\ wire' = Append(wire, [kind |-> k, cmd |-> 0])
           /\ IF \E t \in CommandTypes : k \in t.flags
              THEN Strays < MaxStrays /\ alike' = alike + 1
              ELSE UNCHANGED alike
    /\ UNCHANGED <<port, calling, reading, pending>>

\* what the modem says to command n
Accept(n, a) == pending' = pending \o [i \in DOMAIN a |-> [kind |-> a[i], cmd |-> n]]

-------------------------------------------------------------------------------
(* The ubus thread: send_at_command_with_response, send_at_command_only    *)

\* parse_end_flags, which takes no lock
ParseEndFlags ==
    /\ upc = "idle" /\ next_command_id < MaxCommands
    /\ \E t \in CommandTypes : flags' = t.flags /\ answer' = t.answer
    /\ upc' = "parsed"
    /\ UNCHANGED <<waiting, active_command_id, next_command_id, response, said, status, ended_by,
                   timeouts, sendonly, results, reading, modem>>

\* current_response is cleared and the reader told to collect, before the write
Prepare ==
    /\ upc = "parsed"
    /\ next_command_id' = next_command_id + 1
    /\ active_command_id' = next_command_id + 1
    /\ waiting' = TRUE
    /\ response' = <<>> /\ said' = <<>> /\ status' = "none" /\ ended_by' = NoLine
    /\ upc' = "prepared"
    /\ UNCHANGED <<flags, answer, timeouts, sendonly, results, reading, modem>>

\* write() on the port
Write ==
    /\ upc = "prepared"
    /\ Accept(active_command_id, answer)
    /\ upc' = "wait"
    /\ UNCHANGED <<port, answer, timeouts, sendonly, results, reading, wire, urcs, alike>>

Result(s) == [id |-> active_command_id, status |-> s, response |-> response,
              said |-> said, ended_by |-> ended_by]

\* the write fails: waiting_for_response is cleared, active_command_id is not
WriteFails ==
    /\ upc = "prepared"
    /\ waiting' = FALSE
    /\ results' = results \cup {[Result("error") EXCEPT !.response = <<>>]}
    /\ upc' = "idle"
    /\ UNCHANGED <<active_command_id, next_command_id, flags, response, said, status, ended_by,
                   answer, timeouts, sendonly, reading, modem>>

\* the loop around pthread_cond_timedwait ends because the reader is done
Wakeup ==
    /\ upc = "wait" /\ ~waiting
    /\ results' = results \cup {Result(status)}
    /\ active_command_id' = 0
    /\ upc' = "idle"
    /\ UNCHANGED <<waiting, next_command_id, flags, response, said, status, ended_by, answer,
                   timeouts, sendonly, reading, modem>>

\* ... or with ETIMEDOUT, even if the reader finished before the mutex was free
Timeout ==
    /\ upc = "wait" /\ Strays < MaxStrays
    /\ timeouts' = timeouts + 1
    /\ results' = results \cup {Result("timeout")}
    /\ waiting' = FALSE /\ active_command_id' = 0
    /\ upc' = "idle"
    /\ UNCHANGED <<next_command_id, flags, response, said, status, ended_by, answer, sendonly,
                   reading, modem>>

\* sendonly: the command is written and nobody waits.  The command is numbered
\* by the model only.
SendOnly ==
    /\ upc = "idle" /\ Strays < MaxStrays
    /\ sendonly' = sendonly + 1
    /\ \E t \in CommandTypes : Accept(MaxCommands + sendonly + 1, t.answer)
    /\ UNCHANGED <<port, upc, answer, timeouts, results, reading, wire, urcs, alike>>

-------------------------------------------------------------------------------
(* The reader thread: reader_thread_func                                   *)

\* read() returns some of the lines
ReadLines ==
    /\ rpc = "read" /\ wire # <<>>
    /\ \E n \in 1..Len(wire) : /\ chunk' = SubSeq(wire, 1, n)
                               /\ wire' = SubSeq(wire, n + 1, Len(wire))
    /\ rpc' = "collect"
    /\ UNCHANGED <<port, calling, was_waiting, command_id, is_terminal, lost, events, pending,
                   urcs, alike>>

\* what was read goes to the response if a command waits and all of it fits; what
\* does not fit is left out without a word
Store ==
    IF waiting
    THEN /\ said' = said \o chunk
         /\ response' = IF Len(response) + Len(chunk) <= MaxResponse
                        THEN response \o chunk ELSE response
    ELSE UNCHANGED <<said, response>>

Collect ==
    /\ rpc = "collect"
    /\ Store
    /\ rpc' = "lines"
    /\ UNCHANGED <<waiting, active_command_id, next_command_id, flags, status, ended_by, calling,
                   chunk, was_waiting, command_id, is_terminal, lost, events, modem>>

\* after a line longer than the line buffer, what was read is thrown away with it:
\* it may be in the response, but is not looked at
Overflow ==
    /\ rpc = "collect" /\ lost < MaxLost
    /\ Store
    /\ lost' = lost + 1
    /\ chunk' = <<>> /\ rpc' = "read"
    /\ UNCHANGED <<waiting, active_command_id, next_command_id, flags, status, ended_by, calling,
                   was_waiting, command_id, is_terminal, events, modem>>

\* first critical section of a line: is a command waiting, and which
Peek ==
    /\ rpc = "lines" /\ chunk # <<>> /\ Head(chunk).kind # "prompt"
    /\ was_waiting' = waiting
    /\ command_id' = IF waiting THEN active_command_id ELSE 0
    /\ is_terminal' = FALSE
    /\ rpc' = IF waiting THEN "check" ELSE "enqueue"
    /\ UNCHANGED <<port, calling, chunk, lost, events, modem>>

\* mutant: an end flag may match anywhere in a line
Mut_CheckEndFlags ==
    /\ rpc = "check"
    /\ is_terminal' = (Head(chunk).kind \in flags \cup UrcKinds)
    /\ rpc' = IF is_terminal' THEN "match" ELSE "enqueue"
    /\ UNCHANGED <<port, calling, chunk, was_waiting, command_id, lost, events, modem>>

\* check_end_flags, which takes no lock
CheckEndFlags ==
    /\ rpc = "check"
    /\ is_terminal' = (Head(chunk).kind \in flags)
    /\ rpc' = IF is_terminal' THEN "match" ELSE "enqueue"
    /\ UNCHANGED <<port, calling, chunk, was_waiting, command_id, lost, events, modem>>

Complete ==
    /\ status' = "done" /\ ended_by' = Head(chunk)
    /\ waiting' = FALSE
    /\ UNCHANGED <<active_command_id, next_command_id, flags, response, said>>

\* second critical section: the line ends whatever command waits by now
Match ==
    /\ rpc = "match"
    /\ IF waiting THEN Complete ELSE UNCHANGED port
    /\ rpc' = "enqueue"
    /\ UNCHANGED <<calling, chunk, was_waiting, command_id, is_terminal, lost, events, modem>>

\* mutant: any line read while a command waits counts as its end
Mut_Correlation == IF was_waiting THEN "terminal" ELSE "idle"

\* how the line event is labelled
Correlation ==
    IF is_terminal THEN "terminal"
    ELSE IF was_waiting /\ Head(chunk).kind = "ring" THEN "ambiguous"
    ELSE IF was_waiting THEN "response" ELSE "idle"

\* at_line_event_enqueue, and on to the next line
Enqueue ==
    /\ rpc = "enqueue"
    /\ events' = events \cup {[line |-> Head(chunk), command_id |-> command_id,
                               correlation |-> Correlation]}
    /\ chunk' = Tail(chunk)
    /\ rpc' = IF Len(chunk) > 1 THEN "lines" ELSE "read"
    /\ UNCHANGED <<port, calling, was_waiting, command_id, is_terminal, lost, modem>>

\* mutant: a prompt is seen only at the end of what was read
Mut_Prompt ==
    /\ rpc = "lines" /\ chunk # <<>> /\ Head(chunk).kind = "prompt"
    /\ IF waiting /\ "prompt" \in flags /\ Len(chunk) = 1 THEN Complete ELSE UNCHANGED port
    /\ chunk' = Tail(chunk)
    /\ rpc' = IF Len(chunk) > 1 THEN "lines" ELSE "read"
    /\ UNCHANGED <<calling, was_waiting, command_id, is_terminal, lost, events, modem>>

\* an SMS prompt has no line end; it ends a command that asked for it and makes no event
Prompt ==
    /\ rpc = "lines" /\ chunk # <<>> /\ Head(chunk).kind = "prompt"
    /\ IF waiting /\ "prompt" \in flags THEN Complete ELSE UNCHANGED port
    /\ chunk' = Tail(chunk)
    /\ rpc' = IF Len(chunk) > 1 THEN "lines" ELSE "read"
    /\ UNCHANGED <<calling, was_waiting, command_id, is_terminal, lost, events, modem>>

-------------------------------------------------------------------------------
ReaderStep == ReadLines \/ Collect \/ Peek \/ CheckEndFlags \/ Match \/ Enqueue \/ Prompt
UbusStep == Prepare \/ Write \/ Wakeup
CommandNext ==
    \/ ModemAnswers \/ ModemUrc \/ ParseEndFlags \/ WriteFails \/ Timeout \/ SendOnly
    \/ Overflow
    \/ UbusStep \/ ReaderStep

CommandSpec == CommandInit /\ [][CommandNext]_commandVars

\* threads run, but no timeout has to help; the modem finishes an answer it has begun
CommandFairness ==
    /\ WF_commandVars(ReaderStep) /\ WF_commandVars(UbusStep)
    /\ WF_commandVars(ModemAnswers)
FairCommandSpec == CommandSpec /\ CommandFairness
-------------------------------------------------------------------------------
(* Properties                                                              *)

CommandTypeOK ==
    /\ waiting \in BOOLEAN /\ was_waiting \in BOOLEAN /\ is_terminal \in BOOLEAN
    /\ active_command_id \in 0..MaxCommands /\ next_command_id \in 0..MaxCommands
    /\ command_id \in 0..MaxCommands
    /\ flags \subseteq Kinds /\ answer \in Seq(Kinds)
    /\ response \in Seq(Line) /\ said \in Seq(Line) /\ Len(response) <= MaxResponse
    /\ status \in {"none", "done"} /\ ended_by \in Line \cup {NoLine}
    /\ upc \in {"idle", "parsed", "prepared", "wait"}
    /\ rpc \in {"read", "collect", "lines", "check", "match", "enqueue"}
    /\ chunk \in Seq(Line) /\ wire \in Seq(Line) /\ pending \in Seq(Line)
    /\ timeouts \in Nat /\ sendonly \in Nat /\ urcs \in Nat /\ alike \in Nat /\ lost \in Nat
    /\ \A r \in results : r.id \in 1..MaxCommands
    /\ waiting = TRUE => upc \in {"prepared", "wait"} /\ active_command_id = next_command_id

\* the lines of s that are not unsolicited are the answer a to command n: line i of
\* the answer is at[i]
Answers(s, a, n) ==
    \E at \in [1..Len(a) -> 1..Len(s)] :
        /\ \A i, j \in 1..Len(a) : i < j => at[i] < at[j]
        /\ \A i \in 1..Len(a) : s[at[i]] = [kind |-> a[i], cmd |-> n]
        /\ \A k \in 1..Len(s) : s[k].cmd # 0 => \E i \in 1..Len(a) : at[i] = k

\* The next two hold as long as no answer is left over from a command that timed
\* out or that nobody waited for, and no unsolicited line reads like the end of one:
\* a line does not say which command it answers.

\* "correctly tell command responses from asynchronous URCs": a command that is
\* reported as answered was ended by a line of its own answer, not by a URC, when the
\* modem had said that answer from the first line to the last; it returns no line of
\* another command, and the whole answer if what was read fits the response buffer.
OwnAnswer ==
    Strays = 0 => \A r \in results : r.status = "done" =>
        /\ r.ended_by.cmd = r.id
        /\ \E t \in CommandTypes : Answers(r.said, t.answer, r.id)
        /\ \A k \in 1..Len(r.response) : r.response[k].cmd \in {0, r.id}
        /\ Len(r.said) <= MaxResponse => r.response = r.said

\* The caller and the subscribers of line events agree: the line of a terminal
\* event is the one that ended the command the event names.
TerminalEventIsAnswer ==
    Strays = 0 => \A e \in events : e.correlation = "terminal" =>
        \/ e.command_id = active_command_id /\ e.line = ended_by
        \/ \E r \in results : r.id = e.command_id /\ r.ended_by = e.line

\* Every command returns to its caller, answered or failed, without a timeout having to
\* free it, although answers nobody waited for arrive in between; as long as the line
\* buffer does not overflow, which may lose the line that ends a command.
CommandReturns == []<>(lost > 0 \/ upc \notin {"prepared", "wait"})
===============================================================================
