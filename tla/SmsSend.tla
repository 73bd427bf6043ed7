-------------------------------- MODULE SmsSend --------------------------------
(***************************************************************************)
(* Sending SMS for SIP peers: message_to_sms of qmodem-sipd calls          *)
(* send_managed of qmodem-smsd with a request_id derived from the SIP      *)
(* message, and smsd records the request before the first part goes to the *)
(* modem.  The SIP peer repeats a MESSAGE until it has an answer, the call *)
(* from sipd times out while smsd is still sending, the modem may take a   *)
(* part and report a failure, and smsd may die between any two steps.      *)
(***************************************************************************)
EXTENDS Integers, Sequences, FiniteSets

CONSTANTS
    Requests,       \* request ids
    Payloads,       \* modem, recipient and content of a request
    Parts,          \* Parts[p]: number of PDUs pdu_encode_ucs2_parts makes of p
    MaxCalls,       \* bound: SIP MESSAGEs received, repetitions included
    MaxSendFaults   \* bound: crashes, failing parts and failing database writes

ASSUME PartsAssumption == \A p \in Payloads : Parts[p] \in Nat \ {0}
ASSUME SendBoundAssumption == MaxCalls \in Nat /\ MaxSendFaults \in Nat

VARIABLES
    managed,        \* managed_sends: rows [request, payload, state]
    sent,           \* messages with direction 'sent': [request, payload, success]
    stage, call,    \* smsd: where send_method is, the call it serves
    part,           \* and the parts sent for it
    queue,          \* calls that wait in smsd's ubus socket
    waiting,        \* the call sipd waits for, 0 if none
    calls, sendFaults,
    accepted,       \* history: what the modem took, <<request, payload, part, how-manieth>>
    answers         \* history: [request, payload, result] given to the peer

smsd == <<managed, sent, stage, call, part>>
sendVars == <<smsd, queue, waiting, calls, sendFaults, accepted, answers>>

NoCall == [serial |-> 0, request |-> CHOOSE r \in Requests : TRUE,
           payload |-> CHOOSE p \in Payloads : TRUE]

SendInit ==
    /\ managed = {} /\ sent = {}
    /\ stage = "idle" /\ call = NoCall /\ part = 0
    /\ queue = <<>> /\ waiting = 0 /\ calls = 0 /\ sendFaults = 0
    /\ accepted = {} /\ answers = {}

SendFault == sendFaults < MaxSendFaults /\ sendFaults' = sendFaults + 1

-------------------------------------------------------------------------------
(* qmodem-sipd                                                             *)

\* message_to_sms: a MESSAGE, new or repeated, becomes a call
MessageToSms ==
    /\ waiting = 0 /\ calls < MaxCalls
    /\ calls' = calls + 1
    /\ waiting' = calls + 1
    /\ \E r \in Requests, p \in Payloads :
          queue' = Append(queue, [serial |-> calls + 1, request |-> r, payload |-> p])
    /\ UNCHANGED <<smsd, sendFaults, accepted, answers>>

\* UBUS_ACTION_TIMEOUT_MS pass: 503 to the peer; the call stays with smsd
InvokeTimeout ==
    /\ waiting # 0
    /\ waiting' = 0
    /\ UNCHANGED <<smsd, queue, calls, sendFaults, accepted, answers>>

\* ubus_send_reply: the answer reaches sipd if it still waits for this call
Reply(c, result) ==
    IF waiting = c.serial
    THEN /\ waiting' = 0
         /\ answers' = answers \cup {[request |-> c.request, payload |-> c.payload,
                                      result |-> result]}
    ELSE UNCHANGED <<waiting, answers>>

-------------------------------------------------------------------------------
(* send_method of qmodem-smsd                                              *)

RowOf(r) == {row \in managed : row.request = r}
SetState(r, s) ==
    {IF row.request = r THEN [row EXCEPT !.state = s] ELSE row : row \in managed}

\* the row that INSERT OR IGNORE would collide with
Known(c) == RowOf(c.request)

\* INSERT OR IGNORE INTO managed_sends
Record(c) == managed \cup {[request |-> c.request, payload |-> c.payload,
                            state |-> "sending"]}

\* mutant: a replay is not compared with what the request was for
Mut_ReplayResult(c, row) == IF row.state = "sending" THEN "in progress" ELSE row.state

\* the answer to a request id that is known
ReplayResult(c, row) ==
    IF row.payload # c.payload THEN "conflict"
    ELSE IF row.state = "sending" THEN "in progress" ELSE row.state

\* the next call is served: a new id is recorded, a known one only answered
BeginSend ==
    /\ stage = "idle" /\ queue # <<>>
    /\ queue' = Tail(queue)
    /\ LET c == Head(queue)
       IN  \/ /\ Known(c) # {}
              /\ \E row \in Known(c) : Reply(c, ReplayResult(c, row))
              /\ UNCHANGED smsd
           \/ /\ Known(c) = {}
              /\ managed' = Record(c)
              /\ stage' = "sending" /\ call' = c /\ part' = 0
              /\ UNCHANGED <<sent, waiting, answers>>
    /\ UNCHANGED <<calls, sendFaults, accepted>>

Accept == accepted' = accepted \cup
              {<<call.request, call.payload, part + 1, Cardinality(accepted) + 1>>}

\* run_tom hands the next part to the modem
SendPart ==
    /\ stage = "sending" /\ part < Parts[call.payload]
    /\ Accept
    /\ part' = part + 1
    /\ UNCHANGED <<managed, sent, stage, call, queue, waiting, calls, sendFaults, answers>>

\* mutant: the part is tried again
Mut_SendPartFails ==
    /\ stage = "sending" /\ part < Parts[call.payload] /\ SendFault
    /\ Accept \/ UNCHANGED accepted
    /\ UNCHANGED <<smsd, queue, waiting, calls, answers>>

\* run_tom or the modem fails, whether the part went out or not: no further part
SendPartFails ==
    /\ stage = "sending" /\ part < Parts[call.payload] /\ SendFault
    /\ Accept \/ UNCHANGED accepted
    /\ stage' = "failed"
    /\ UNCHANGED <<managed, sent, call, part, queue, waiting, calls, answers>>

\* the loop over the parts is done
AllSent == part = Parts[call.payload]

\* the history row is inserted
WriteHistory ==
    /\ \/ stage = "sending" /\ AllSent
       \/ stage = "failed"
    /\ sent' = sent \cup {[request |-> call.request, payload |-> call.payload,
                           success |-> stage = "sending"]}
    /\ stage' = IF stage = "sending" THEN "sent" ELSE "not sent"
    /\ UNCHANGED <<managed, call, part, queue, waiting, calls, sendFaults, accepted, answers>>

Return(state) ==
    /\ Reply(call, state)
    /\ stage' = "idle" /\ call' = NoCall /\ part' = 0

Finish(state) == managed' = SetState(call.request, state) /\ Return(state)

\* state and parts are recorded and the reply goes out
EndSend ==
    /\ stage \in {"sent", "not sent"}
    /\ Finish(IF stage = "sent" THEN "success" ELSE "error")
    /\ UNCHANGED <<sent, queue, calls, sendFaults, accepted>>

\* label error: a write failed, and the request counts as failed whatever was sent; if
\* this cannot be written either, its row stays as it was
InternalFailure ==
    /\ stage \in {"sent", "not sent"} \/ (stage = "sending" /\ AllSent) \/ stage = "failed"
    /\ SendFault
    /\ Finish("error") \/ (UNCHANGED managed /\ Return("error"))
    /\ UNCHANGED <<sent, queue, calls, accepted>>

\* smsd dies: the rows stay, the calls fail
SmsdCrash ==
    /\ SendFault
    /\ stage' = "idle" /\ call' = NoCall /\ part' = 0
    /\ queue' = <<>> /\ waiting' = 0
    /\ UNCHANGED <<managed, sent, calls, accepted, answers>>

SendNext == \/ MessageToSms \/ InvokeTimeout \/ BeginSend \/ SendPart \/ SendPartFails
            \/ WriteHistory \/ EndSend \/ InternalFailure \/ SmsdCrash

SendSpec == SendInit /\ [][SendNext]_sendVars
-------------------------------------------------------------------------------
(* Properties                                                              *)

SendTypeOK ==
    /\ managed \subseteq [request : Requests, payload : Payloads,
                          state : {"sending", "success", "error"}]
    /\ sent \subseteq [request : Requests, payload : Payloads, success : BOOLEAN]
    /\ stage \in {"idle", "sending", "failed", "sent", "not sent"}
    /\ part \in 0..Parts[call.payload]
    /\ waiting \in 0..calls /\ calls \in 0..MaxCalls /\ sendFaults \in 0..MaxSendFaults
    /\ \A r \in Requests : Cardinality(RowOf(r)) <= 1

\* "send_managed with the idempotent request_id": however often the peer repeats a
\* request, whatever times out, fails or crashes, no part of it is sent twice.
AtMostOnce ==
    \A a, b \in accepted : a[1] = b[1] /\ a[3] = b[3] => a = b

\* The peer's 200 OK is for its own message and means the modem took all of it.
OkMeansSent ==
    \A a \in answers : a.result = "success" =>
        \A k \in 1..Parts[a.payload] :
            \E x \in accepted : x[1] = a.request /\ x[2] = a.payload /\ x[3] = k
===============================================================================
