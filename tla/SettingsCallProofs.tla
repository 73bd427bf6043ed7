-------------------------- MODULE SettingsCallProofs --------------------------
(***************************************************************************)
(* Proofs about the lease that a run of qmodem-settings works under        *)
(* (Settings), and about the call of voipd (CallState).  The two components*)
(* share no variable.                                                      *)
(***************************************************************************)
EXTENDS Settings, CallState, SequenceTheorems, FiniteSetTheorems, TLAPS

Labels == {"idle", "lock", "open", "acquire", "write"} \cup Sending
Leases == [port : {Port}, owner : {Owner}, token : Tokens, left : 0..Ttl]

\* the tokens of leases that have not expired
Live(ls) == {l.token : l \in Expire(ls)}

\* There is at most one lease, so that a new token is one that no run knows
LeaseTable(ls) == ls \subseteq Leases /\ \A k, l \in ls : k = l

Typed ==
    /\ up \in BOOLEAN /\ orphaned \in BOOLEAN /\ terms \in Nat /\ LeaseTable(leases)
    /\ pc \in [Runs -> Labels] /\ token \in [Runs -> {NoToken} \cup Tokens]
    /\ degraded \in [Runs -> BOOLEAN] /\ foreign \in [Runs -> BOOLEAN]
    /\ up = FALSE => leases = {}

\* A lease belongs to a run that will release it
Owned == orphaned = FALSE => \A t \in Live(leases) : \E r \in Runs : token[r] = t /\ pc[r] \in Sending

\* A run that another client's command came between has lost its lease for good
Lost == terms = 0 => \A r \in Runs : pc[r] \in Sending =>
           token[r] # NoToken /\ (foreign[r] = TRUE => token[r] \notin Live(leases))

Ready == terms = 0 => \A r \in Runs :
            pc[r] = "write" /\ degraded[r] = FALSE => foreign[r] = FALSE

Inv == Typed /\ Owned /\ Lost /\ Ready
-------------------------------------------------------------------------------
\* expire_leases, renewal, release and the clock bring no token to life
LEMMA Shrinks ==
    ASSUME NEW ls, LeaseTable(ls), NEW t
    PROVE  /\ LeaseTable(Expire(ls)) /\ Live(Expire(ls)) \subseteq Live(ls)
           /\ LeaseTable(Release(ls, Port, Owner, t)) /\ Live(Release(ls, Port, Owner, t)) \subseteq Live(ls) \ {t}
           /\ LeaseTable(Renew(ls, Port, Owner, t)) /\ Live(Renew(ls, Port, Owner, t)) \subseteq Live(ls)
           /\ LeaseTable(Elapse(ls)) /\ Live(Elapse(ls)) \subseteq Live(ls)
  <1>1. LeaseTable(Expire(ls)) /\ Live(Expire(ls)) \subseteq Live(ls)
    BY DEF LeaseTable, Live, Expire
  <1>2. /\ LeaseTable(Release(ls, Port, Owner, t))
        /\ Live(Release(ls, Port, Owner, t)) \subseteq Live(ls) \ {t}
    BY DEF LeaseTable, Live, Expire, Release, Held, Leases
  <1>3. /\ LeaseTable(Renew(ls, Port, Owner, t))
        /\ Live(Renew(ls, Port, Owner, t)) \subseteq Live(ls)
    <2>1. \A m \in Renew(ls, Port, Owner, t) : \E l \in Expire(ls) :
             /\ m \in Leases /\ m.token = l.token
             /\ m = IF l \in Held(ls, Port, Owner, t) THEN Lease(Port, Owner, t) ELSE l
      BY TtlAssumption DEF LeaseTable, Expire, Renew, Held, Lease, Leases
    <2> QED BY <2>1 DEF LeaseTable, Live, Expire
  <1>4. LeaseTable(Elapse(ls)) /\ Live(Elapse(ls)) \subseteq Live(ls)
    <2>1. \A m \in Elapse(ls) : \E l \in ls :
             /\ m = [l EXCEPT !.left = IF @ = 0 THEN 0 ELSE @ - 1]
             /\ m \in Leases /\ m.token = l.token /\ (m.left > 0 => l.left > 0)
      BY TtlAssumption DEF LeaseTable, Elapse, Leases
    <2> QED BY <2>1 DEF LeaseTable, Live, Expire
  <1> QED BY <1>1, <1>2, <1>3, <1>4, Zenon

\* a step of run r that neither begins nor ends its commands, and does not renew a lease
\* that is gone; a run that goes to "write" this way is degraded
LEMMA Moved ==
    ASSUME Inv, NEW r \in Runs, NEW label \in Labels, pc' = [pc EXCEPT ![r] = label],
           LeaseTable(leases'), Live(leases') \subseteq Live(leases), up = FALSE => leases' = {},
           UNCHANGED <<up, token, foreign, orphaned, terms>>,
           pc[r] \in Sending <=> label \in Sending,
           degraded' \in [Runs -> BOOLEAN],
           \A q \in Runs \ {r} : degraded'[q] = degraded[q],
           label = "write" => degraded'[r] = TRUE
    PROVE  Inv'
  <1>1. pc' \in [Runs -> Labels] /\ pc'[r] = label /\ \A q \in Runs \ {r} : pc'[q] = pc[q]
    BY DEF Inv, Typed
  <1>2. \A q \in Runs : pc'[q] \in Sending <=> pc[q] \in Sending
    BY <1>1
  <1>3. Typed'
    BY <1>1 DEF Inv, Typed
  <1>4. Owned'
    BY <1>2 DEF Inv, Owned
  <1>5. Lost'
    BY <1>2 DEF Inv, Lost
  <1>6. Ready'
    BY <1>1 DEF Inv, Ready
  <1> QED BY <1>3, <1>4, <1>5, <1>6 DEF Inv

\* steps of the daemon, the modem and the clock
LEMMA Outside ==
    ASSUME Inv, UNCHANGED <<pc, token, degraded, foreign, orphaned, terms>>, up' \in BOOLEAN,
           LeaseTable(leases'), Live(leases') \subseteq Live(leases), up' = FALSE => leases' = {}
    PROVE  Inv'
  <1>1. Typed'
    BY DEF Inv, Typed
  <1>2. Owned' /\ Lost' /\ Ready'
    BY DEF Inv, Owned, Lost, Ready
  <1> QED BY <1>1, <1>2 DEF Inv

\* the daemon gives a run a token that no lease and no run has
LEMMA FreshToken ==
    ASSUME Typed
    PROVE  NewToken \in Tokens /\ \A q \in Runs : token[q] # NewToken
  <1>1. PICK x : \A l \in leases : l.token = x
    <2>1. CASE leases = {}
      BY <2>1
    <2>2. CASE leases # {}
      BY <2>2 DEF Typed, LeaseTable
    <2> QED BY <2>1, <2>2
  <1>2. \E t \in Tokens : t # x /\ t # token["watch"] /\ t # token["cli"]
    BY DEF Tokens
  <1>3. \E t \in Tokens : (\A l \in leases : l.token # t) /\ \A q \in Runs : token[q] # t
    BY <1>1, <1>2 DEF Runs
  <1> QED BY <1>3 DEF NewToken

\* lease_acquire is granted
LEMMA Granted ==
    ASSUME Inv, NEW r \in Runs, pc[r] = "acquire", up, Leasable(leases, Port),
           leases' = Acquire(leases, Port, Owner, NewToken)
    PROVE  /\ LeaseTable(leases') /\ Live(leases') \subseteq {NewToken}
           /\ NewToken \in Tokens /\ \A q \in Runs : token[q] # NewToken
  <1>1. NewToken \in Tokens /\ \A q \in Runs : token[q] # NewToken
    BY FreshToken DEF Inv
  <1>2. Expire(leases) = {}
    BY DEF Leasable, Expire, Inv, Typed, LeaseTable, Leases
  <1>3. leases' = {Lease(Port, Owner, NewToken)}
    BY <1>2 DEF Acquire
  <1>4. Lease(Port, Owner, NewToken) \in Leases /\ Lease(Port, Owner, NewToken).token = NewToken
    BY <1>1, TtlAssumption DEF Lease, Leases
  <1> QED BY <1>1, <1>3, <1>4 DEF LeaseTable, Live, Expire

\* lease_acquire: granted, granted too orphaned, or refused
LEMMA AcquireInv ==
    ASSUME Inv, NEW r \in Runs, AcquireLease(r)
    PROVE  Inv'
  <1>0. /\ pc[r] = "acquire" /\ UNCHANGED <<up, terms>>
        /\ "acquire" \notin Sending /\ "write" \notin Sending /\ "storage" \in Sending
    BY DEF AcquireLease, Sending
  <1>1. CASE /\ up /\ Leasable(leases, Port) /\ leases' = Acquire(leases, Port, Owner, NewToken)
             /\ token' = [token EXCEPT ![r] = NewToken]
             /\ foreign' = [foreign EXCEPT ![r] = FALSE]
             /\ Goto(r, "storage") /\ orphaned' = FALSE /\ UNCHANGED degraded
    <2>1. /\ LeaseTable(leases') /\ Live(leases') \subseteq {NewToken}
          /\ NewToken \in Tokens /\ \A q \in Runs : token[q] # NewToken
      BY <1>0, <1>1, Granted
    <2>2. /\ pc' \in [Runs -> Labels] /\ pc'[r] = "storage"
          /\ \A q \in Runs \ {r} : pc'[q] = pc[q]
      BY <1>0, <1>1 DEF Inv, Typed, Goto, Labels
    <2>3. /\ token' \in [Runs -> {NoToken} \cup Tokens] /\ token'[r] = NewToken
          /\ \A q \in Runs \ {r} : token'[q] = token[q]
      BY <1>1, <2>1 DEF Inv, Typed
    <2>4. /\ foreign' \in [Runs -> BOOLEAN] /\ foreign'[r] = FALSE
          /\ \A q \in Runs \ {r} : foreign'[q] = foreign[q]
      BY <1>1 DEF Inv, Typed
    <2>5. /\ orphaned' \in BOOLEAN /\ terms' \in Nat /\ up' \in BOOLEAN /\ up' # FALSE
          /\ degraded' \in [Runs -> BOOLEAN]
      BY <1>0, <1>1, Zenon DEF Inv, Typed
    <2>6. Typed'
      BY <2>1, <2>2, <2>3, <2>4, <2>5, Zenon DEF Typed
    <2>7. Owned'
      BY <1>0, <2>1, <2>2, <2>3 DEF Owned
    <2>8. NewToken # NoToken
      BY <2>1 DEF Tokens, NoToken
    <2>9. Lost'
      BY <1>0, <2>1, <2>2, <2>3, <2>4, <2>8 DEF Inv, Lost
    <2>10. Ready'
      BY <1>0, <1>1, <2>2, <2>4, Zenon DEF Inv, Ready
    <2> QED BY <2>6, <2>7, <2>9, <2>10 DEF Inv
  <1>2. CASE /\ up /\ Leasable(leases, Port) /\ leases' = Acquire(leases, Port, Owner, NewToken)
             /\ orphaned' = TRUE /\ Degrade(r, "write") /\ UNCHANGED <<token, foreign>>
    <2>1. /\ LeaseTable(leases') /\ Live(leases') \subseteq {NewToken}
          /\ \A q \in Runs : token[q] # NewToken
      BY <1>0, <1>2, Granted, Zenon
    <2>2. /\ pc' \in [Runs -> Labels] /\ pc'[r] = "write"
          /\ \A q \in Runs \ {r} : pc'[q] = pc[q]
      BY <1>2 DEF Inv, Typed, Degrade, Goto, Labels
    <2>3. /\ degraded' \in [Runs -> BOOLEAN] /\ degraded'[r] = TRUE
          /\ \A q \in Runs \ {r} : degraded'[q] = degraded[q]
      BY <1>2 DEF Inv, Typed, Degrade
    <2>4. Typed'
      BY <1>0, <1>2, <2>1, <2>2, <2>3 DEF Inv, Typed
    <2>5. Owned'
      BY <1>2, Zenon DEF Owned
    <2>6. Lost'
      BY <1>0, <1>2, <2>1, <2>2 DEF Inv, Lost
    <2>7. Ready'
      BY <1>0, <1>2, <2>2, <2>3 DEF Inv, Ready
    <2> QED BY <2>4, <2>5, <2>6, <2>7 DEF Inv
  <1>3. CASE Degrade(r, "write") /\ UNCHANGED <<leases, token, foreign, orphaned>>
    <2>1. /\ pc' = [pc EXCEPT ![r] = "write"]
          /\ degraded' \in [Runs -> BOOLEAN] /\ degraded'[r] = TRUE
          /\ \A q \in Runs \ {r} : degraded'[q] = degraded[q]
      BY <1>3 DEF Inv, Typed, Degrade, Goto
    <2>2. LeaseTable(leases') /\ (up = FALSE => leases' = {}) /\ "write" \in Labels
      BY <1>3 DEF Inv, Typed, Labels
    <2> QED BY <1>0, <1>3, <2>1, <2>2, Moved, Zenon
  <1> QED BY <1>1, <1>2, <1>3, Zenon DEF AcquireLease

\* release_lease, answered or not: what it does to leases and tokens
LEMMA GivenBack ==
    ASSUME Inv, NEW r \in Runs, GiveBack(r) \/ NoAnswer(r)
    PROVE  /\ LeaseTable(leases') /\ Live(leases') \subseteq Live(leases)
           /\ up = FALSE => leases' = {}
           /\ token' \in [Runs -> {NoToken} \cup Tokens]
           /\ \A q \in Runs \ {r} : token'[q] = token[q]
           /\ \/ token' = token
              \/ token'[r] = NoToken /\ token[r] \notin Live(leases')
  <1>1. LeaseTable(leases) /\ token \in [Runs -> {NoToken} \cup Tokens] /\ (up = FALSE => leases = {})
    BY DEF Inv, Typed
  <1> DEFINE R == Release(leases, Port, Owner, token[r])
  <1>2. /\ LeaseTable(R) /\ Live(R) \subseteq Live(leases) \ {token[r]}
        /\ leases = {} => R = {}
    <2>1. LeaseTable(R) /\ Live(R) \subseteq Live(leases) \ {token[r]}
      BY <1>1, Shrinks, Zenon
    <2>2. leases = {} => R = {}
      BY Zenon DEF Release, Expire
    <2> QED BY <2>1, <2>2, Zenon
  <1>3. leases' = leases \/ leases' = R
    BY Zenon DEF GiveBack, NoAnswer
  <1> HIDE DEF R
  <1>4. /\ LeaseTable(leases') /\ Live(leases') \subseteq Live(leases)
        /\ up = FALSE => leases' = {}
    BY <1>1, <1>2, <1>3
  <1>5. CASE NoAnswer(r)
    BY <1>1, <1>4, <1>5, Zenon DEF NoAnswer
  <1>6. CASE GiveBack(r)
    <2>1. /\ token' \in [Runs -> {NoToken} \cup Tokens] /\ token'[r] = NoToken
          /\ \A q \in Runs \ {r} : token'[q] = token[q]
      BY <1>1, <1>6 DEF GiveBack
    <2>2. CASE token[r] = NoToken
      <3>1. \A x \in Live(leases') : x \in Tokens
        BY <1>4 DEF Live, Expire, LeaseTable, Leases
      <3>2. NoToken \notin Tokens
        BY DEF NoToken, Tokens
      <3> QED BY <1>4, <2>1, <2>2, <3>1, <3>2, Zenon
    <2>3. CASE token[r] # NoToken
      <3>1. leases' = R
        BY <1>6, <2>3, Zenon DEF GiveBack, R
      <3> QED BY <1>2, <1>4, <2>1, <3>1
    <2> QED BY <2>2, <2>3, Zenon
  <1> QED BY <1>5, <1>6, Zenon

\* release_lease: a run whose lease is still there had the port for itself
LEMMA ReleaseInv ==
    ASSUME Inv, NEW r \in Runs, ReleaseLease(r)
    PROVE  Inv'
  <1>0. /\ pc[r] = "release" /\ pc' = [pc EXCEPT ![r] = "write"]
        /\ UNCHANGED <<up, foreign, terms>>
        /\ "write" \notin Sending /\ "release" \in Sending
    BY DEF ReleaseLease, Goto, Degrade, Sending
  <1>1. /\ LeaseTable(leases') /\ Live(leases') \subseteq Live(leases)
        /\ up = FALSE => leases' = {}
        /\ token' \in [Runs -> {NoToken} \cup Tokens]
        /\ \A q \in Runs \ {r} : token'[q] = token[q]
    BY GivenBack, Zenon DEF ReleaseLease
  <1>2. /\ pc' \in [Runs -> Labels] /\ pc'[r] = "write"
        /\ \A q \in Runs \ {r} : pc'[q] = pc[q]
    BY <1>0 DEF Inv, Typed, Labels
  <1>3. /\ degraded' \in [Runs -> BOOLEAN]
        /\ \A q \in Runs \ {r} : degraded'[q] = degraded[q]
        /\ Released(r) \/ degraded'[r] = TRUE
    BY Zenon DEF ReleaseLease, Degrade, Inv, Typed
  <1>4. orphaned' \in BOOLEAN /\ (orphaned' = FALSE => orphaned = FALSE /\ GiveBack(r))
    BY Zenon DEF ReleaseLease, Inv, Typed
  <1>5. Typed'
    BY <1>0, <1>1, <1>2, <1>3, <1>4, Zenon DEF Inv, Typed
  <1>6. Owned'
    <2> SUFFICES ASSUME orphaned' = FALSE, NEW t \in Live(leases')
                 PROVE  \E q \in Runs : token'[q] = t /\ pc'[q] \in Sending
      BY Zenon DEF Owned
    <2>1. PICK q \in Runs : token[q] = t /\ pc[q] \in Sending
      BY <1>1, <1>4 DEF Inv, Owned
    <2>2. (token'[r] = NoToken /\ token[r] \notin Live(leases')) \/ token' = token
      BY <1>4, GivenBack, Zenon
    <2>3. t # NoToken
      BY <1>1 DEF Live, Expire, LeaseTable, Leases, Tokens, NoToken
    <2>4. token'[r] = NoToken
      BY <1>4 DEF GiveBack, Inv, Typed
    <2>5. q # r
      BY <2>1, <2>2, <2>3, <2>4, Zenon
    <2> QED BY <1>1, <1>2, <2>1, <2>5, Zenon
  <1>7. Lost'
    BY <1>0, <1>1, <1>2 DEF Inv, Lost
  <1>8. ASSUME terms = 0, Released(r) PROVE foreign[r] = FALSE
    <2>1. token[r] # NoToken /\ (foreign[r] = TRUE => token[r] \notin Live(leases))
      BY <1>0, <1>8, Zenon DEF Inv, Lost
    <2>2. Held(leases, Port, Owner, token[r]) # {}
      BY <1>8, <2>1 DEF Released, HasLease
    <2>3. token[r] \in Live(leases)
      BY <2>2 DEF Held, Live
    <2> QED BY <2>1, <2>3 DEF Inv, Typed
  <1>9. Ready'
    BY <1>0, <1>2, <1>3, <1>8, Zenon DEF Inv, Ready
  <1> QED BY <1>5, <1>6, <1>7, <1>9 DEF Inv

\* the trap gives up the lease with the token, or keeps both
LEMMA TrapInv ==
    ASSUME Inv, NEW r \in Runs, Trap(r)
    PROVE  Inv'
  <1>0. UNCHANGED <<up, pc, degraded, foreign, orphaned>> /\ terms' = terms + 1
    BY DEF Trap
  <1>1. /\ LeaseTable(leases') /\ Live(leases') \subseteq Live(leases)
        /\ up = FALSE => leases' = {}
        /\ token' \in [Runs -> {NoToken} \cup Tokens]
        /\ \A q \in Runs \ {r} : token'[q] = token[q]
        /\ token' = token \/ token[r] \notin Live(leases')
    BY GivenBack, Zenon DEF Trap
  <1>2. terms' \in Nat /\ terms' # 0
    BY <1>0 DEF Inv, Typed
  <1>3. Typed'
    BY <1>0, <1>1, <1>2 DEF Inv, Typed
  <1>4. Owned'
    BY <1>0, <1>1 DEF Inv, Owned
  <1> QED BY <1>2, <1>3, <1>4 DEF Inv, Lost, Ready

\* another client's command goes out only without a live lease
LEMMA ForeignInv ==
    ASSUME Inv, Foreign
    PROVE  Inv'
  <1>0. UNCHANGED <<up, leases, pc, token, degraded, orphaned, terms>>
        /\ foreign' = [r \in Runs |-> foreign[r] \/ pc[r] \in Sending]
    BY Zenon DEF Foreign, daemon, bounds
  <1>1. Live(leases) = {}
    <2>1. \A l \in Expire(leases) : l.port = Port /\ l.owner = Owner
      BY DEF Inv, Typed, LeaseTable, Leases, Expire
    <2>2. Expire(leases) = {}
      BY <2>1 DEF Foreign, Authorize, Owner, None
    <2> QED BY <2>2 DEF Live
  <1>2. foreign' \in [Runs -> BOOLEAN]
    BY <1>0
  <1>3. \A r \in Runs : pc[r] \notin Sending /\ foreign[r] = FALSE => foreign'[r] = FALSE
    BY <1>0, Zenon
  <1>4. Typed'
    BY <1>0, <1>2 DEF Inv, Typed
  <1>5. Owned' /\ Lost'
    BY <1>0, <1>1 DEF Inv, Owned, Lost
  <1>6. Ready'
    <2>1. "write" \notin Sending
      BY DEF Sending
    <2> QED BY <1>0, <1>3, <2>1 DEF Inv, Ready
  <1> QED BY <1>4, <1>5, <1>6 DEF Inv

\* mkdir succeeds: the run begins
LEMMA LockInv ==
    ASSUME Inv, NEW r \in Runs, Lock(r)
    PROVE  Inv'
  <1>0. /\ pc[r] = "lock" /\ UNCHANGED <<up, leases, foreign, orphaned, terms>>
        /\ "lock" \notin Sending /\ "open" \notin Sending
    BY DEF Lock, daemon, bounds, Sending
  <1>1. /\ pc' \in [Runs -> Labels] /\ pc'[r] = "open"
        /\ \A q \in Runs \ {r} : pc'[q] = pc[q]
    BY DEF Lock, Goto, Inv, Typed, Labels
  <1>2. /\ token' \in [Runs -> {NoToken} \cup Tokens]
        /\ \A q \in Runs \ {r} : token'[q] = token[q]
    BY DEF Lock, Inv, Typed
  <1>3. /\ degraded' \in [Runs -> BOOLEAN]
        /\ \A q \in Runs \ {r} : degraded'[q] = degraded[q]
    BY DEF Lock, Inv, Typed
  <1>4. Typed'
    BY <1>0, <1>1, <1>2, <1>3 DEF Inv, Typed
  <1>5. Owned'
    BY <1>0, <1>1, <1>2 DEF Inv, Owned
  <1>6. Lost'
    BY <1>0, <1>1, <1>2, Zenon DEF Inv, Lost
  <1>7. Ready'
    BY <1>0, <1>1, <1>3, Zenon DEF Inv, Ready
  <1> QED BY <1>4, <1>5, <1>6, <1>7 DEF Inv

\* the other steps of a run: each is one of those of Moved
LEMMA StepInv ==
    ASSUME Inv, NEW r \in Runs,
           \/ Locked(r) \/ Write(r) \/ Open(r) \/ RenewLease(r) \/ RegisterUrc(r)
           \/ \E g \in Groups : Send(r, g) \/ SendFails(r, g)
    PROVE  Inv'
  <1>0. LeaseTable(leases) /\ (up = FALSE => leases = {}) /\ degraded \in [Runs -> BOOLEAN]
    BY DEF Inv, Typed
  <1>1. \A d : d = [degraded EXCEPT ![r] = TRUE] => /\ d \in [Runs -> BOOLEAN] /\ d[r] = TRUE
                                                    /\ \A q \in Runs \ {r} : d[q] = degraded[q]
    BY <1>0
  <1>2. UNCHANGED <<up, token, foreign, orphaned, terms>>
    BY Zenon DEF Locked, Write, Open, RenewLease, RegisterUrc, Send, SendFails, daemon, bounds
  <1>3. CASE Locked(r) \/ Write(r)
    <2>1. pc[r] \in {"lock", "write"} /\ pc' = [pc EXCEPT ![r] = "idle"] /\ UNCHANGED <<leases, degraded>>
      BY <1>3, Zenon DEF Locked, Write, Goto, daemon
    <2>2. pc[r] \notin Sending /\ "idle" \notin Sending /\ "idle" \in Labels
      BY <2>1 DEF Sending, Labels
    <2> QED BY <1>0, <1>2, <2>1, <2>2, Moved, Zenon
  <1>4. CASE Open(r)
    <2>1. pc[r] = "open" /\ leases' = leases
      BY <1>4 DEF Open, daemon
    <2>2. /\ {"open", "acquire", "write"} \cap Sending = {} /\ {"acquire", "write"} \subseteq Labels
      BY DEF Sending, Labels
    <2>3. CASE Goto(r, "acquire") /\ degraded' = degraded
      BY <1>0, <1>2, <2>1, <2>2, <2>3, Moved, Zenon DEF Goto
    <2>4. CASE Degrade(r, "write")
      BY <1>0, <1>1, <1>2, <2>1, <2>2, <2>4, Moved, Zenon DEF Goto, Degrade
    <2> QED BY <1>4, <2>3, <2>4 DEF Open
  <1>5. CASE RenewLease(r)
    <2>1. /\ pc[r] = "renew" /\ pc' = [pc EXCEPT ![r] = "hook"]
          /\ degraded' = degraded \/ degraded' = [degraded EXCEPT ![r] = TRUE]
          /\ leases' = leases \/ (up /\ leases' = Renew(leases, Port, Owner, token[r]))
      BY <1>5, Zenon DEF RenewLease, Goto, Degrade
    <2>2. /\ LeaseTable(leases') /\ Live(leases') \subseteq Live(leases)
          /\ up = FALSE => leases' = {}
      BY <1>0, <2>1, Shrinks
    <2>3. "renew" \in Sending /\ "hook" \in Sending /\ "hook" \in Labels
      BY DEF Sending, Labels
    <2> QED BY <1>0, <1>1, <1>2, <2>1, <2>2, <2>3, Moved, Zenon
  <1>6. CASE RegisterUrc(r)
    <2>1. /\ pc[r] = "register" /\ pc' = [pc EXCEPT ![r] = "release"] /\ leases' = leases
          /\ degraded' = degraded \/ degraded' = [degraded EXCEPT ![r] = TRUE]
      BY <1>6, Zenon DEF RegisterUrc, Goto, Degrade
    <2>2. "register" \in Sending /\ "release" \in Sending /\ "release" \in Labels
      BY DEF Sending, Labels
    <2> QED BY <1>0, <1>1, <1>2, <2>1, <2>2, Moved, Zenon
  <1>7. ASSUME NEW g \in Groups, Send(r, g) \/ SendFails(r, g) PROVE Inv'
    <2>1. PICK label \in Sending : pc' = [pc EXCEPT ![r] = label]
      <3>1. After[g] \in Sending /\ AfterFailure[g] \in Sending
        BY DEF After, AfterFailure, Groups, Sending
      <3> QED BY <1>7, <3>1, Zenon DEF Send, SendFails, Degrade, Goto
    <2>2. pc[r] \in Sending /\ label \in Labels
      BY <1>7, Zenon DEF Send, SendFails, Groups, Sending, Labels
    <2>3. degraded' = degraded \/ degraded' = [degraded EXCEPT ![r] = TRUE]
      BY <1>7, Zenon DEF Send, SendFails, Degrade
    <2>4. /\ LeaseTable(leases') /\ Live(leases') \subseteq Live(leases)
          /\ up = FALSE => leases' = {}
      <3>1. leases' = leases \/ (leases' = Expire(leases) /\ up)
        BY <1>7, Zenon DEF Send, SendFails, daemon
      <3> QED BY <1>0, <3>1, Shrinks
    <2>5. label # "write"
      BY DEF Sending
    <2> QED BY <1>0, <1>1, <1>2, <2>1, <2>2, <2>3, <2>4, <2>5, Moved, Zenon
  <1> QED BY <1>3, <1>4, <1>5, <1>6, <1>7
-------------------------------------------------------------------------------
\* no lease and no run at start
LEMMA InitInv == Init => Inv
  <1> SUFFICES ASSUME Init PROVE Inv
    OBVIOUS
  <1>1. Typed
    BY Zenon DEF Init, Typed, LeaseTable, Labels
  <1>2. Live(leases) = {}
    BY DEF Init, Live, Expire
  <1>3. \A r \in Runs : pc[r] = "idle" /\ "idle" \notin Sending
    BY DEF Init, Sending
  <1> QED BY <1>1, <1>2, <1>3, Zenon DEF Inv, Owned, Lost, Ready

\* the invariant is inductive
LEMMA NextInv == Inv /\ [Next]_vars => Inv'
  <1> SUFFICES ASSUME Inv, [Next]_vars PROVE Inv'
    OBVIOUS
  <1>0. LeaseTable(leases) /\ (up = FALSE => leases = {}) /\ up \in BOOLEAN
        /\ degraded \in [Runs -> BOOLEAN]
    BY DEF Inv, Typed
  <1>1. CASE Poll \/ Start
    <2>1. PICK r \in Runs : pc[r] = "idle" /\ pc' = [pc EXCEPT ![r] = "lock"]
      BY <1>1 DEF Poll, Start, Goto, Runs
    <2>2. UNCHANGED <<up, leases, token, degraded, foreign, orphaned, terms>>
      BY <1>1, Zenon DEF Poll, Start, daemon, bounds
    <2>3. "idle" \notin Sending /\ "lock" \notin Sending /\ "lock" \in Labels
      BY DEF Sending, Labels
    <2> QED BY <1>0, <2>1, <2>2, <2>3, Moved, Zenon
  <1>2. CASE Replug \/ Reopen \/ UNCHANGED vars
    <2>1. UNCHANGED <<up, leases, pc, token, degraded, foreign, orphaned, terms>>
      BY <1>2, Zenon DEF Replug, Reopen, vars, daemon, bounds
    <2> QED BY <1>0, <2>1, Outside, Zenon
  <1>3. CASE Stop
    <2>1. up' = FALSE /\ leases' = {} /\ UNCHANGED <<pc, token, degraded, foreign, orphaned, terms>>
      BY <1>3 DEF Stop
    <2>2. LeaseTable({}) /\ Live({}) = {}
      BY DEF LeaseTable, Live, Expire
    <2> QED BY <2>1, <2>2, Outside, Zenon
  <1>4. CASE Respawn
    <2>1. up' = TRUE /\ UNCHANGED <<leases, pc, token, degraded, foreign, orphaned, terms>>
      BY <1>4 DEF Respawn, bounds
    <2> QED BY <1>0, <2>1, Outside
  <1>5. CASE Tick
    <2>1. leases' = Elapse(leases) /\ UNCHANGED <<up, pc, token, degraded, foreign, orphaned, terms>>
          /\ leases # {}
      BY <1>5 DEF Tick, bounds
    <2>2. LeaseTable(leases') /\ Live(leases') \subseteq Live(leases)
      BY <1>0, <2>1, Shrinks, Zenon
    <2> QED BY <1>0, <2>1, <2>2, Outside, Zenon
  <1>6. ASSUME NEW r \in Runs, Run(r) \/ Trap(r) PROVE Inv'
    BY <1>6, LockInv, AcquireInv, ReleaseInv, StepInv, TrapInv DEF Run, ApplyOne
  <1> QED BY <1>1, <1>2, <1>3, <1>4, <1>5, <1>6, ForeignInv DEF Next

\* No run of qmodem-settings leaves the port leased when it ends (release_lease and the
\* trap), unless the call that granted its lease or was to release it got no answer: for
\* every length of the lease and any number of runs, restarts, resets, failing commands and
\* signals.
THEOREM LeaseReleased == Spec => []NoLeaseLeft
  <1>1. Inv => NoLeaseLeft
    <2> SUFFICES ASSUME Inv, ~orphaned, \A r \in Runs : pc[r] = "idle" PROVE Expire(leases) = {}
      BY DEF NoLeaseLeft
    <2>1. orphaned = FALSE /\ \A r \in Runs : pc[r] \notin Sending
      BY DEF Inv, Typed, Sending
    <2>2. Live(leases) = {}
      BY <2>1, Zenon DEF Inv, Owned
    <2> QED BY <2>2, Zenon DEF Live
  <1> QED BY <1>1, InitInv, NextInv, PTL DEF Spec

\* As long as no signal comes, a run that reports "ready" had the port for itself: a
\* command of another client means that its lease was gone, and release_lease finds
\* out, since the daemon gives nobody else the token of that run.
THEOREM ReadyIsExclusive == Spec => []ReadyMeansExclusive
  <1>1. Inv => ReadyMeansExclusive
    BY DEF Inv, Typed, Ready, ReadyMeansExclusive
  <1> QED BY <1>1, InitInv, NextInv, PTL DEF Spec
-------------------------------------------------------------------------------
(* The call                                                                *)

\* The slot, the modem's call and the events, and what is known of each
Stats == {"none", "dialing", "alerting", "incoming", "active"}
Dirs == {"none", "in", "out"}
Voices == [dir : Dirs, stat : Stats, empty : BOOLEAN]
Slots == [state : States, origin : Endpoints \cup {"none", "cellular"},
          owner : Endpoints \cup {"none"}, started : BOOLEAN, pending : BOOLEAN, id : Nat,
          misses : {0, 1}, idle_poll : BOOLEAN, idle_at : BOOLEAN, synced : BOOLEAN]
Events == [kind : {"ring", "release", "ok", "error", "clcc"},
           corr : {"idle", "response", "terminal"}, id : Nat, free : BOOLEAN, stat : Stats,
           dir : Dirs, empty : BOOLEAN, gap : BOOLEAN]

\* a release is sent when the call is gone; the end of a command and a +CLCC line
\* carry the id of their command, and the latter describes a call
Proper(e) ==
    /\ e \in Events
    /\ e.kind = "release" => e.free = TRUE
    /\ e.kind \in {"ok", "error"} => e.corr = "terminal" /\ e.id # 0
    /\ e.kind = "clcc" => e.corr = "response" /\ e.id # 0 /\ e.stat # "none"

ProperQueue(q) == q \in Seq(Events) /\ \A k \in 1 .. Len(q) : Proper(q[k])
ProperVoice(v) == v \in Voices /\ (v = NoCall <=> v.stat = "none")

CallTyped ==
    /\ slot \in Slots /\ ProperVoice(modem) /\ ProperQueue(queue)
    /\ unseen \in BOOLEAN /\ reading \in BOOLEAN
    /\ calls \in Nat /\ withheld \in Nat /\ gaps \in Nat /\ lost \in Nat
    /\ foreigns \in Nat /\ tones \in Nat /\ errors \in Nat
-------------------------------------------------------------------------------
\* there are more candidates than ids in use
LEMMA FreshIdType ==
    ASSUME NEW c \in Slots, NEW q \in Seq(Events)
    PROVE  FreshId(c, q) \in Nat /\ FreshId(c, q) # 0
  <1> DEFINE n == Len(q)
             N == 1 .. n + 2
             used(i) == CHOOSE k \in 1 .. n : q[k].id = i
             f == [i \in N |-> IF i = c.id THEN 0 ELSE used(i)]
  <1>0. n \in Nat /\ DOMAIN q = 1 .. n
    OBVIOUS
  <1>1. \E i \in N : i # c.id /\ \A k \in 1 .. n : q[k].id # i
    <2> SUFFICES ASSUME \A i \in N : i = c.id \/ \E k \in 1 .. n : q[k].id = i
                 PROVE  FALSE
      OBVIOUS
    <2>1. ASSUME NEW i \in N, i # c.id PROVE used(i) \in 1 .. n /\ q[used(i)].id = i
      <3>1. PICK k \in 1 .. n : q[k].id = i
        BY <2>1
      <3> QED BY <3>1
    <2>2. \A i \in N : f[i] = IF i = c.id THEN 0 ELSE used(i)
      OBVIOUS
    <2> HIDE DEF used, f
    <2>3. f \in [N -> 0 .. n]
      <3>1. f = [i \in N |-> f[i]]
        BY Zenon DEF f
      <3>2. \A i \in N : f[i] \in 0 .. n
        BY <1>0, <2>1, <2>2
      <3> HIDE DEF N
      <3> QED BY <3>1, <3>2, Zenon
    <2>4. ASSUME NEW i \in N, NEW j \in N, f[i] = f[j] PROVE i = j
      BY <1>0, <2>1, <2>2, <2>4
    <2>5. f \in Injection(N, 0 .. n)
      BY <2>3, <2>4 DEF Injection, IsInjective
    <2>6. IsFiniteSet(0 .. n) /\ Cardinality(0 .. n) = n + 1 /\ Cardinality(N) = n + 2
      BY <1>0, FS_Interval
    <2>7. Cardinality(N) <= Cardinality(0 .. n)
      <3> HIDE DEF N, n
      <3> QED BY <2>5, <2>6, FS_Injection, Zenon
    <2> QED BY <1>0, <2>6, <2>7
  <1>2. FreshId(c, q) \in N
    <2> HIDE DEF n
    <2>1. FreshId(c, q) = CHOOSE i \in N : i # c.id /\ \A k \in 1 .. n : q[k].id # i
      BY <1>0 DEF FreshId, n
    <2> HIDE DEF N
    <2> QED BY <1>1, <2>1
  <1> QED BY <1>0, <1>2

\* a line the modem sends says what its handlers rely on
LEMMA LineProper ==
    ASSUME NEW v, ProperVoice(v), NEW id \in Nat
    PROVE  /\ Proper(Line("ring", "idle", id, v))
           /\ v = NoCall => Proper(Line("release", "idle", id, v))
           /\ id # 0 => /\ Proper(Line("ok", "terminal", id, v))
                        /\ Proper(Line("error", "terminal", id, v))
                        /\ v # NoCall => Proper(Line("clcc", "response", id, v))
  BY Zenon DEF Line, Proper, Events, ProperVoice, Voices

\* lines come to the end of the queue; the first one shows the gap before it
LEMMA QueuedProper ==
    ASSUME NEW q, NEW lines, ProperQueue(q), ProperQueue(lines), unseen \in BOOLEAN
    PROVE  ProperQueue(Queued(q, lines))
  <1> DEFINE marked == [i \in DOMAIN lines |-> [lines[i] EXCEPT !.gap = i = 1 /\ unseen]]
  <1>1. \A i \in 1 .. Len(lines) : Proper([lines[i] EXCEPT !.gap = i = 1 /\ unseen])
    <2> SUFFICES ASSUME NEW i \in 1 .. Len(lines)
                 PROVE  Proper([lines[i] EXCEPT !.gap = i = 1 /\ unseen])
      OBVIOUS
    <2>1. Proper(lines[i]) /\ (i = 1 /\ unseen) \in BOOLEAN
      BY Zenon DEF ProperQueue
    <2> QED BY <2>1, Zenon DEF Proper, Events
  <1>2. /\ marked \in Seq(Events) /\ Len(marked) = Len(lines)
        /\ \A i \in 1 .. Len(lines) : Proper(marked[i])
    <2>1. DOMAIN lines = 1 .. Len(lines) /\ Len(lines) \in Nat
      BY DEF ProperQueue
    <2>2. \A i \in 1 .. Len(lines) : marked[i] \in Events
      BY <1>1, <2>1 DEF Proper
    <2> QED BY <1>1, <2>1, <2>2
  <1>3. Queued(q, lines) = q \o marked
    BY DEF Queued
  <1> HIDE DEF marked
  <1> QED BY <1>2, <1>3 DEF ProperQueue

\* one line comes to the end of the queue, with the gap before it
LEMMA QueuedOne ==
    ASSUME NEW q \in Seq(Events), NEW e \in Events, unseen \in BOOLEAN
    PROVE  Queued(q, <<e>>) = Append(q, [e EXCEPT !.gap = unseen])
  BY DEF Queued, Events

\* so do the two lines of a snapshot, of which the first shows the gap
LEMMA QueuedTwo ==
    ASSUME NEW q \in Seq(Events), NEW a \in Events, NEW b \in Events, b.gap = FALSE,
           unseen \in BOOLEAN
    PROVE  Queued(q, <<a, b>>) = Append(Append(q, [a EXCEPT !.gap = unseen]), b)
  <1> DEFINE lines == <<a, b>>
             marked == [i \in DOMAIN lines |-> [lines[i] EXCEPT !.gap = i = 1 /\ unseen]]
             a1 == [a EXCEPT !.gap = unseen]
  <1>1. [b EXCEPT !.gap = FALSE] = b
    BY DEF Events
  <1>2. marked = <<a1, b>>
    <2>1. DOMAIN lines = {1, 2} /\ lines[1] = a /\ lines[2] = b
      OBVIOUS
    <2>2. (1 = 1 /\ unseen) = unseen /\ (2 = 1 /\ unseen) = FALSE
      OBVIOUS
    <2>3. DOMAIN marked = {1, 2} /\ marked[1] = a1 /\ marked[2] = b
      BY <1>1, <2>1, <2>2, Zenon
    <2>4. marked \in Seq(Events)
      <3>1. 1 .. 2 = {1, 2}
        OBVIOUS
      <3>2. marked = [i \in 1 .. 2 |-> marked[i]]
        BY <2>1, <3>1
      <3>3. \A i \in 1 .. 2 : marked[i] \in Events
        <4>1. a1 \in Events
          BY Zenon DEF Events
        <4> HIDE DEF marked, a1
        <4> QED BY <2>3, <4>1
      <3> HIDE DEF marked
      <3> QED BY <3>2, <3>3
    <2> HIDE DEF marked
    <2> QED BY <2>3, <2>4
  <1>3. a1 \in Events
    BY Zenon DEF Events
  <1>4. Queued(q, lines) = q \o marked
    BY DEF Queued
  <1> HIDE DEF a1, marked, lines
  <1>5. q \o <<a1, b>> = Append(Append(q, a1), b)
    BY <1>3
  <1> QED BY <1>2, <1>4, <1>5, Zenon DEF lines, a1

LEMMA ProperLines ==
    ASSUME NEW a, Proper(a)
    PROVE  ProperQueue(<<a>>) /\ \A b : Proper(b) => ProperQueue(<<a, b>>)
  <1>1. \A e : Proper(e) => e \in Events
    BY Zenon DEF Proper
  <1> QED BY <1>1 DEF ProperQueue

LEMMA ProperJoin ==
    ASSUME NEW p, NEW q, ProperQueue(p), ProperQueue(q)
    PROVE  ProperQueue(p \o q)
  <1>1. /\ p \in Seq(Events) /\ \A k \in 1 .. Len(p) : Proper(p[k])
        /\ q \in Seq(Events) /\ \A k \in 1 .. Len(q) : Proper(q[k])
    BY Zenon DEF ProperQueue
  <1>2. p \o q \in Seq(Events)
    BY <1>1
  <1>3. ASSUME NEW k \in 1 .. Len(p \o q) PROVE Proper((p \o q)[k])
    <2>1. CASE k \in 1 .. Len(p)
      <3>1. (p \o q)[k] = p[k]
        BY <1>1, <2>1
      <3> QED BY <1>1, <2>1, <3>1, Zenon
    <2>2. CASE k \notin 1 .. Len(p)
      <3>1. k - Len(p) \in 1 .. Len(q) /\ (p \o q)[k] = q[k - Len(p)]
        BY <1>1, <2>2
      <3> QED BY <1>1, <3>1, Zenon
    <2> QED BY <2>1, <2>2, Zenon
  <1> QED BY <1>2, <1>3, Zenon DEF ProperQueue

\* what a command does, and how the call it leaves is known to the modem
LEMMA CommandTyped ==
    ASSUME CallTyped, NEW c \in Slots, NEW q, ProperQueue(q),
           NEW name \in {"ATD", "ATA", "CHUP", "VTS", "CLCC"}, NEW ok \in BOOLEAN,
           Command(name, c, q, ok)
    PROVE  ProperVoice(modem') /\ ProperQueue(queue') /\ unseen' \in BOOLEAN /\ errors' \in Nat
  <1> DEFINE id == FreshId(c, q)
             error == <<Error(id)>>
             id2 == FreshId(c, q \o error)
  <1>1. id \in Nat /\ id # 0 /\ q \in Seq(Events)
    BY FreshIdType DEF ProperQueue
  <1>2. Proper(Error(id)) /\ ProperQueue(error)
    <2>1. Proper(Error(id))
      BY <1>1, LineProper, Zenon DEF Error, CallTyped
    <2> HIDE DEF id
    <2> QED BY <2>1, ProperLines, Zenon
  <1>3. id2 \in Nat /\ id2 # 0
    <2>1. error \in Seq(Events)
      BY <1>2, Zenon DEF ProperQueue
    <2> HIDE DEF error
    <2>2. q \o error \in Seq(Events)
      BY <1>1, <2>1
    <2> QED BY <2>2, FreshIdType, Zenon
  <1>4. ASSUME NEW i \in Nat, i # 0 PROVE ProperQueue(AnswerLines(name, i, modem))
    <2>1. Proper(Line("ok", "terminal", i, modem))
      BY <1>4, LineProper, Zenon DEF CallTyped
    <2>2. modem # NoCall => Proper(Line("clcc", "response", i, modem))
      BY <1>4, LineProper, Zenon DEF CallTyped
    <2> DEFINE a == Line("clcc", "response", i, modem)
               b == Line("ok", "terminal", i, modem)
    <2>3. AnswerLines(name, i, modem) = IF name = "CLCC" /\ modem # NoCall THEN <<a, b>> ELSE <<b>>
      BY Zenon DEF AnswerLines
    <2>4. Proper(b) /\ (modem # NoCall => Proper(a))
      BY <2>1, <2>2, Zenon
    <2> HIDE DEF a, b
    <2> QED BY <2>3, <2>4, ProperLines, Zenon
  <1>5. ProperQueue(error \o AnswerLines(name, id2, modem))
    <2> HIDE DEF error, id2
    <2>1. ProperQueue(AnswerLines(name, id2, modem))
      BY <1>3, <1>4
    <2> QED BY <1>2, <2>1, ProperJoin, Zenon
  <1>6. /\ queue' = q \/ \E lines : ProperQueue(lines) /\ queue' = Queued(q, lines)
        /\ errors' \in {errors, errors + 1} /\ unseen' \in BOOLEAN
    <2> HIDE DEF error, id, id2
    <2>1. \/ queue' = Queued(q, AnswerLines(name, id, modem))
          \/ queue' = Queued(q, error \o AnswerLines(name, id2, modem))
          \/ queue' = q
          \/ queue' = Queued(q, error)
      BY Zenon DEF Command, id, id2, error
    <2>2. errors' \in {errors, errors + 1} /\ unseen' \in BOOLEAN
      BY Zenon DEF Command, ModemFails, CallTyped
    <2> QED BY <1>1, <1>2, <1>4, <1>5, <2>1, <2>2, Zenon
  <1>7. ProperVoice(modem')
    <2>1. CASE modem' = modem
      BY <2>1 DEF CallTyped
    <2>2. CASE modem' = Effect(name, modem) /\ ~Refused(name)
      BY <2>2, Zenon DEF Effect, Refused, CallTyped, ProperVoice, Voices, NoCall, Stats, Dirs
    <2> QED BY <2>1, <2>2, Zenon DEF Command
  <1> QED BY <1>6, <1>7, QueuedProper DEF CallTyped
-------------------------------------------------------------------------------
(* What the line handlers do to the call                                   *)

\* reconcile, clear_call, event_gap and a fault keep the answer owner or drop it
LEMMA SlotUpdates ==
    ASSUME NEW c \in Slots
    PROVE  /\ Faulted(c) \in Slots /\ Faulted(c).owner = c.owner
           /\ Reconciled(c) \in Slots /\ Reconciled(c).owner = c.owner
           /\ Cleared(c) \in Slots /\ Cleared(c).owner = "none"
           /\ OnGap(c) \in Slots /\ OnGap(c).owner = c.owner
           /\ OnError(c) \in Slots /\ OnError(c).owner = c.owner
  <1>1. Faulted(c) \in Slots /\ Faulted(c).owner = c.owner
    BY DEF Faulted, Slots, States, Setup
  <1>2. Reconciled(c) \in Slots /\ Reconciled(c).owner = c.owner
    BY Zenon DEF Reconciled, Slots
  <1>3. Cleared(c) \in Slots /\ Cleared(c).owner = "none"
    <2>1. "idle" \in States 
      BY DEF States
    <2>2. Cleared(c) \in Slots
      BY <2>1, Zenon DEF Cleared, Slots
    <2>3. "owner" \in DOMAIN c
      BY DEF Slots
    <2> QED BY <2>2, <2>3 DEF Cleared
  <1>4. OnGap(c) \in Slots /\ OnGap(c).owner = c.owner
    BY Zenon DEF OnGap, Slots, States, Setup
  <1>5. OnError(c) \in Slots /\ OnError(c).owner = c.owner
    <2> DEFINE d == [c EXCEPT !.idle_poll = FALSE]
    <2>1. d \in Slots /\ d.owner = c.owner
      BY Zenon DEF Slots
    <2> HIDE DEF d
    <2>2. Reconciled(d) \in Slots /\ Reconciled(d).owner = d.owner
      BY <2>1, Zenon DEF Reconciled, Slots
    <2> QED BY <2>1, <2>2 DEF OnError, d
  <1> QED BY <1>1, <1>2, <1>3, <1>4, <1>5, Zenon

\* handle OK: the owner stays until the call is cleared
LEMMA OnOkSlot ==
    ASSUME NEW c \in Slots
    PROVE  OnOk(c) \in Slots /\ OnOk(c).owner \in {c.owner, "none"}
  <1> DEFINE i == [c EXCEPT !.idle_poll = FALSE]
             d == Reconciled(i)
  <1>1. i \in Slots /\ i.owner = c.owner /\ i.misses = c.misses
    BY Zenon DEF Slots
  <1>2. d \in Slots /\ d.owner = c.owner /\ d.misses = c.misses
    BY <1>1, Zenon DEF Slots, Reconciled
  <1>3. ~Missed(c) => /\ [d EXCEPT !.misses = @ + 1] \in Slots
                      /\ [d EXCEPT !.misses = @ + 1].owner = d.owner
    <2> HIDE DEF d
    <2> QED BY <1>2 DEF Slots, Missed
  <1>4. Cleared(d) \in Slots /\ Cleared(d).owner = "none"
    BY <1>2, SlotUpdates
  <1> HIDE DEF d
  <1>5. \/ OnOk(c) \in {d, Cleared(d)}
        \/ ~Missed(c) /\ OnOk(c) = [d EXCEPT !.misses = @ + 1]
    <2>1. CASE c.idle_poll /\ c.state = "idle"
      BY <2>1 DEF OnOk, Setup, d
    <2>2. CASE c.state \in Setup \cup {"active"} /\ ~Missed(c)
      BY <2>2 DEF OnOk, Setup, d
    <2>3. CASE /\ ~(c.idle_poll /\ c.state = "idle")
               /\ ~(c.state \in Setup \cup {"active"} /\ ~Missed(c))
      BY <2>3 DEF OnOk, d
    <2> QED BY <2>1, <2>2, <2>3
  <1> QED BY <1>2, <1>3, <1>4, <1>5, Zenon

\* a +CLCC row changes neither owner; a row that counts ends the reconciliation
LEMMA OnClccSlot ==
    ASSUME NEW c \in Slots, NEW e, Proper(e), e.kind = "clcc"
    PROVE  /\ OnClcc(c, e) \in Slots /\ OnClcc(c, e).owner = c.owner
           /\ ~Ignored(c, e) /\ ~Phantom(c, e) =>
                 /\ OnClcc(c, e).pending = FALSE /\ OnClcc(c, e).misses = 0
                 /\ OnClcc(c, e).idle_at = c.idle_at
                 /\ \/ c.state = "terminating" /\ OnClcc(c, e).state = "terminating"
                    \/ OnClcc(c, e).state \in Setup \cup {"active"}
  <1> DEFINE a == IF Snapshot(c, e) /\ c.id = 0 THEN [c EXCEPT !.id = e.id] ELSE c
             b == IF ~c.started /\ e.dir = "in"
                  THEN [a EXCEPT !.origin = "cellular", !.started = TRUE] ELSE a
             d == [b EXCEPT !.pending = FALSE, !.misses = 0]
             to(s) == [d EXCEPT !.idle_poll = FALSE, !.state = s]
             r == OnClcc(c, e)
  <1>1. a \in Slots /\ a.owner = c.owner /\ a.state = c.state /\ a.idle_at = c.idle_at
    BY DEF Slots, Proper, Events
  <1>2. b \in Slots /\ b.owner = c.owner /\ b.state = c.state /\ b.idle_at = c.idle_at
    <2> HIDE DEF a
    <2> QED BY <1>1, ZenonT(30) DEF Slots
  <1>3. /\ d \in Slots /\ d.owner = c.owner /\ d.state = c.state /\ d.idle_at = c.idle_at
        /\ d.pending = FALSE /\ d.misses = 0
    <2> HIDE DEF b
    <2>1. d \in Slots
      BY <1>2, Zenon DEF Slots
    <2> QED BY <1>2, <2>1 DEF Slots
  <1>4. r = IF Ignored(c, e) THEN c
            ELSE IF Phantom(c, e) THEN a
            ELSE IF c.state = "terminating" THEN Reconciled(d)
            ELSE IF e.stat = "active" THEN [to("active") EXCEPT !.started = TRUE]
            ELSE IF e.stat = "dialing" THEN to("outgoing_setup")
            ELSE IF e.stat = "alerting" THEN to("early_media")
            ELSE to(IF c.owner = "none" \/ c.state # "active" THEN "incoming_ringing" ELSE "active")
    <2>1. e.stat \in {"active", "dialing", "alerting", "incoming"}
      BY DEF Proper, Events, Stats
    <2>2. Phantom(c, e) => ~Ignored(c, e)
      BY DEF Phantom, Ignored
    <2> HIDE DEF a, b, d, to
    <2>3. CASE Ignored(c, e) \/ Phantom(c, e)
      BY <2>2, <2>3 DEF OnClcc, a
    <2>4. CASE ~Ignored(c, e) /\ ~Phantom(c, e)
      BY <2>1, <2>4 DEF OnClcc, a, b, d, to
    <2> QED BY <2>3, <2>4
  <1>5. ASSUME NEW s \in Setup \cup {"active"}
        PROVE  /\ to(s) \in Slots /\ to(s).owner = c.owner /\ to(s).idle_at = c.idle_at
               /\ to(s).pending = FALSE /\ to(s).misses = 0 /\ to(s).state = s
    <2> HIDE DEF d
    <2> QED BY <1>3, <1>5, ZenonT(30) DEF Slots, States
  <1>6. /\ [to("active") EXCEPT !.started = TRUE] \in Slots
        /\ [to("active") EXCEPT !.started = TRUE].owner = c.owner
        /\ [to("active") EXCEPT !.started = TRUE].idle_at = c.idle_at
        /\ [to("active") EXCEPT !.started = TRUE].pending = FALSE
        /\ [to("active") EXCEPT !.started = TRUE].misses = 0
        /\ [to("active") EXCEPT !.started = TRUE].state = "active"
    <2> DEFINE t == to("active")
    <2>1. /\ t \in Slots /\ t.owner = c.owner /\ t.idle_at = c.idle_at
          /\ t.pending = FALSE /\ t.misses = 0 /\ t.state = "active"
      BY <1>5, Zenon
    <2> HIDE DEF t, to
    <2>2. [t EXCEPT !.started = TRUE] \in Slots
      BY <2>1, Zenon DEF Slots
    <2> QED BY <2>1, <2>2 DEF Slots, t
  <1>7. /\ Reconciled(d) \in Slots /\ Reconciled(d).owner = c.owner
        /\ Reconciled(d).idle_at = c.idle_at /\ Reconciled(d).pending = FALSE
        /\ Reconciled(d).misses = 0 /\ Reconciled(d).state = c.state
    <2> HIDE DEF d
    <2> QED BY <1>3, Zenon DEF Reconciled, Slots
  <1> HIDE DEF a, b, d, to, r
  <1>8. \A s \in {"active", "outgoing_setup", "early_media", "incoming_ringing"} :
           s \in Setup \cup {"active"}
    BY DEF Setup
  <1>9. \/ Ignored(c, e) /\ r = c
        \/ Phantom(c, e) /\ r = a
        \/ c.state = "terminating" /\ r = Reconciled(d)
        \/ r = [to("active") EXCEPT !.started = TRUE]
        \/ \E s \in Setup \cup {"active"} : r = to(s)
    BY <1>4, <1>8
  <1> QED BY <1>1, <1>5, <1>6, <1>7, <1>8, <1>9, ZenonT(30) DEF r

\* qmodem_voip_line as a whole keeps the answer owner or drops it
LEMMA HandledSlot ==
    ASSUME NEW c \in Slots, NEW e, Proper(e)
    PROVE  Handled(c, e) \in Slots /\ Handled(c, e).owner \in {c.owner, "none"}
  <1>1. e.kind \in {"ring", "release", "ok", "error", "clcc"}
    BY Zenon DEF Proper, Events
  <1>2. CASE e.kind = "error"
    BY <1>2, SlotUpdates DEF Handled
  <1>3. CASE e.kind = "ok"
    BY <1>3, OnOkSlot DEF Handled
  <1>4. CASE e.kind = "clcc"
    BY <1>4, OnClccSlot, Zenon DEF Handled
  <1>5. CASE e.kind = "ring"
    <2>1. OnRing(c) \in Slots /\ OnRing(c).owner \in {c.owner, "none"}
      BY ZenonT(30) DEF OnRing, Slots, States, Setup
    <2> QED BY <1>5, <2>1 DEF Handled
  <1>6. CASE e.kind = "release"
    BY <1>6, SlotUpdates DEF Handled
  <1> QED BY <1>1, <1>2, <1>3, <1>4, <1>5, <1>6, Zenon
-------------------------------------------------------------------------------
(* Types and owner, action by action                                       *)

\* owner: what the owner of a call becomes in a step
OwnerStep == slot.owner # "none" => slot'.owner \in {slot.owner, "none"}

\* a line of the modem that belongs to no command
LEMMA EmitTyped ==
    ASSUME CallTyped, NEW kind, NEW corr, NEW id, Emit(kind, corr, id),
           Proper(Line(kind, corr, id, modem'))
    PROVE  ProperQueue(queue') /\ unseen' = FALSE
  <1> DEFINE lines == <<Line(kind, corr, id, modem')>>
  <1>1. ProperQueue(lines)
    BY DEF ProperQueue, Proper
  <1>2. queue' = Queued(queue, lines) /\ unseen' = FALSE
    BY DEF Emit
  <1> HIDE DEF lines
  <1> QED BY <1>1, <1>2, QueuedProper, Zenon DEF CallTyped

\* what is left of the queue, with or without the mark of a gap
LEMMA RestProper ==
    ASSUME NEW q, ProperQueue(q), q # <<>>
    PROVE  Proper(Head(q)) /\ ProperQueue(Tail(q)) /\ ProperQueue(WithGap(Tail(q)))
  <1> DEFINE p == Tail(q)
  <1>1. /\ Proper(Head(q)) /\ p \in Seq(Events) /\ Len(p) = Len(q) - 1 /\ Len(q) \in Nat
        /\ \A k \in 1 .. Len(p) : p[k] = q[k + 1]
    BY DEF ProperQueue
  <1>2. ProperQueue(p)
    <2> HIDE DEF p
    <2> QED BY <1>1 DEF ProperQueue
  <1>3. ProperQueue(WithGap(p))
    <2> HIDE DEF p
    <2>1. CASE p = <<>>
      BY <1>2, <2>1 DEF WithGap
    <2>2. CASE p # <<>>
      <3> DEFINE e == [p[1] EXCEPT !.gap = TRUE]
      <3>1. Proper(e)
        <4>1. 1 \in 1 .. Len(p) /\ Proper(p[1])
          BY <1>1, <1>2, <2>2 DEF ProperQueue
        <4> QED BY <4>1, Zenon DEF Proper, Events
      <3>2. WithGap(p) = [p EXCEPT ![1] = e]
        BY <2>2 DEF WithGap
      <3> HIDE DEF e
      <3>3. /\ [p EXCEPT ![1] = e] \in Seq(Events) /\ Len([p EXCEPT ![1] = e]) = Len(p)
            /\ \A k \in 1 .. Len(p) : [p EXCEPT ![1] = e][k] = IF k = 1 THEN e ELSE p[k]
        <4>1. e \in Events /\ 1 \in 1 .. Len(p)
          BY <1>1, <2>2, <3>1 DEF Proper
        <4> QED BY <1>1, <4>1, ExceptSeq
      <3> QED BY <1>2, <3>1, <3>2, <3>3, Zenon DEF ProperQueue
    <2> QED BY <2>1, <2>2
  <1> QED BY <1>1, <1>2, <1>3

\* a command leaves the call as it was meant to be or with a fault
LEMMA IssueTyped ==
    ASSUME CallTyped, NEW c \in Slots, NEW q, ProperQueue(q),
           NEW name \in {"ATD", "ATA", "CHUP", "VTS", "CLCC"}, Issue(name, c, q)
    PROVE  /\ slot' \in Slots /\ slot'.owner = c.owner
           /\ ProperVoice(modem') /\ ProperQueue(queue') /\ unseen' \in BOOLEAN /\ errors' \in Nat
  <1>1. \/ slot' = c /\ Command(name, c, q, TRUE)
        \/ slot' = Faulted(c) /\ Command(name, c, q, FALSE)
    BY Zenon DEF Issue
  <1> QED BY <1>1, CommandTyped, SlotUpdates, ZenonT(30)

\* originate, answer and terminate name an owner only for a call without one
LEMMA MethodTyped ==
    ASSUME CallTyped, NEW c \in Slots,
           c.owner = "none" \/ c.owner = slot.owner \/ slot.owner = "none",
           NEW name \in {"ATD", "ATA", "CHUP"}, Method(name, c), calls' \in Nat
    PROVE  CallTyped' /\ OwnerStep
  <1>1. Issue(name, c, queue) /\ UNCHANGED <<reading, withheld, gaps, lost, foreigns, tones>>
    BY Zenon DEF Method
  <1>2. /\ slot' \in Slots /\ slot'.owner = c.owner
        /\ ProperVoice(modem') /\ ProperQueue(queue') /\ unseen' \in BOOLEAN /\ errors' \in Nat
    BY <1>1, IssueTyped, Zenon DEF CallTyped
  <1> QED BY <1>1, <1>2, Zenon DEF CallTyped, OwnerStep

\* the far end
LEMMA RemoteTyped == ASSUME CallTyped, Remote PROVE CallTyped' /\ OwnerStep
  <1>1. CASE Incoming
    <2>1. PICK w \in BOOLEAN : /\ withheld' = withheld + (IF w THEN 1 ELSE 0)
                               /\ modem' = [dir |-> "in", stat |-> "incoming", empty |-> w]
      BY <1>1, Zenon DEF Incoming
    <2>2. ProperVoice(modem')
      BY <2>1, Zenon DEF ProperVoice, Voices, Stats, Dirs, NoCall
    <2>3. ProperQueue(queue') /\ unseen' = FALSE
      BY <1>1, <2>2, LineProper, EmitTyped, Zenon DEF Incoming
    <2>4. withheld' \in Nat /\ calls' \in Nat
      BY <1>1, <2>1 DEF Incoming, CallTyped
    <2> QED BY <1>1, <2>2, <2>3, <2>4, Zenon DEF Incoming, CallTyped, OwnerStep
  <1>2. CASE RemoteAccepts
    <2>1. ProperVoice(modem')
      BY <1>2 DEF RemoteAccepts, CallTyped, ProperVoice, Voices, Stats, NoCall
    <2> QED BY <1>2, <2>1 DEF RemoteAccepts, CallTyped, OwnerStep, callBounds
  <1>3. CASE RemoteEnds
    <2>1. modem' = NoCall /\ ProperVoice(modem')
      BY <1>3, Zenon DEF RemoteEnds, ProperVoice, Voices, Stats, Dirs, NoCall
    <2>2. ProperQueue(queue') /\ unseen' = FALSE
      BY <1>3, <2>1, LineProper, EmitTyped, Zenon DEF RemoteEnds
    <2> QED BY <1>3, <2>1, <2>2, Zenon DEF RemoteEnds, CallTyped, OwnerStep, callBounds
  <1> QED BY <1>1, <1>2, <1>3 DEF Remote

\* gaps, lost lines and commands of other clients
LEMMA StreamTyped == ASSUME CallTyped, Unseen \/ Lose \/ ForeignLine PROVE CallTyped' /\ OwnerStep
  <1>1. CASE Unseen
    <2>1. ProperVoice(NoCall)
      BY Zenon DEF ProperVoice, Voices, Stats, Dirs, NoCall
    <2>2. ProperVoice(modem')
      BY <1>1, <2>1, Zenon DEF Unseen, CallTyped
    <2>3. gaps' \in Nat /\ unseen' \in BOOLEAN
      BY <1>1 DEF Unseen, CallTyped
    <2> QED BY <1>1, <2>2, <2>3, Zenon DEF Unseen, CallTyped, OwnerStep
  <1>2. CASE Lose
    <2>1. ProperQueue(queue')
      BY <1>2, RestProper, Zenon DEF Lose, CallTyped
    <2>2. unseen' \in BOOLEAN /\ reading' \in BOOLEAN
      BY <1>2, Zenon DEF Lose
    <2>3. lost' \in Nat /\ UNCHANGED <<slot, modem, calls, withheld, gaps, foreigns, tones, errors>>
      BY <1>2 DEF Lose, CallTyped
    <2> QED BY <2>1, <2>2, <2>3 DEF CallTyped, OwnerStep
  <1>3. CASE ForeignLine
    <2>1. FreshId(slot, queue) \in Nat /\ FreshId(slot, queue) # 0
      BY FreshIdType, Zenon DEF CallTyped, ProperQueue
    <2>2. ProperQueue(queue') /\ unseen' = FALSE
      BY <1>3, <2>1, LineProper, EmitTyped, Zenon DEF ForeignLine, CallTyped
    <2>3. /\ foreigns' \in Nat
          /\ UNCHANGED <<slot, modem, reading, calls, withheld, gaps, lost, tones, errors>>
      BY <1>3 DEF ForeignLine, CallTyped
    <2> QED BY <2>2, <2>3, Zenon DEF CallTyped, OwnerStep
  <1> QED BY <1>1, <1>2, <1>3

\* the methods of voipd
LEMMA UserTyped == ASSUME CallTyped, User PROVE CallTyped' /\ OwnerStep
  <1> DEFINE others == <<reading, calls, withheld, gaps, lost, foreigns>>
  <1>1. CASE Terminate
    <2> DEFINE c == [slot EXCEPT !.state = "terminating"]
    <2>1. c \in Slots /\ c.owner = slot.owner
      BY DEF CallTyped, Slots, States
    <2>2. Method("CHUP", c) /\ calls' = calls
      BY <1>1 DEF Terminate
    <2> HIDE DEF c
    <2> QED BY <2>1, <2>2, MethodTyped, Zenon DEF CallTyped
  <1>2. CASE EnableMethod
    <2> DEFINE c == [slot EXCEPT !.state = "recovering", !.pending = TRUE, !.id = 0]
               d == [c EXCEPT !.state = "disabled", !.pending = FALSE]
    <2>1. c \in Slots /\ c.owner = slot.owner
      BY Zenon DEF CallTyped, Slots, States
    <2>2. d \in Slots /\ d.owner = slot.owner
      <3> HIDE DEF c
      <3> QED BY <2>1, Zenon DEF Slots, States
    <2>3. \/ slot' = c /\ Command("CLCC", c, queue, TRUE)
          \/ slot' = d /\ Command("CLCC", c, queue, FALSE)
      BY <1>2, Zenon DEF EnableMethod
    <2> HIDE DEF c, d
    <2>4. ProperVoice(modem') /\ ProperQueue(queue') /\ unseen' \in BOOLEAN /\ errors' \in Nat
      BY <2>1, <2>3, CommandTyped, Zenon DEF CallTyped
    <2>5. UNCHANGED others /\ tones' = tones
      BY <1>2 DEF EnableMethod
    <2> QED BY <2>1, <2>2, <2>3, <2>4, <2>5, Zenon DEF CallTyped, OwnerStep
  <1>3. CASE DisableMethod
    <2>1. slot' = [slot EXCEPT !.state = "disabled", !.origin = "none", !.owner = "none",
                               !.started = FALSE, !.pending = FALSE]
      BY <1>3 DEF DisableMethod
    <2>2. slot' \in Slots
      BY <2>1, Zenon DEF CallTyped, Slots, States
    <2>3. "owner" \in DOMAIN slot
      BY Zenon DEF CallTyped, Slots
    <2>4. slot'.owner = "none"
      BY <2>1, <2>3
    <2>5. UNCHANGED <<modem, queue, unseen, reading, callBounds>>
      BY <1>3 DEF DisableMethod
    <2> QED BY <2>2, <2>4, <2>5, Zenon DEF CallTyped, OwnerStep, callBounds
  <1>4. ASSUME NEW e \in Endpoints, OriginateCall(e) PROVE CallTyped' /\ OwnerStep
    <2> DEFINE c == [slot EXCEPT !.state = "outgoing_setup", !.origin = e, !.owner = "none",
                                 !.started = TRUE, !.misses = 0]
    <2>1. c \in Slots
      BY <1>4, Zenon DEF CallTyped, Slots, States, Setup
    <2>2. "owner" \in DOMAIN slot
      BY Zenon DEF CallTyped, Slots
    <2>3. c.owner = "none"
      BY <2>2
    <2>4. Method("ATD", c) /\ calls' = calls + 1
      BY <1>4 DEF OriginateCall
    <2> HIDE DEF c
    <2> QED BY <2>1, <2>3, <2>4, MethodTyped DEF CallTyped
  <1>5. ASSUME NEW e \in Endpoints, AnswerCall(e) PROVE CallTyped' /\ OwnerStep
    <2> DEFINE c == [slot EXCEPT !.state = "active", !.owner = e, !.started = TRUE]
    <2>1. c \in Slots
      BY <1>5, Zenon DEF CallTyped, Slots, States
    <2>2. Method("ATA", c) /\ calls' = calls /\ slot.owner = "none"
      BY <1>5 DEF AnswerCall, Answerable
    <2> HIDE DEF c
    <2> QED BY <2>1, <2>2, MethodTyped, Zenon DEF CallTyped
  <1>6. ASSUME NEW e \in Endpoints, SendDtmf(e) PROVE CallTyped' /\ OwnerStep
    <2>1. PICK ok \in BOOLEAN : Command("VTS", slot, queue, ok)
      BY <1>6, Zenon DEF SendDtmf
    <2>2. ProperVoice(modem') /\ ProperQueue(queue') /\ unseen' \in BOOLEAN /\ errors' \in Nat
      BY <2>1, CommandTyped, Zenon DEF CallTyped
    <2>3. tones' \in Nat /\ slot' = slot /\ UNCHANGED others
      BY <1>6 DEF SendDtmf, CallTyped
    <2> QED BY <2>2, <2>3, Zenon DEF CallTyped, OwnerStep
  <1> QED BY <1>1, <1>2, <1>3, <1>4, <1>5, <1>6, Zenon DEF User

\* the call as an event finds it
LEMMA FoundSlot ==
    ASSUME CallTyped, NEW e
    PROVE  LET c == IF HasGap(e) THEN OnGap(slot) ELSE [slot EXCEPT !.synced = TRUE]
           IN  c \in Slots /\ c.owner = slot.owner
  <1>1. OnGap(slot) \in Slots /\ OnGap(slot).owner = slot.owner
    BY SlotUpdates, Zenon DEF CallTyped
  <1>2. [slot EXCEPT !.synced = TRUE] \in Slots /\ [slot EXCEPT !.synced = TRUE].owner = slot.owner
    BY Zenon DEF CallTyped, Slots
  <1> QED BY <1>1, <1>2, Zenon

\* at_line_event
LEMMA LineEventTyped == ASSUME CallTyped, LineEvent PROVE CallTyped' /\ OwnerStep
  <1> DEFINE e == Head(queue)
             rest == Tail(queue)
             c == IF HasGap(e) THEN OnGap(slot) ELSE [slot EXCEPT !.synced = TRUE]
             d == Handled(c, e)
  <1>1. Proper(e) /\ ProperQueue(rest) /\ ProperQueue(WithGap(rest))
    BY RestProper DEF LineEvent, CallTyped
  <1>2. c \in Slots /\ c.owner = slot.owner
    BY FoundSlot, Zenon
  <1>3. d \in Slots /\ d.owner \in {slot.owner, "none"}
    <2> HIDE DEF c, e
    <2> QED BY <1>1, <1>2, HandledSlot, Zenon
  <1>4. /\ reading' \in BOOLEAN
        /\ UNCHANGED <<calls, withheld, gaps, lost, foreigns, tones>>
    BY Zenon DEF LineEvent
  <1>5. \/ /\ slot' = slot /\ modem' = modem /\ errors' = errors
           /\ queue' = WithGap(rest) /\ unseen' = (unseen \/ rest = <<>>)
        \/ Issue("CLCC", d, rest)
        \/ Issue("CHUP", d, rest)
        \/ slot' = d /\ queue' = rest /\ modem' = modem /\ unseen' = unseen /\ errors' = errors
    <2> HIDE DEF d
    <2> QED BY DEF LineEvent, d
  <1> HIDE DEF e, rest, c, d
  <1>6. /\ slot' \in Slots /\ slot'.owner \in {slot.owner, "none"}
        /\ ProperVoice(modem') /\ ProperQueue(queue') /\ unseen' \in BOOLEAN /\ errors' \in Nat
    <2>1. CASE Issue("CLCC", d, rest) \/ Issue("CHUP", d, rest)
      BY <1>1, <1>3, <2>1, IssueTyped, Zenon
    <2>2. CASE ~(Issue("CLCC", d, rest) \/ Issue("CHUP", d, rest))
      BY <1>1, <1>3, <1>5, <2>2, Zenon DEF CallTyped
    <2> QED BY <2>1, <2>2, Zenon
  <1> QED BY <1>4, <1>6, Zenon DEF CallTyped, OwnerStep

\* qmodem_voip_call_timer and idle_at_complete
LEMMA TimerTyped == ASSUME CallTyped, CallTimer \/ IdleAtFailed PROVE CallTyped' /\ OwnerStep
  <1> DEFINE c == [slot EXCEPT !.pending = TRUE, !.id = 0]
             i == [slot EXCEPT !.pending = TRUE, !.id = 0, !.idle_poll = TRUE, !.idle_at = FALSE]
             j == [i EXCEPT !.idle_at = TRUE]
             a == [slot EXCEPT !.idle_at = FALSE]
  <1>1. c \in Slots /\ c.owner = slot.owner
    BY Zenon DEF CallTyped, Slots
  <1>2. i \in Slots /\ i.owner = slot.owner
    BY Zenon DEF CallTyped, Slots
  <1>3. j \in Slots /\ j.owner = slot.owner
    <2> HIDE DEF i
    <2> QED BY <1>2, Zenon DEF Slots
  <1>4. a \in Slots /\ a.owner = slot.owner
    BY Zenon DEF CallTyped, Slots
  <1>5. CASE IdleAtFailed
    <2>1. slot' \in {a, OnError(a)} /\ UNCHANGED <<modem, queue, unseen, reading, callBounds>>
      BY <1>5 DEF IdleAtFailed
    <2> HIDE DEF a
    <2>2. slot' \in Slots /\ slot'.owner = slot.owner
      BY <1>4, <2>1, SlotUpdates, Zenon
    <2> QED BY <2>1, <2>2, Zenon DEF CallTyped, OwnerStep, callBounds
  <1>6. CASE CallTimer
    <2>1. /\ reading' \in BOOLEAN
          /\ UNCHANGED <<calls, withheld, gaps, lost, foreigns, tones>>
      BY <1>6, Zenon DEF CallTimer, PollSetup, PollActive, PollIdle, Timer
    <2>2. /\ slot' \in Slots /\ slot'.owner = slot.owner
          /\ ProperVoice(modem') /\ ProperQueue(queue') /\ unseen' \in BOOLEAN /\ errors' \in Nat
      <3>1. CASE PollSetup
        <4>1. Issue("CLCC", c, queue)
          BY <3>1 DEF PollSetup
        <4> HIDE DEF c
        <4> QED BY <1>1, <4>1, IssueTyped, Zenon DEF CallTyped
      <3>2. CASE PollActive
        <4>1. \/ slot' = c /\ Command("CLCC", c, queue, TRUE)
              \/ slot' = Reconciled(c) /\ Command("CLCC", c, queue, FALSE)
          BY <3>2, Zenon DEF PollActive
        <4> HIDE DEF c
        <4> QED BY <1>1, <4>1, CommandTyped, SlotUpdates, Zenon DEF CallTyped
      <3>3. CASE PollIdle
        <4> DEFINE id == FreshId(i, queue)
        <4>1. \/ slot' = i /\ Command("CLCC", i, queue, TRUE)
              \/ slot' = OnError(i) /\ Command("CLCC", i, queue, FALSE)
              \/ /\ ModemFails /\ slot' \in {i, j} /\ modem' = modem /\ unseen' \in {unseen, FALSE}
                 /\ queue' \in {queue, Queued(queue, <<Error(id)>>)}
          BY <3>3, Zenon DEF PollIdle
        <4> HIDE DEF i, j
        <4>2. ProperQueue(Queued(queue, <<Error(id)>>))
          <5>1. id \in Nat /\ id # 0
            BY <1>2, FreshIdType, Zenon DEF CallTyped, ProperQueue
          <5>2. Proper(Error(id))
            BY <5>1, LineProper, Zenon DEF Error, CallTyped
          <5> HIDE DEF id
          <5>3. ProperQueue(<<Error(id)>>)
            BY <5>2 DEF ProperQueue, Proper
          <5> QED BY <5>3, QueuedProper, Zenon DEF CallTyped
        <4>3. CASE ModemFails /\ slot' \in {i, j} /\ modem' = modem /\ unseen' \in {unseen, FALSE}
                   /\ queue' \in {queue, Queued(queue, <<Error(id)>>)}
          <5> HIDE DEF id
          <5>1. ProperQueue(queue') /\ ProperVoice(modem')
            BY <4>2, <4>3, Zenon DEF CallTyped
          <5>2. errors' \in Nat
            BY <4>3 DEF ModemFails, CallTyped
          <5> QED BY <1>2, <1>3, <4>3, <5>1, <5>2, Zenon DEF CallTyped
        <4> HIDE DEF id
        <4> QED BY <1>2, <4>1, <4>3, CommandTyped, SlotUpdates, Zenon DEF CallTyped
      <3> QED BY <1>6, <3>1, <3>2, <3>3, Zenon DEF CallTimer
    <2> QED BY <2>1, <2>2, Zenon DEF CallTyped, OwnerStep
  <1> QED BY <1>5, <1>6

\* the daemon starts without a call
LEMMA CallInitTyped == CallInit => CallTyped
  <1> SUFFICES ASSUME CallInit PROVE CallTyped
    OBVIOUS
  <1>1. slot \in Slots
    BY Zenon DEF CallInit, Slots, States
  <1>2. ProperVoice(modem) /\ ProperQueue(queue)
    BY DEF CallInit, ProperVoice, Voices, Stats, Dirs, NoCall, ProperQueue
  <1> QED BY <1>1, <1>2, Zenon DEF CallInit, CallTyped

\* one step of anyone
LEMMA CallNextTyped == CallTyped /\ [CallNext]_callVars => CallTyped' /\ OwnerStep
  <1> SUFFICES ASSUME CallTyped, [CallNext]_callVars PROVE CallTyped' /\ OwnerStep
    OBVIOUS
  <1>1. CASE UNCHANGED callVars
    BY <1>1, Zenon DEF callVars, callBounds, CallTyped, OwnerStep
  <1>2. CASE CallNext
    BY <1>2, RemoteTyped, StreamTyped, UserTyped, LineEventTyped, TimerTyped DEF CallNext
  <1> QED BY <1>1, <1>2

\* voipd: the first answer wins, and no line, gap, poll or failing command gives the
\* call another owner afterwards.
THEOREM FirstAnswerWins == CallSpec => OwnerKept
  <1>1. CallTyped /\ [CallNext]_callVars =>
           [slot.owner # "none" => slot'.owner \in {slot.owner, "none"}]_callVars
    BY CallNextTyped DEF OwnerStep
  <1> QED BY <1>1, CallInitTyped, CallNextTyped, PTL DEF CallSpec, OwnerKept

-------------------------------------------------------------------------------
(* No call is given up while the modem has it.  The invariant says what is *)
(* on its way: the end of a command that found a call is behind a line     *)
(* that shows the call or its release, as soon as it could count against   *)
(* the call.                                                               *)

Ongoing == Setup \cup {"active"}

\* a line shows the call or its release
Shown(q) == \E k \in 1 .. Len(q) : q[k].kind \in {"clcc", "release"}
\* every end of a command was sent without a call
AllFree(q) == \A k \in 1 .. Len(q) : q[k].kind = "ok" => q[k].free = TRUE
\* an end that was sent in a call comes after such a line
Covered(q) ==
    \A k \in 1 .. Len(q) : q[k].kind = "ok" /\ q[k].free = FALSE =>
        \E j \in 1 .. k - 1 : q[j].kind \in {"clcc", "release"}
Rings(q) == \E k \in 1 .. Len(q) : q[k].kind = "ring"
NoClcc(q) == \A k \in 1 .. Len(q) : q[k].kind # "clcc"
HasRelease(q) == \E k \in 1 .. Len(q) : q[k].kind = "release"
OkOnly(q) == \A k \in 1 .. Len(q) : q[k].kind = "ok" /\ q[k].free = TRUE
\* the ring of the first call is preceded by ends only
RingFirst(q) ==
    \A k \in 1 .. Len(q) : q[k].kind = "ring" => \A j \in 1 .. k - 1 : q[j].kind = "ok"
\* and by one of them at least
Awaited(q) ==
    \A k \in 1 .. Len(q) : q[k].kind = "ring" => \E j \in 1 .. k - 1 : q[j].kind = "ok"
Visible(q) == \A k \in 1 .. Len(q) : q[k].empty = FALSE
Unbroken(q) == \A k \in 1 .. Len(q) : q[k].gap = FALSE
GapFirst(q) == \A k \in 1 .. Len(q) : q[k].gap = TRUE => k = 1

\* each of these, for a queue to which an event comes
LEMMA AppendFacts ==
    ASSUME NEW q \in Seq(Events), NEW e \in Events, NEW p, p = Append(q, e)
    PROVE  /\ p \in Seq(Events) /\ p # <<>>
           /\ Shown(p) <=> Shown(q) \/ e.kind \in {"clcc", "release"}
           /\ AllFree(p) <=> AllFree(q) /\ (e.kind = "ok" => e.free = TRUE)
           /\ Covered(p) <=> Covered(q) /\ (e.kind = "ok" /\ e.free = FALSE => Shown(q))
           /\ Rings(p) <=> Rings(q) \/ e.kind = "ring"
           /\ NoClcc(p) <=> NoClcc(q) /\ e.kind # "clcc"
           /\ HasRelease(p) <=> HasRelease(q) \/ e.kind = "release"
           /\ OkOnly(p) <=> OkOnly(q) /\ e.kind = "ok" /\ e.free = TRUE
           /\ RingFirst(q) /\ (e.kind = "ring" => OkOnly(q)) => RingFirst(p)
           /\ Awaited(q) /\ (e.kind = "ring" => OkOnly(q) /\ q # <<>>) => Awaited(p)
           /\ Visible(p) <=> Visible(q) /\ e.empty = FALSE
           /\ Unbroken(p) <=> Unbroken(q) /\ e.gap = FALSE
           /\ GapFirst(q) /\ (e.gap = TRUE => q = <<>>) => GapFirst(p)
  <1> DEFINE n == Len(q)
  <1>1. /\ n \in Nat /\ p \in Seq(Events) /\ Len(p) = n + 1 /\ p[n + 1] = e
        /\ \A k \in 1 .. n : p[k] = q[k]
        /\ q = <<>> <=> n = 0
    OBVIOUS
  <1>2. 1 .. Len(p) = (1 .. n) \cup {n + 1} /\ n + 1 \in 1 .. Len(p) /\ p # <<>>
    BY <1>1
  <1> HIDE DEF n
  <1>3. Shown(p) <=> Shown(q) \/ e.kind \in {"clcc", "release"}
    BY <1>1, <1>2, Zenon DEF Shown, n
  <1>4. AllFree(p) <=> AllFree(q) /\ (e.kind = "ok" => e.free = TRUE)
    BY <1>1, <1>2, Zenon DEF AllFree, n
  <1>5. Covered(p) <=> Covered(q) /\ (e.kind = "ok" /\ e.free = FALSE => Shown(q))
    <2> DEFINE C(r, k) == r[k].kind = "ok" /\ r[k].free = FALSE =>
                              \E j \in 1 .. k - 1 : r[j].kind \in {"clcc", "release"}
    <2>1. ASSUME NEW k \in 1 .. n PROVE C(p, k) <=> C(q, k)
      <3>1. \A j \in 1 .. k - 1 : p[j] = q[j]
        BY <1>1
      <3> QED BY <1>1, <3>1, Zenon
    <2>2. C(p, n + 1) <=> (e.kind = "ok" /\ e.free = FALSE => Shown(q))
      <3>1. 1 .. (n + 1) - 1 = 1 .. n
        BY <1>1
      <3>2. Shown(q) <=> \E j \in 1 .. (n + 1) - 1 : p[j].kind \in {"clcc", "release"}
        BY <1>1, <3>1, Zenon DEF Shown, n
      <3> QED BY <1>1, <3>2, Zenon
    <2>3. /\ Covered(p) <=> \A k \in 1 .. Len(p) : C(p, k)
          /\ Covered(q) <=> \A k \in 1 .. n : C(q, k)
      BY Zenon DEF Covered, n
    <2> HIDE DEF C
    <2> QED BY <1>2, <2>1, <2>2, <2>3, Zenon
  <1>6. Rings(p) <=> Rings(q) \/ e.kind = "ring"
    BY <1>1, <1>2, Zenon DEF Rings, n
  <1>7. NoClcc(p) <=> NoClcc(q) /\ e.kind # "clcc"
    BY <1>1, <1>2, Zenon DEF NoClcc, n
  <1>8. HasRelease(p) <=> HasRelease(q) \/ e.kind = "release"
    BY <1>1, <1>2, Zenon DEF HasRelease, n
  <1>9. OkOnly(p) <=> OkOnly(q) /\ e.kind = "ok" /\ e.free = TRUE
    BY <1>1, <1>2 DEF OkOnly, n
  <1>10. ASSUME RingFirst(q), e.kind = "ring" => OkOnly(q) PROVE RingFirst(p)
    <2>1. ASSUME NEW k \in 1 .. n, p[k].kind = "ring", NEW j \in 1 .. k - 1 PROVE p[j].kind = "ok"
      BY <1>1, <1>10, <2>1 DEF RingFirst, n
    <2>2. ASSUME e.kind = "ring", NEW j \in 1 .. (n + 1) - 1 PROVE p[j].kind = "ok"
      BY <1>1, <1>10, <2>2 DEF OkOnly, n
    <2> QED BY <1>1, <1>2, <2>1, <2>2, Zenon DEF RingFirst
  <1>11. ASSUME Awaited(q), e.kind = "ring" => OkOnly(q) /\ q # <<>> PROVE Awaited(p)
    <2>1. ASSUME NEW k \in 1 .. n, p[k].kind = "ring" PROVE \E j \in 1 .. k - 1 : p[j].kind = "ok"
      <3>1. PICK j \in 1 .. k - 1 : q[j].kind = "ok"
        BY <1>1, <1>11, <2>1, Zenon DEF Awaited, n
      <3> QED BY <1>1, <3>1
    <2>2. ASSUME e.kind = "ring" PROVE \E j \in 1 .. (n + 1) - 1 : p[j].kind = "ok"
      <3>1. 1 \in 1 .. n /\ 1 \in 1 .. (n + 1) - 1
        BY <1>1, <1>11, <2>2
      <3>2. p[1].kind = "ok"
        BY <1>1, <1>11, <2>2, <3>1, Zenon DEF OkOnly, n
      <3> QED BY <3>1, <3>2, Zenon
    <2> QED BY <1>1, <1>2, <2>1, <2>2, Zenon DEF Awaited
  <1>12. Visible(p) <=> Visible(q) /\ e.empty = FALSE
    BY <1>1, <1>2, Zenon DEF Visible, n
  <1>13. Unbroken(p) <=> Unbroken(q) /\ e.gap = FALSE
    BY <1>1, <1>2, Zenon DEF Unbroken, n
  <1>14. GapFirst(q) /\ (e.gap = TRUE => q = <<>>) => GapFirst(p)
    BY <1>1, <1>2 DEF GapFirst, n
  <1> QED BY <1>1, <1>2, <1>3, <1>4, <1>5, <1>6, <1>7, <1>8, <1>9, <1>10, <1>11, <1>12, <1>13, <1>14, Zenon

\* and for one from which the first is taken
LEMMA TailFacts ==
    ASSUME NEW q \in Seq(Events), q # <<>>, NEW h, h = Head(q), NEW p, p = Tail(q)
    PROVE  /\ p \in Seq(Events) /\ h \in Events
           /\ Shown(q) <=> h.kind \in {"clcc", "release"} \/ Shown(p)
           /\ AllFree(q) => AllFree(p) /\ (h.kind = "ok" => h.free = TRUE)
           /\ Covered(q) /\ h.kind \notin {"clcc", "release"} =>
                 Covered(p) /\ (h.kind = "ok" => h.free = TRUE)
           /\ NoClcc(q) => NoClcc(p)
           /\ HasRelease(p) => HasRelease(q)
           /\ OkOnly(q) => OkOnly(p) /\ h.kind = "ok" /\ h.free = TRUE
           /\ RingFirst(q) => RingFirst(p) /\ (h.kind # "ok" => ~Rings(p))
           /\ Awaited(q) /\ h.kind # "ok" => Awaited(p) /\ h.kind # "ring"
           /\ Rings(p) => Rings(q)
           /\ Visible(q) => Visible(p) /\ h.empty = FALSE
           /\ Unbroken(q) => Unbroken(p) /\ h.gap = FALSE
           /\ GapFirst(q) => Unbroken(p)
  <1> DEFINE n == Len(p)
  <1>1. /\ n \in Nat /\ p \in Seq(Events) /\ Len(q) = n + 1 /\ q[1] = h /\ h \in Events
        /\ \A k \in 1 .. n : p[k] = q[k + 1]
    OBVIOUS
  <1>2. /\ 1 \in 1 .. Len(q) /\ \A k \in 1 .. n : k + 1 \in 1 .. Len(q) /\ k + 1 # 1
        /\ \A k \in 1 .. Len(q) : k = 1 \/ (k - 1 \in 1 .. n /\ p[k - 1] = q[k])
    BY <1>1
  <1> HIDE DEF n
  <1>3. Shown(q) <=> h.kind \in {"clcc", "release"} \/ Shown(p)
    <2>1. ASSUME Shown(q) PROVE h.kind \in {"clcc", "release"} \/ Shown(p)
      BY <1>1, <1>2, <2>1, Zenon DEF Shown, n
    <2>2. ASSUME h.kind \in {"clcc", "release"} \/ Shown(p) PROVE Shown(q)
      BY <1>1, <1>2, <2>2, Zenon DEF Shown, n
    <2> QED BY <2>1, <2>2
  <1>4. AllFree(q) => AllFree(p) /\ (h.kind = "ok" => h.free = TRUE)
    BY <1>1, <1>2 DEF AllFree, n
  <1>5. ASSUME Covered(q), h.kind \notin {"clcc", "release"}
        PROVE  Covered(p) /\ (h.kind = "ok" => h.free = TRUE)
    <2>1. ASSUME h.kind = "ok" PROVE h.free = TRUE
      <3>1. h.free \in BOOLEAN
        BY <1>1, Zenon DEF Events
      <3>2. h.free # FALSE
        <4>1. ~\E j \in 1 .. 1 - 1 : q[j].kind \in {"clcc", "release"}
          OBVIOUS
        <4> QED BY <1>1, <1>2, <1>5, <2>1, <4>1, Zenon DEF Covered
      <3> QED BY <3>1, <3>2, Zenon
    <2>2. ASSUME NEW k \in 1 .. n, p[k].kind = "ok", p[k].free = FALSE
          PROVE  \E j \in 1 .. k - 1 : p[j].kind \in {"clcc", "release"}
      <3>1. PICK i \in 1 .. (k + 1) - 1 : q[i].kind \in {"clcc", "release"}
        BY <1>1, <1>2, <1>5, <2>2, Zenon DEF Covered
      <3>2. i # 1 /\ i \in 1 .. Len(q)
        BY <1>1, <1>5, <3>1
      <3>3. i - 1 \in 1 .. k - 1 /\ p[i - 1] = q[i]
        BY <1>1, <1>2, <3>1, <3>2
      <3> QED BY <3>1, <3>3, Zenon
    <2> QED BY <2>1, <2>2, Zenon DEF Covered, n
  <1>6. NoClcc(q) => NoClcc(p)
    BY <1>1, <1>2 DEF NoClcc, n
  <1>7. (HasRelease(p) => HasRelease(q)) /\ (Rings(p) => Rings(q))
    BY <1>1, <1>2 DEF HasRelease, Rings, n
  <1>8. OkOnly(q) => OkOnly(p) /\ h.kind = "ok" /\ h.free = TRUE
    BY <1>1, <1>2 DEF OkOnly, n
  <1>9. ASSUME RingFirst(q) PROVE RingFirst(p) /\ (h.kind # "ok" => ~Rings(p))
    <2>1. ASSUME NEW k \in 1 .. n, p[k].kind = "ring", NEW j \in 1 .. k - 1 PROVE p[j].kind = "ok"
      <3>1. j + 1 \in 1 .. (k + 1) - 1 /\ j \in 1 .. n
        BY <1>1
      <3> QED BY <1>1, <1>2, <1>9, <2>1, <3>1 DEF RingFirst
    <2>2. ASSUME NEW k \in 1 .. n, p[k].kind = "ring" PROVE h.kind = "ok"
      <3>1. 1 \in 1 .. (k + 1) - 1
        BY <1>1
      <3> QED BY <1>1, <1>2, <1>9, <2>2, <3>1 DEF RingFirst
    <2> QED BY <2>1, <2>2, Zenon DEF RingFirst, Rings, n
  <1>10. ASSUME Awaited(q), h.kind # "ok" PROVE Awaited(p) /\ h.kind # "ring"
    <2>1. h.kind # "ring"
      BY <1>1, <1>2, <1>10 DEF Awaited
    <2>2. ASSUME NEW k \in 1 .. n, p[k].kind = "ring" PROVE \E j \in 1 .. k - 1 : p[j].kind = "ok"
      <3>1. PICK i \in 1 .. (k + 1) - 1 : q[i].kind = "ok"
        BY <1>1, <1>2, <1>10, <2>2, Zenon DEF Awaited
      <3>2. i # 1 /\ i \in 1 .. Len(q)
        BY <1>1, <1>10, <3>1
      <3>3. i - 1 \in 1 .. k - 1 /\ p[i - 1] = q[i]
        BY <1>1, <1>2, <3>1, <3>2
      <3> QED BY <3>1, <3>3, Zenon
    <2> QED BY <2>1, <2>2, Zenon DEF Awaited, n
  <1>11. Visible(q) => Visible(p) /\ h.empty = FALSE
    BY <1>1, <1>2 DEF Visible, n
  <1>12. (Unbroken(q) => Unbroken(p) /\ h.gap = FALSE) /\ (GapFirst(q) => Unbroken(p))
    <2>1. Unbroken(q) => Unbroken(p) /\ h.gap = FALSE
      BY <1>1, <1>2 DEF Unbroken, n
    <2>2. ASSUME GapFirst(q), NEW k \in 1 .. n PROVE p[k].gap = FALSE
      <3>1. p[k].gap \in BOOLEAN
        <4>1. p[k] \in Events
          BY <1>1 DEF n
        <4> QED BY <4>1, Zenon DEF Events
      <3>2. p[k].gap # TRUE
        BY <1>1, <1>2, <2>2, Zenon DEF GapFirst
      <3> QED BY <3>1, <3>2, Zenon
    <2> QED BY <2>1, <2>2, Zenon DEF Unbroken, n
  <1> QED BY <1>1, <1>3, <1>4, <1>5, <1>6, <1>7, <1>8, <1>9, <1>10, <1>11, <1>12, Zenon

\* nothing is on its way
LEMMA EmptyFacts ==
    /\ AllFree(<<>>) /\ Covered(<<>>) /\ NoClcc(<<>>) /\ OkOnly(<<>>) /\ RingFirst(<<>>)
    /\ Awaited(<<>>) /\ Visible(<<>>) /\ Unbroken(<<>>) /\ GapFirst(<<>>)
    /\ ~Shown(<<>>) /\ ~Rings(<<>>) /\ ~HasRelease(<<>>)
  BY DEF AllFree, Covered, NoClcc, OkOnly, RingFirst, Awaited, Visible, Unbroken, GapFirst,
         Shown, Rings, HasRelease

\* a command that the modem answers OK, or refuses, when none fails without reason
LEMMA CommandLines ==
    ASSUME CallTyped, NEW c \in Slots, NEW q, ProperQueue(q), NEW name, NEW ok \in BOOLEAN,
           Command(name, c, q, ok), errors' = errors
    PROVE  \/ /\ ok = TRUE /\ ~Refused(name) /\ modem' = Effect(name, modem) /\ unseen' = FALSE
              /\ \E a, b \in Events :
                    /\ b.kind = "ok" /\ b.free = (modem = NoCall) /\ b.empty = modem.empty
                    /\ IF name = "CLCC" /\ modem # NoCall
                       THEN /\ a.kind = "clcc" /\ a.empty = modem.empty /\ a.gap = unseen
                            /\ b.gap = FALSE /\ queue' = Append(Append(q, a), b)
                       ELSE b.gap = unseen /\ queue' = Append(q, b)
           \/ /\ ok = FALSE /\ Refused(name) /\ modem' = modem
              /\ \/ queue' = q /\ unseen' = unseen
                 \/ /\ unseen' = FALSE
                    /\ \E a \in Events : /\ a.kind = "error" /\ a.empty = modem.empty
                                         /\ a.gap = unseen /\ queue' = Append(q, a)
  <1> DEFINE id == FreshId(c, q)
             l == Line("clcc", "response", id, modem)
             o == Line("ok", "terminal", id, modem)
             x == Line("error", "terminal", id, modem)
  <1>1. /\ id \in Nat /\ id # 0 /\ q \in Seq(Events) /\ unseen \in BOOLEAN
        /\ ProperVoice(modem) /\ errors \in Nat
    BY FreshIdType, Zenon DEF ProperQueue, CallTyped
  <1>2. ~ModemFails
    BY <1>1 DEF ModemFails
  <1>3. \/ /\ ok = TRUE /\ ~Refused(name) /\ modem' = Effect(name, modem) /\ unseen' = FALSE
           /\ queue' = Queued(q, AnswerLines(name, id, modem))
        \/ /\ ok = FALSE /\ Refused(name) /\ modem' = modem
           /\ queue' \in {q, Queued(q, <<x>>)} /\ unseen' = (unseen /\ queue' = q)
    BY <1>2, Zenon DEF Command, Error
  <1>4. /\ o \in Events /\ o.kind = "ok" /\ o.free = (modem = NoCall)
        /\ o.empty = modem.empty /\ o.gap = FALSE
    BY <1>1, Zenon DEF Line, Events, ProperVoice, Voices
  <1>5. l \in Events /\ l.kind = "clcc" /\ l.empty = modem.empty /\ l.gap = FALSE
    BY <1>1, Zenon DEF Line, Events, ProperVoice, Voices
  <1>6. x \in Events /\ x.kind = "error" /\ x.empty = modem.empty /\ x.gap = FALSE
    BY <1>1, Zenon DEF Line, Events, ProperVoice, Voices
  <1>7. AnswerLines(name, id, modem) = IF name = "CLCC" /\ modem # NoCall THEN <<l, o>> ELSE <<o>>
    BY Zenon DEF AnswerLines
  <1> HIDE DEF id, l, o, x
  <1>8. ASSUME NEW e \in Events
        PROVE  LET m1 == [e EXCEPT !.gap = unseen]
               IN  /\ m1 \in Events /\ m1.kind = e.kind /\ m1.free = e.free
                   /\ m1.empty = e.empty /\ m1.gap = unseen
    BY <1>1, Zenon DEF Events
  <1> DEFINE l1 == [l EXCEPT !.gap = unseen]
             o1 == [o EXCEPT !.gap = unseen]
             x1 == [x EXCEPT !.gap = unseen]
  <1>9. CASE /\ ok = TRUE /\ ~Refused(name) /\ modem' = Effect(name, modem) /\ unseen' = FALSE
             /\ queue' = Queued(q, AnswerLines(name, id, modem))
    <2>1. CASE name = "CLCC" /\ modem # NoCall
      <3>1. queue' = Append(Append(q, l1), o)
        BY <1>1, <1>4, <1>5, <1>7, <1>9, <2>1, QueuedTwo, Zenon
      <3>2. l1 \in Events /\ l1.kind = "clcc" /\ l1.empty = modem.empty /\ l1.gap = unseen
        BY <1>5, <1>8
      <3> HIDE DEF l1
      <3> QED BY <1>4, <1>9, <2>1, <3>1, <3>2, Zenon
    <2>2. CASE ~(name = "CLCC" /\ modem # NoCall)
      <3>1. queue' = Append(q, o1)
        BY <1>1, <1>4, <1>7, <1>9, <2>2, QueuedOne, Zenon
      <3>2. /\ o1 \in Events /\ o1.kind = "ok" /\ o1.free = (modem = NoCall)
            /\ o1.empty = modem.empty /\ o1.gap = unseen
        BY <1>4, <1>8
      <3> HIDE DEF o1
      <3> QED BY <1>9, <2>2, <3>1, <3>2, Zenon
    <2> QED BY <2>1, <2>2, Zenon
  <1>10. CASE /\ ok = FALSE /\ Refused(name) /\ modem' = modem
              /\ queue' \in {q, Queued(q, <<x>>)} /\ unseen' = (unseen /\ queue' = q)
    <2>1. x1 \in Events /\ x1.kind = "error" /\ x1.empty = modem.empty /\ x1.gap = unseen
      BY <1>6, <1>8
    <2>2. CASE queue' = q
      BY <1>1, <1>10, <2>2, Zenon
    <2>3. CASE queue' = Queued(q, <<x>>)
      <3>1. queue' = Append(q, x1)
        BY <1>1, <1>6, <2>3, QueuedOne, Zenon
      <3>2. queue' # q
        <4> HIDE DEF x1
        <4> QED BY <1>1, <2>1, <3>1
      <3>3. unseen' = FALSE
        BY <1>10, <3>2, Zenon
      <3> HIDE DEF x1
      <3> QED BY <1>10, <2>1, <3>1, <3>3, Zenon
    <2> QED BY <1>10, <2>2, <2>3, Zenon
  <1> QED BY <1>3, <1>9, <1>10, Zenon

\* a poll of the calls: the modem shows its call, if it has one, before the end
LEMMA PolledQueue ==
    ASSUME CallTyped, NEW c \in Slots, NEW q, ProperQueue(q), NEW ok \in BOOLEAN,
           Command("CLCC", c, q, ok), errors' = errors
    PROVE  /\ ok = TRUE /\ modem' = modem /\ unseen' = FALSE /\ queue' # <<>>
           /\ Shown(queue') <=> Shown(q) \/ modem # NoCall
           /\ AllFree(queue') <=> AllFree(q) /\ modem = NoCall
           /\ Covered(q) => Covered(queue')
           /\ Rings(queue') <=> Rings(q)
           /\ HasRelease(queue') <=> HasRelease(q)
           /\ modem = NoCall /\ OkOnly(q) => OkOnly(queue')
           /\ RingFirst(q) => RingFirst(queue')
           /\ Awaited(q) => Awaited(queue')
           /\ modem.empty = FALSE /\ Visible(q) => Visible(queue')
           /\ unseen = FALSE /\ Unbroken(q) => Unbroken(queue')
           /\ GapFirst(q) /\ (unseen = TRUE => q = <<>>) => GapFirst(queue')
  <1>1. ~Refused("CLCC") /\ Effect("CLCC", modem) = modem
    BY DEF Refused, Effect
  <1>2. PICK a, b \in Events :
           /\ b.kind = "ok" /\ b.free = (modem = NoCall) /\ b.empty = modem.empty
           /\ IF modem # NoCall
              THEN /\ a.kind = "clcc" /\ a.empty = modem.empty /\ a.gap = unseen
                   /\ b.gap = FALSE /\ queue' = Append(Append(q, a), b)
              ELSE b.gap = unseen /\ queue' = Append(q, b)
    BY <1>1, CommandLines, ZenonT(30)
  <1>3. ok = TRUE /\ modem' = modem /\ unseen' = FALSE
    BY <1>1, CommandLines, Zenon
  <1>4. q \in Seq(Events)
    BY DEF ProperQueue
  <1>5. CASE modem = NoCall
    <2>1. queue' = Append(q, b) /\ b.gap = unseen /\ b.free = TRUE
      BY <1>2, <1>5, Zenon
    <2> QED BY <1>2, <1>3, <1>4, <1>5, <2>1, AppendFacts, ZenonT(30)
  <1>6. CASE modem # NoCall
    <2> DEFINE p == Append(q, a)
    <2>1. /\ queue' = Append(p, b) /\ b.gap = FALSE /\ b.free = FALSE
          /\ a.kind = "clcc" /\ a.empty = modem.empty /\ a.gap = unseen
      BY <1>2, <1>6, Zenon
    <2>2. /\ p \in Seq(Events) /\ p # <<>> /\ Shown(p)
          /\ Covered(q) => Covered(p)
          /\ Rings(p) <=> Rings(q)
          /\ HasRelease(p) <=> HasRelease(q)
          /\ RingFirst(q) => RingFirst(p)
          /\ Awaited(q) => Awaited(p)
          /\ a.empty = FALSE /\ Visible(q) => Visible(p)
          /\ a.gap = FALSE /\ Unbroken(q) => Unbroken(p)
          /\ GapFirst(q) /\ (a.gap = TRUE => q = <<>>) => GapFirst(p)
      BY <1>4, <2>1, AppendFacts, Zenon
    <2> HIDE DEF p
    <2> QED BY <1>2, <1>3, <1>6, <2>1, <2>2, AppendFacts, ZenonT(30)
  <1> QED BY <1>5, <1>6, Zenon

\* another command that the modem answers OK
LEMMA AnsweredQueue ==
    ASSUME CallTyped, NEW c \in Slots, NEW q, ProperQueue(q), NEW name, name # "CLCC",
           Command(name, c, q, TRUE), errors' = errors
    PROVE  /\ ~Refused(name) /\ modem' = Effect(name, modem) /\ unseen' = FALSE /\ queue' # <<>>
           /\ Shown(queue') <=> Shown(q)
           /\ AllFree(queue') <=> AllFree(q) /\ modem = NoCall
           /\ Covered(queue') <=> Covered(q) /\ (modem # NoCall => Shown(q))
           /\ Rings(queue') <=> Rings(q)
           /\ NoClcc(queue') <=> NoClcc(q)
           /\ HasRelease(queue') <=> HasRelease(q)
           /\ modem = NoCall /\ OkOnly(q) => OkOnly(queue')
           /\ RingFirst(q) => RingFirst(queue')
           /\ Awaited(q) => Awaited(queue')
           /\ modem.empty = FALSE /\ Visible(q) => Visible(queue')
           /\ unseen = FALSE /\ Unbroken(q) => Unbroken(queue')
           /\ GapFirst(q) /\ (unseen = TRUE => q = <<>>) => GapFirst(queue')
  <1>1. PICK b \in Events :
           /\ b.kind = "ok" /\ b.free = (modem = NoCall) /\ b.empty = modem.empty
           /\ b.gap = unseen /\ queue' = Append(q, b)
    BY CommandLines, Zenon
  <1>2. ~Refused(name) /\ modem' = Effect(name, modem) /\ unseen' = FALSE
    BY CommandLines, Zenon
  <1>3. q \in Seq(Events)
    BY DEF ProperQueue
  <1> QED BY <1>1, <1>2, <1>3, AppendFacts, Zenon

\* a command that the modem refuses
LEMMA RefusedQueue ==
    ASSUME CallTyped, NEW c \in Slots, NEW q, ProperQueue(q), NEW name,
           Command(name, c, q, FALSE), errors' = errors
    PROVE  /\ Refused(name) /\ modem' = modem /\ (queue' = q \/ queue' # <<>>)
           /\ unseen' = TRUE => unseen = TRUE /\ queue' = q
           /\ HasRelease(queue') <=> HasRelease(q)
           /\ RingFirst(q) => RingFirst(queue')
           /\ modem.empty = FALSE /\ Visible(q) => Visible(queue')
           /\ GapFirst(q) /\ (unseen = TRUE => q = <<>>) => GapFirst(queue')
  <1>1. Refused(name) /\ modem' = modem
    BY CommandLines, Zenon
  <1>2. q \in Seq(Events)
    BY DEF ProperQueue
  <1>3. CASE queue' = q /\ unseen' = unseen
    BY <1>1, <1>3, Zenon
  <1>4. CASE \E a \in Events : /\ a.kind = "error" /\ a.empty = modem.empty
                               /\ a.gap = unseen /\ queue' = Append(q, a) /\ unseen' = FALSE
    BY <1>1, <1>2, <1>4, AppendFacts, Zenon
  <1> QED BY <1>3, <1>4, CommandLines, Zenon

\* the first call, with nothing lost, hidden, foreign or failed
Quiet == calls <= 1 /\ Troubles = 0

\* in quiet, no number is withheld, and a reconciliation awaits any command's end
Plain ==
    /\ modem.empty = FALSE /\ Visible(queue) /\ slot.idle_at = FALSE
    /\ slot.pending = TRUE => slot.id = 0
    /\ slot.state = "idle" => slot.misses = 0

\* gaps come only from the time in which voipd was disabled: the next event has it
Seamless ==
    /\ unseen = TRUE => queue = <<>>
    /\ GapFirst(queue)
    /\ slot.state \in Ongoing \cup {"idle"} => unseen = FALSE /\ Unbroken(queue)

\* before the first call there are only ends of commands, and its release is its end
FirstCall ==
    /\ calls = 0 => /\ modem = NoCall /\ slot.state \notin Ongoing /\ OkOnly(queue)
                    /\ slot.state = "idle" /\ slot.pending = TRUE => queue # <<>>
    /\ RingFirst(queue)
    /\ HasRelease(queue) => modem = NoCall

\* a poll sent before the call: its end comes before the ring, or the call is shown
WhileIdle ==
    slot.state = "idle" =>
        /\ Rings(queue) /\ reading = FALSE /\ modem = NoCall => Shown(queue)
        /\ slot.pending = TRUE => Shown(queue) \/ Awaited(queue)

\* in a call: no end that counts against it was sent while the modem had it
InCall ==
    slot.state \in Ongoing =>
        /\ reading = FALSE => NoClcc(queue)
        /\ reading = FALSE /\ modem = NoCall => AllFree(queue) \/ Shown(queue)
        /\ slot.pending = TRUE /\ slot.misses = 0 => AllFree(queue) \/ Shown(queue)
        /\ slot.pending = TRUE /\ slot.misses = 1 => Covered(queue)
        /\ slot.pending = FALSE /\ slot.misses = 1 =>
              AllFree(queue) \/ (reading = TRUE /\ Shown(queue))
        /\ (slot.pending = TRUE \/ slot.misses = 1) /\ ~Shown(queue) =>
              AllFree(queue) /\ (modem = NoCall \/ slot.state = "outgoing_setup")

CallQuiet == Plain /\ Seamless /\ FirstCall /\ WhileIdle /\ InCall

\* without a ring there is nothing to await
LEMMA NoRingAwaited == ASSUME NEW q, ~Rings(q) PROVE Awaited(q)
  BY DEF Rings, Awaited

\* what a line does to the call in quiet
HandledAs(c, e, d) ==
    /\ d.idle_at = c.idle_at /\ d \in Slots
    /\ d.pending = TRUE => d.id = 0
    /\ d.state = "idle" => d.misses = 0
    /\ e.kind = "ok" /\ c.pending = FALSE => d = c
    /\ e.kind = "ok" /\ c.pending = TRUE =>
          /\ d.pending = FALSE
          /\ IF c.state \in Ongoing /\ c.misses = 0
             THEN d.state = c.state /\ d.misses = 1 ELSE d.state = "idle"
    /\ e.kind = "error" => /\ d.state = c.state /\ d.misses = c.misses /\ d.pending = FALSE
    /\ e.kind = "clcc" => /\ d.pending = FALSE /\ d.misses = 0
                          /\ ~Ignored(c, e) /\ ~Phantom(c, e)
                          /\ IF c.state = "terminating" THEN d.state = "terminating"
                             ELSE d.state \in Ongoing
    /\ e.kind = "ring" => /\ d.pending = c.pending /\ d.misses = c.misses
                          /\ d.state = IF c.state = "idle" THEN "incoming_ringing" ELSE c.state
    /\ e.kind = "release" => d.pending = c.pending /\ d.state = "idle"

\* qmodem_voip_line in quiet, by the kind of line
LEMMA HandledFacts ==
    ASSUME NEW c \in Slots, NEW e, Proper(e), e.empty = FALSE, c.pending = TRUE => c.id = 0,
           c.state = "idle" => c.misses = 0, NEW d, d = Handled(c, e)
    PROVE  HandledAs(c, e, d)
  <1> USE DEF HandledAs
  <1>0. /\ e \in Events /\ e.kind \in {"ring", "release", "ok", "error", "clcc"}
        /\ c.pending \in BOOLEAN /\ d \in Slots /\ c.misses \in {0, 1}
    BY HandledSlot, Zenon DEF Proper, Events, Slots
  <1>1. CASE e.kind = "ok"
    <2>1. d = IF c.pending = TRUE THEN OnOk(c) ELSE c
      BY <1>0, <1>1 DEF Handled, Correlated, Proper
    <2>2. CASE c.pending = FALSE
      BY <1>0, <1>1, <2>1, <2>2, Zenon
    <2>3. CASE c.pending = TRUE
      <3> DEFINE i == [c EXCEPT !.idle_poll = FALSE]
                 r == Reconciled(i)
      <3>1. /\ i \in Slots /\ i.state = c.state /\ i.misses = c.misses /\ i.idle_at = c.idle_at
        BY Zenon DEF Slots
      <3>2. /\ r \in Slots /\ r.state = c.state /\ r.misses = c.misses /\ r.idle_at = c.idle_at
            /\ r.pending = FALSE
        <4> HIDE DEF i
        <4> QED BY <3>1, Zenon DEF Slots, Reconciled
      <3> HIDE DEF r
      <3>3. CASE c.idle_poll /\ c.state = "idle"
        <4>1. OnOk(c) = r
          BY <3>3 DEF OnOk, Setup, r
        <4> QED BY <1>1, <2>1, <2>3, <3>2, <3>3, <4>1, Zenon DEF Ongoing, Setup
      <3>4. CASE c.state \in Setup \cup {"active"} /\ ~Missed(c)
        <4>1. OnOk(c) = [r EXCEPT !.misses = @ + 1] /\ c.misses = 0
          BY <1>0, <3>4 DEF OnOk, Setup, r, Missed
        <4>2. [r EXCEPT !.misses = @ + 1] = [r EXCEPT !.misses = 1]
          BY <3>2, <4>1 DEF Slots
        <4>3. d = [r EXCEPT !.misses = 1]
          BY <2>1, <2>3, <4>1, <4>2, Zenon
        <4>4. d.state = c.state /\ d.misses = 1 /\ d.idle_at = c.idle_at /\ d.pending = FALSE
          BY <3>2, <4>3 DEF Slots
        <4> QED BY <1>0, <1>1, <2>3, <3>4, <4>1, <4>4 DEF Ongoing, Setup
      <3>5. CASE /\ ~(c.idle_poll /\ c.state = "idle")
                 /\ ~(c.state \in Setup \cup {"active"} /\ ~Missed(c))
        <4>1. OnOk(c) = Cleared(r)
          BY <3>5 DEF OnOk, r
        <4>2. d.state = "idle" /\ d.misses = 0 /\ d.idle_at = c.idle_at /\ d.pending = FALSE
          BY <2>1, <2>3, <3>2, <4>1 DEF Cleared, Slots
        <4>3. ~(c.state \in Ongoing /\ c.misses = 0)
          BY <3>5 DEF Missed, Ongoing
        <4> QED BY <1>0, <1>1, <2>3, <4>2, <4>3, Zenon
      <3> QED BY <3>3, <3>4, <3>5, Zenon
    <2> QED BY <1>0, <2>2, <2>3, Zenon
  <1>2. CASE e.kind = "error"
    <2> DEFINE i == [c EXCEPT !.idle_poll = FALSE]
    <2>1. d = IF c.pending = TRUE THEN OnError(c) ELSE c
      BY <1>0, <1>2 DEF Handled, Correlated, Proper
    <2>2. i \in Slots /\ i.state = c.state /\ i.misses = c.misses /\ i.idle_at = c.idle_at
      BY Zenon DEF Slots
    <2>3. OnError(c) = Reconciled(i)
      BY DEF OnError
    <2> HIDE DEF i
    <2>4. d.state = c.state /\ d.misses = c.misses /\ d.pending = FALSE /\ d.idle_at = c.idle_at
      BY <1>0, <2>1, <2>2, <2>3 DEF Reconciled, Slots
    <2> QED BY <1>0, <1>2, <2>4, Zenon
  <1>3. CASE e.kind = "clcc"
    <2>1. d = OnClcc(c, e)
      BY <1>3 DEF Handled
    <2>2. ~Ignored(c, e) /\ ~Phantom(c, e)
      BY <1>0, <1>3, Zenon DEF Ignored, Phantom, Snapshot, Proper
    <2>3. /\ d.pending = FALSE /\ d.misses = 0 /\ d.idle_at = c.idle_at
          /\ \/ c.state = "terminating" /\ d.state = "terminating"
             \/ d.state \in Ongoing
      BY <1>3, <2>1, <2>2, OnClccSlot, ZenonT(30) DEF Ongoing
    <2>4. c.state = "terminating" => d.state = "terminating"
      <3> SUFFICES ASSUME c.state = "terminating" PROVE d.state = "terminating"
        BY Zenon
      <3> DEFINE a == IF Snapshot(c, e) /\ c.id = 0 THEN [c EXCEPT !.id = e.id] ELSE c
                 b == IF ~c.started /\ e.dir = "in"
                      THEN [a EXCEPT !.origin = "cellular", !.started = TRUE] ELSE a
                 f == [b EXCEPT !.pending = FALSE, !.misses = 0]
      <3>1. a \in Slots /\ a.state = c.state
        BY <1>0 DEF Slots, Events
      <3>2. b \in Slots /\ b.state = c.state
        <4> HIDE DEF a
        <4> QED BY <3>1, ZenonT(30) DEF Slots
      <3>3. f \in Slots /\ f.state = c.state
        <4> HIDE DEF b
        <4> QED BY <3>2, Zenon DEF Slots
      <3> HIDE DEF f
      <3>4. OnClcc(c, e) = Reconciled(f)
        BY <2>2, Zenon DEF OnClcc, f
      <3> QED BY <2>1, <3>3, <3>4 DEF Reconciled, Slots
    <2> QED BY <1>0, <1>3, <2>2, <2>3, <2>4, Zenon DEF Ongoing, Setup
  <1>4. CASE e.kind = "ring"
    <2>1. d = OnRing(c)
      BY <1>4 DEF Handled
    <2>2. /\ d.pending = c.pending /\ d.misses = c.misses /\ d.id = c.id /\ d.idle_at = c.idle_at
          /\ d.state = IF c.state = "idle" THEN "incoming_ringing" ELSE c.state
      BY <2>1 DEF OnRing, Slots
    <2> QED BY <1>0, <1>4, <2>2, Zenon
  <1>5. CASE e.kind = "release"
    <2>1. d = Cleared(c)
      BY <1>5 DEF Handled
    <2>2. /\ d.pending = c.pending /\ d.misses = 0 /\ d.id = c.id /\ d.idle_at = c.idle_at
          /\ d.state = "idle"
      BY <2>1 DEF Cleared, Slots
    <2> QED BY <1>0, <1>5, <2>2, Zenon
  <1> QED BY <1>0, <1>1, <1>2, <1>3, <1>4, <1>5, Zenon

\* the counters grow, so that quiet was quiet before
LEMMA CommandErrors ==
    ASSUME errors \in Nat, NEW name, NEW c, NEW q, NEW ok, Command(name, c, q, ok)
    PROVE  errors' \in {errors, errors + 1}
  BY Zenon DEF Command, ModemFails

\* each counter stays or grows by one
LEMMA Grows ==
    ASSUME CallTyped, CallNext
    PROVE  /\ calls' \in {calls, calls + 1} /\ withheld' \in {withheld, withheld + 1}
           /\ gaps' \in {gaps, gaps + 1} /\ lost' \in {lost, lost + 1}
           /\ foreigns' \in {foreigns, foreigns + 1} /\ errors' \in {errors, errors + 1}
  <1>0. errors \in Nat
    BY Zenon DEF CallTyped
  <1>1. CASE Remote
    BY <1>1 DEF Remote, Incoming, RemoteAccepts, RemoteEnds, callBounds, CallTyped
  <1>2. CASE Unseen \/ Lose \/ ForeignLine
    BY <1>2, Zenon DEF Unseen, Lose, ForeignLine
  <1>3. CASE User
    <2>1. ASSUME NEW name, NEW c, Method(name, c)
          PROVE  /\ errors' \in {errors, errors + 1}
                 /\ UNCHANGED <<withheld, gaps, lost, foreigns>>
      BY <1>0, <2>1, CommandErrors, Zenon DEF Method, Issue
    <2>2. CASE Terminate
      BY <2>1, <2>2 DEF Terminate
    <2>3. CASE EnableMethod
      BY <1>0, <2>3, CommandErrors, Zenon DEF EnableMethod
    <2>4. CASE DisableMethod
      BY <2>4 DEF DisableMethod, callBounds
    <2>5. ASSUME NEW e \in Endpoints, OriginateCall(e) \/ AnswerCall(e)
          PROVE  /\ errors' \in {errors, errors + 1} /\ calls' \in {calls, calls + 1}
                 /\ UNCHANGED <<withheld, gaps, lost, foreigns>>
      BY <2>1, <2>5 DEF OriginateCall, AnswerCall
    <2>6. ASSUME NEW e \in Endpoints, SendDtmf(e)
          PROVE  /\ errors' \in {errors, errors + 1} /\ calls' = calls
                 /\ UNCHANGED <<withheld, gaps, lost, foreigns>>
      BY <1>0, <2>6, CommandErrors, Zenon DEF SendDtmf
    <2> QED BY <1>3, <2>2, <2>3, <2>4, <2>5, <2>6, Zenon DEF User
  <1>4. CASE LineEvent
    <2>1. errors' \in {errors, errors + 1}
      BY <1>0, <1>4, CommandErrors, Zenon DEF LineEvent, Issue
    <2> QED BY <1>4, <2>1 DEF LineEvent
  <1>5. CASE CallTimer
    <2>1. errors' \in {errors, errors + 1}
      BY <1>0, <1>5, CommandErrors, Zenon DEF CallTimer, PollSetup, PollActive, PollIdle, Issue, ModemFails
    <2> QED BY <1>5, <2>1, Zenon DEF CallTimer, PollSetup, PollActive, PollIdle, Timer
  <1>6. CASE IdleAtFailed
    BY <1>6 DEF IdleAtFailed, callBounds
  <1> QED BY <1>1, <1>2, <1>3, <1>4, <1>5, <1>6, Zenon DEF CallNext

\* no trouble at all means none of each kind
LEMMA ZeroSum ==
    ASSUME NEW a \in Nat, NEW b \in Nat, NEW c \in Nat, NEW d \in Nat, NEW e \in Nat,
           a + b + c + d + e = 0
    PROVE  a = 0 /\ b = 0 /\ c = 0 /\ d = 0 /\ e = 0
  OBVIOUS

\* so a quiet state comes from a quiet one by a step without trouble
LEMMA StaysQuiet ==
    ASSUME CallTyped, CallTyped', CallNext, Quiet'
    PROVE  /\ Quiet /\ errors' = errors /\ withheld' = withheld /\ gaps' = gaps /\ lost' = lost
           /\ foreigns' = foreigns
  <1>1. /\ calls \in Nat /\ withheld \in Nat /\ gaps \in Nat /\ lost \in Nat /\ foreigns \in Nat
        /\ errors \in Nat
    BY Zenon DEF CallTyped
  <1>2. withheld' + gaps' + lost' + foreigns' + errors' = 0 /\ calls' <= 1
    BY Zenon DEF Quiet, Troubles
  <1>a. /\ calls' \in Nat /\ withheld' \in Nat /\ gaps' \in Nat /\ lost' \in Nat
        /\ foreigns' \in Nat /\ errors' \in Nat
    BY Zenon DEF CallTyped
  <1>3. withheld' = 0 /\ gaps' = 0 /\ lost' = 0 /\ foreigns' = 0 /\ errors' = 0
    BY <1>2, <1>a, ZeroSum, Zenon
  <1>4. withheld = 0 /\ gaps = 0 /\ lost = 0 /\ foreigns = 0 /\ errors = 0
    BY <1>1, <1>3, Grows
  <1>5. calls <= 1
    BY <1>1, <1>2, Grows
  <1>6. Troubles = 0
    BY <1>4 DEF Troubles
  <1> QED BY <1>3, <1>4, <1>5, <1>6, Zenon DEF Quiet

\* the line that a ring or a release adds to the queue
LEMMA EmitLine ==
    ASSUME CallTyped, ProperVoice(modem'), NEW kind \in {"ring", "release", "ok", "error", "clcc"},
           Emit(kind, "idle", 0)
    PROVE  \E e \in Events : /\ e.kind = kind /\ e.empty = modem'.empty /\ e.gap = unseen
                             /\ queue' = Append(queue, e) /\ unseen' = FALSE
  <1> DEFINE l == Line(kind, "idle", 0, modem')
             e == [l EXCEPT !.gap = unseen]
  <1>1. l \in Events /\ l.kind = kind /\ l.empty = modem'.empty
    BY Zenon DEF Line, Events, ProperVoice, Voices
  <1>2. queue' = Queued(queue, <<l>>) /\ unseen' = FALSE
    BY Zenon DEF Emit
  <1> HIDE DEF l
  <1>3. queue \in Seq(Events) /\ unseen \in BOOLEAN
    BY Zenon DEF CallTyped, ProperQueue
  <1>4. e \in Events /\ e.kind = kind /\ e.empty = modem'.empty /\ e.gap = unseen
    BY <1>1, <1>3, Zenon DEF Events
  <1>5. queue' = Append(queue, e)
    BY <1>1, <1>2, <1>3, QueuedOne, Zenon
  <1> HIDE DEF e
  <1> QED BY <1>2, <1>4, <1>5, Zenon

\* a call comes in: it is the first, so only ends of commands are before its ring
LEMMA IncomingQuiet ==
    ASSUME CallTyped, CallTyped', Quiet, Quiet', CallQuiet, withheld' = withheld, Incoming
    PROVE  CallQuiet'
  <1>1. calls = 0 /\ calls' = 1 /\ modem = NoCall /\ slot' = slot /\ reading' = reading
    BY DEF Incoming, Quiet, CallTyped
  <1>2. modem' = [dir |-> "in", stat |-> "incoming", empty |-> FALSE]
    <2>1. PICK w \in BOOLEAN : /\ withheld' = withheld + (IF w THEN 1 ELSE 0)
                               /\ modem' = [dir |-> "in", stat |-> "incoming", empty |-> w]
      BY Zenon DEF Incoming
    <2>2. w = FALSE
      BY <2>1 DEF CallTyped
    <2> QED BY <2>1, <2>2, Zenon
  <1>3. modem' # NoCall /\ modem'.empty = FALSE
    BY <1>2, Zenon DEF NoCall
  <1>4. PICK e \in Events : /\ e.kind = "ring" /\ e.empty = FALSE /\ e.gap = unseen
                            /\ queue' = Append(queue, e) /\ unseen' = FALSE
    BY <1>3, EmitLine, Zenon DEF Incoming, CallTyped
  <1>5. OkOnly(queue) /\ slot.state \notin Ongoing /\ unseen \in BOOLEAN
    BY <1>1, Zenon DEF CallQuiet, FirstCall, CallTyped
  <1>6. queue \in Seq(Events) /\ ~HasRelease(queue)
    BY <1>5, Zenon DEF CallTyped, ProperQueue, OkOnly, HasRelease
  <1>7. /\ RingFirst(queue') /\ ~HasRelease(queue')
        /\ queue # <<>> /\ Awaited(queue) => Awaited(queue')
        /\ Visible(queue) => Visible(queue')
        /\ unseen = FALSE /\ Unbroken(queue) => Unbroken(queue')
        /\ GapFirst(queue) /\ (unseen = TRUE => queue = <<>>) => GapFirst(queue')
    BY <1>4, <1>5, <1>6, AppendFacts, Zenon DEF CallQuiet, FirstCall
  <1>8. Awaited(queue)
    BY <1>5, Zenon DEF OkOnly, Awaited
  <1>9. Plain'
    BY <1>1, <1>3, <1>7, Zenon DEF CallQuiet, Plain
  <1>10. Seamless'
    BY <1>1, <1>4, <1>5, <1>7, Zenon DEF CallQuiet, Seamless
  <1>11. FirstCall'
    BY <1>1, <1>7 DEF FirstCall
  <1>12. WhileIdle'
    BY <1>1, <1>3, <1>7, <1>8, Zenon DEF CallQuiet, FirstCall, WhileIdle
  <1>13. InCall'
    BY <1>1, <1>5, Zenon DEF InCall
  <1> QED BY <1>9, <1>10, <1>11, <1>12, <1>13, Zenon DEF CallQuiet

\* the far end is alerted or answers: the modem still has the call
LEMMA AcceptsQuiet ==
    ASSUME CallTyped, CallQuiet, RemoteAccepts PROVE CallQuiet'
  <1>1. modem # NoCall /\ modem' # NoCall /\ modem'.empty = modem.empty
    BY DEF RemoteAccepts, CallTyped, ProperVoice, Voices, NoCall
  <1>2. UNCHANGED <<slot, queue, unseen, reading, calls>>
    BY DEF RemoteAccepts, callBounds
  <1> QED BY <1>1, <1>2, Zenon DEF CallQuiet, Plain, Seamless, FirstCall, WhileIdle, InCall

\* the far end hangs up: a release is on its way
LEMMA EndsQuiet ==
    ASSUME CallTyped, CallTyped', CallQuiet, RemoteEnds PROVE CallQuiet'
  <1>1. modem # NoCall /\ modem' = NoCall /\ UNCHANGED <<slot, reading, calls>>
    BY Zenon DEF RemoteEnds, callBounds
  <1>2. modem'.empty = FALSE
    BY <1>1, Zenon DEF NoCall
  <1>3. PICK e \in Events : /\ e.kind = "release" /\ e.empty = FALSE /\ e.gap = unseen
                            /\ queue' = Append(queue, e) /\ unseen' = FALSE
    BY <1>2, EmitLine, Zenon DEF RemoteEnds, CallTyped
  <1>4. queue \in Seq(Events) /\ unseen \in BOOLEAN /\ calls # 0
    BY <1>1, Zenon DEF CallTyped, ProperQueue, CallQuiet, FirstCall
  <1>5. /\ Shown(queue')
        /\ AllFree(queue') <=> AllFree(queue)
        /\ Covered(queue) => Covered(queue')
        /\ NoClcc(queue) => NoClcc(queue')
        /\ RingFirst(queue) => RingFirst(queue')
        /\ Visible(queue) => Visible(queue')
        /\ unseen = FALSE /\ Unbroken(queue) => Unbroken(queue')
        /\ GapFirst(queue) /\ (unseen = TRUE => queue = <<>>) => GapFirst(queue')
    BY <1>3, <1>4, AppendFacts, Zenon
  <1>6. Plain'
    BY <1>1, <1>2, <1>5, Zenon DEF CallQuiet, Plain
  <1>7. Seamless'
    BY <1>1, <1>3, <1>4, <1>5, Zenon DEF CallQuiet, Seamless
  <1>8. FirstCall' /\ WhileIdle'
    BY <1>1, <1>4, <1>5, Zenon DEF CallQuiet, FirstCall, WhileIdle
  <1>9. InCall'
    BY <1>1, <1>5, Zenon DEF CallQuiet, InCall
  <1> QED BY <1>6, <1>7, <1>8, <1>9, Zenon DEF CallQuiet

\* outside a call and idleness, only the queue matters
LEMMA SetAside ==
    ASSUME slot'.state \notin Ongoing \cup {"idle"}, slot'.idle_at = FALSE,
           slot'.pending = TRUE => slot'.id = 0, modem'.empty = FALSE, Visible(queue'),
           unseen' = TRUE => queue' = <<>>, GapFirst(queue'), RingFirst(queue'),
           calls' = 0 => modem' = NoCall /\ OkOnly(queue'), HasRelease(queue') => modem' = NoCall
    PROVE  CallQuiet'
  BY Zenon DEF CallQuiet, Plain, Seamless, FirstCall, WhileIdle, InCall

\* only ends of commands that found no call
LEMMA OkOnlyFacts ==
    ASSUME NEW q, OkOnly(q) PROVE AllFree(q) /\ NoClcc(q) /\ ~HasRelease(q) /\ ~Rings(q)
  BY Zenon DEF OkOnly, AllFree, NoClcc, HasRelease, Rings

\* originate: every end on its way is from before the call, and one is not enough
LEMMA OriginateQuiet ==
    ASSUME CallTyped, CallQuiet, calls' <= 1, errors' = errors,
           NEW x \in Endpoints, OriginateCall(x)
    PROVE  CallQuiet'
  <1> DEFINE c == [slot EXCEPT !.state = "outgoing_setup", !.origin = x, !.owner = "none",
                               !.started = TRUE, !.misses = 0]
  <1>1. slot.state = "idle" /\ calls' = calls + 1 /\ Issue("ATD", c, queue) /\ reading' = reading
    BY DEF OriginateCall, Method
  <1>2. calls = 0 /\ calls' = 1
    BY <1>1 DEF CallTyped
  <1>3. /\ c \in Slots /\ c.state = "outgoing_setup" /\ c.misses = 0 /\ c.pending = slot.pending
        /\ c.id = slot.id /\ c.idle_at = slot.idle_at
    BY Zenon DEF CallTyped, Slots, States, Setup
  <1> HIDE DEF c
  <1>4. /\ modem = NoCall /\ OkOnly(queue) /\ unseen = FALSE /\ Unbroken(queue)
        /\ ProperQueue(queue) /\ modem.empty = FALSE /\ GapFirst(queue) /\ RingFirst(queue)
        /\ Visible(queue) /\ slot.idle_at = FALSE /\ (slot.pending = TRUE => slot.id = 0)
    BY <1>1, <1>2, Zenon DEF CallQuiet, Plain, Seamless, FirstCall, CallTyped
  <1>5. AllFree(queue) /\ NoClcc(queue) /\ ~HasRelease(queue)
    BY <1>4, OkOnlyFacts, Zenon
  <1>6. ~Command("ATD", c, queue, FALSE)
    <2>1. ~Refused("ATD")
      BY <1>4, Zenon DEF Refused
    <2> QED BY <1>3, <1>4, <2>1, RefusedQueue, Zenon
  <1>7. slot' = c /\ Command("ATD", c, queue, TRUE)
    BY <1>1, <1>6, Zenon DEF Issue
  <1>8. /\ modem' = Effect("ATD", modem) /\ unseen' = FALSE
        /\ AllFree(queue') /\ NoClcc(queue') /\ ~HasRelease(queue') /\ RingFirst(queue')
        /\ Visible(queue') /\ Unbroken(queue') /\ GapFirst(queue')
    BY <1>3, <1>4, <1>5, <1>7, AnsweredQueue, Zenon
  <1>9. modem' # NoCall /\ modem'.empty = FALSE
    BY <1>8 DEF Effect, NoCall
  <1>10. /\ slot'.state = "outgoing_setup" /\ slot'.misses # 1 /\ slot'.idle_at = FALSE
         /\ slot'.pending = TRUE => slot'.id = 0
         /\ slot'.state # "idle" /\ calls' # 0
    BY <1>2, <1>3, <1>4, <1>7
  <1>11. Plain' /\ Seamless'
    BY <1>8, <1>9, <1>10, Zenon DEF Plain, Seamless
  <1>12. FirstCall' /\ WhileIdle'
    BY <1>8, <1>10, Zenon DEF FirstCall, WhileIdle
  <1>13. InCall'
    BY <1>8, <1>9, <1>10, Zenon DEF InCall
  <1> QED BY <1>11, <1>12, <1>13, Zenon DEF CallQuiet

\* a command during a call: its end does not count against the call
LEMMA CommandInCall ==
    ASSUME CallTyped, CallQuiet, errors' = errors, calls' = calls, reading' = reading,
           slot.state \in Ongoing, slot'.state \in Ongoing,
           slot'.pending = slot.pending, slot'.misses = slot.misses, slot'.id = slot.id,
           slot'.idle_at = slot.idle_at, NEW c \in Slots, NEW name, name # "CLCC",
           Command(name, c, queue, TRUE), modem'.empty = modem.empty,
           modem' = NoCall <=> modem = NoCall, slot.state # "outgoing_setup"
    PROVE  CallQuiet'
  <1>1. /\ unseen = FALSE /\ Unbroken(queue) /\ ProperQueue(queue) /\ modem.empty = FALSE
        /\ GapFirst(queue) /\ RingFirst(queue) /\ Visible(queue) /\ slot.idle_at = FALSE
        /\ slot.pending = TRUE => slot.id = 0
        /\ calls # 0 /\ (HasRelease(queue) => modem = NoCall) /\ reading \in BOOLEAN
    BY Zenon DEF CallQuiet, Plain, Seamless, FirstCall, CallTyped
  <1>2. /\ unseen' = FALSE /\ RingFirst(queue') /\ Visible(queue') /\ Unbroken(queue')
        /\ GapFirst(queue') /\ (HasRelease(queue') <=> HasRelease(queue))
        /\ Shown(queue') <=> Shown(queue)
        /\ AllFree(queue') <=> AllFree(queue) /\ modem = NoCall
        /\ Covered(queue') <=> Covered(queue) /\ (modem # NoCall => Shown(queue))
        /\ NoClcc(queue') <=> NoClcc(queue)
    BY <1>1, AnsweredQueue, Zenon
  <1>3. Plain' /\ Seamless' /\ FirstCall' /\ WhileIdle'
    BY <1>1, <1>2, Zenon DEF Plain, Seamless, FirstCall, WhileIdle, Ongoing, Setup
  <1>4. InCall /\ (reading = FALSE => NoClcc(queue))
    BY Zenon DEF CallQuiet, InCall
  <1>5. InCall'
    <2>1. CASE modem = NoCall
      BY <1>2, <1>4, <2>1, Zenon DEF InCall
    <2>2. CASE modem # NoCall
      <3>1. slot.pending = TRUE \/ slot.misses = 1 => Shown(queue)
        BY <1>4, <2>2, Zenon DEF InCall
      <3>2. Shown(queue) => reading = TRUE
        BY <1>1, <1>4, <2>2, Zenon DEF Shown, NoClcc, HasRelease
      <3> QED BY <1>2, <1>4, <2>2, <3>1, <3>2, Zenon DEF InCall
    <2> QED BY <2>1, <2>2, Zenon
  <1> QED BY <1>3, <1>5, Zenon DEF CallQuiet

\* answer: the modem takes it while the call rings, or refuses and leaves a fault
LEMMA AnswerQuiet ==
    ASSUME CallTyped, CallQuiet, errors' = errors, NEW x \in Endpoints, AnswerCall(x)
    PROVE  CallQuiet'
  <1> DEFINE c == [slot EXCEPT !.state = "active", !.owner = x, !.started = TRUE]
  <1>1. /\ slot.state \in {"incoming_ringing", "early_media"} /\ calls' = calls
        /\ Issue("ATA", c, queue) /\ reading' = reading
    BY DEF AnswerCall, Method, Answerable
  <1>2. /\ c \in Slots /\ c.state = "active" /\ c.misses = slot.misses /\ c.pending = slot.pending
        /\ c.id = slot.id /\ c.idle_at = slot.idle_at
    BY Zenon DEF CallTyped, Slots, States, Setup
  <1> HIDE DEF c
  <1>3. slot.state \in Ongoing /\ slot.state # "outgoing_setup" /\ c.state \in Ongoing
    BY <1>1, <1>2, Zenon DEF Ongoing, Setup
  <1>4. ProperVoice(modem) /\ ProperQueue(queue)
    BY DEF CallTyped
  <1>5. CASE slot' = c /\ Command("ATA", c, queue, TRUE)
    <2>1. modem.stat = "incoming" /\ modem' = [modem EXCEPT !.stat = "active"]
      BY <1>2, <1>4, <1>5, AnsweredQueue, Zenon DEF Refused, Effect
    <2>2. modem # NoCall /\ modem' # NoCall /\ modem'.empty = modem.empty
      BY <1>4, <2>1 DEF ProperVoice, Voices, NoCall
    <2> QED BY <1>1, <1>2, <1>3, <1>5, <2>2, CommandInCall, Zenon
  <1>6. CASE slot' = Faulted(c) /\ Command("ATA", c, queue, FALSE)
    <2>1. /\ slot'.state = "fault" /\ slot'.idle_at = c.idle_at /\ slot'.pending = c.pending
          /\ slot'.id = c.id
      BY <1>2, <1>6 DEF Faulted, Slots
    <2>2. /\ modem' = modem
          /\ unseen' = TRUE => unseen = TRUE /\ queue' = queue
          /\ HasRelease(queue') <=> HasRelease(queue)
          /\ RingFirst(queue) => RingFirst(queue')
          /\ modem.empty = FALSE /\ Visible(queue) => Visible(queue')
          /\ GapFirst(queue) /\ (unseen = TRUE => queue = <<>>) => GapFirst(queue')
      BY <1>2, <1>4, <1>6, RefusedQueue, Zenon
    <2>3. calls # 0 /\ slot'.state \notin Ongoing \cup {"idle"}
      BY <1>3, <2>1, Zenon DEF CallQuiet, FirstCall, Ongoing, Setup
    <2> QED BY <1>1, <1>2, <2>1, <2>2, <2>3, SetAside, Zenon DEF CallQuiet, Plain, Seamless, FirstCall
  <1> QED BY <1>1, <1>5, <1>6, Zenon DEF Issue

\* send_dtmf: no tone is refused
LEMMA DtmfQuiet ==
    ASSUME CallTyped, CallQuiet, errors' = errors, NEW x \in Endpoints, SendDtmf(x)
    PROVE  CallQuiet'
  <1>1. PICK ok \in BOOLEAN : Command("VTS", slot, queue, ok)
    BY Zenon DEF SendDtmf
  <1>2. slot.state = "active" /\ UNCHANGED <<slot, reading, calls>>
    BY Zenon DEF SendDtmf
  <1>3. slot \in Slots /\ ProperQueue(queue)
    BY Zenon DEF CallTyped
  <1>4. ok = TRUE /\ modem' = modem
    <2>1. ~Refused("VTS") /\ Effect("VTS", modem) = modem
      BY DEF Refused, Effect
    <2> QED BY <1>1, <1>3, <2>1, CommandLines, Zenon
  <1> QED BY <1>1, <1>2, <1>3, <1>4, CommandInCall, Zenon DEF Ongoing, Setup

\* terminate: what comes now ends a call that is given up already
LEMMA TerminateQuiet ==
    ASSUME CallTyped, CallQuiet, errors' = errors, Terminate PROVE CallQuiet'
  <1> DEFINE c == [slot EXCEPT !.state = "terminating"]
  <1>1. Issue("CHUP", c, queue) /\ calls' = calls
    BY DEF Terminate, Method
  <1>2. /\ c \in Slots /\ c.state = "terminating" /\ c.idle_at = slot.idle_at
        /\ c.pending = slot.pending /\ c.id = slot.id
    BY DEF CallTyped, Slots, States, Setup
  <1> HIDE DEF c
  <1>3. ProperQueue(queue) /\ ~Refused("CHUP") /\ Effect("CHUP", modem) = NoCall
    BY DEF CallTyped, Refused, Effect
  <1>4. ~Command("CHUP", c, queue, FALSE)
    BY <1>2, <1>3, RefusedQueue, Zenon
  <1>5. slot' = c /\ Command("CHUP", c, queue, TRUE)
    BY <1>1, <1>4, Zenon DEF Issue
  <1>6. /\ modem' = NoCall /\ unseen' = FALSE
        /\ modem = NoCall /\ OkOnly(queue) => OkOnly(queue')
        /\ RingFirst(queue) => RingFirst(queue')
        /\ modem.empty = FALSE /\ Visible(queue) => Visible(queue')
        /\ GapFirst(queue) /\ (unseen = TRUE => queue = <<>>) => GapFirst(queue')
    BY <1>2, <1>3, <1>5, AnsweredQueue, Zenon
  <1>7. modem'.empty = FALSE /\ slot'.state \notin Ongoing \cup {"idle"}
    BY <1>2, <1>5, <1>6, Zenon DEF NoCall, Ongoing, Setup
  <1> QED BY <1>1, <1>2, <1>5, <1>6, <1>7, SetAside, Zenon DEF CallQuiet, Plain, Seamless, FirstCall

\* enable_method starts with a recovery, disable_method with no call
LEMMA EnableQuiet ==
    ASSUME CallTyped, CallQuiet, errors' = errors, EnableMethod \/ DisableMethod PROVE CallQuiet'
  <1>1. CASE EnableMethod
    <2> DEFINE c == [slot EXCEPT !.state = "recovering", !.pending = TRUE, !.id = 0]
    <2>1. c \in Slots /\ c.state = "recovering" /\ c.idle_at = slot.idle_at /\ c.id = 0
      BY Zenon DEF CallTyped, Slots, States, Setup
    <2>2. calls' = calls /\ \/ slot' = c /\ Command("CLCC", c, queue, TRUE)
                            \/ Command("CLCC", c, queue, FALSE)
      BY <1>1, Zenon DEF EnableMethod
    <2> HIDE DEF c
    <2>3. ProperQueue(queue)
      BY Zenon DEF CallTyped
    <2>4. ~Command("CLCC", c, queue, FALSE)
      BY <2>1, <2>3, PolledQueue, Zenon
    <2>5. /\ modem' = modem /\ unseen' = FALSE
          /\ HasRelease(queue') <=> HasRelease(queue)
          /\ modem = NoCall /\ OkOnly(queue) => OkOnly(queue')
          /\ RingFirst(queue) => RingFirst(queue')
          /\ modem.empty = FALSE /\ Visible(queue) => Visible(queue')
          /\ GapFirst(queue) /\ (unseen = TRUE => queue = <<>>) => GapFirst(queue')
      BY <2>1, <2>2, <2>3, <2>4, PolledQueue, Zenon
    <2>6. slot' = c /\ c.state \notin Ongoing \cup {"idle"}
      BY <2>1, <2>2, <2>4, Zenon DEF Ongoing, Setup
    <2> QED BY <2>1, <2>2, <2>5, <2>6, SetAside, Zenon DEF CallQuiet, Plain, Seamless, FirstCall
  <1>2. CASE DisableMethod
    <2>1. UNCHANGED <<modem, queue, unseen, calls>>
      BY <1>2 DEF DisableMethod, callBounds
    <2>2. /\ slot'.state = "disabled" /\ slot'.idle_at = slot.idle_at /\ slot'.pending = FALSE
      BY <1>2 DEF DisableMethod, CallTyped, Slots
    <2>3. slot'.state \notin Ongoing \cup {"idle"}
      BY <2>2, Zenon DEF Ongoing, Setup
    <2> QED BY <2>1, <2>2, <2>3, SetAside, Zenon DEF CallQuiet, Plain, Seamless, FirstCall
  <1> QED BY <1>1, <1>2, Zenon

\* a poll in a call
LEMMA PollInCall ==
    ASSUME CallTyped, CallQuiet, errors' = errors, calls' = calls, reading = FALSE,
           reading' = (queue' # <<>>), slot.state \in Ongoing, slot.pending = FALSE,
           slot'.state = slot.state, slot'.misses = slot.misses, slot'.pending = TRUE,
           slot'.id = 0, slot'.idle_at = slot.idle_at, NEW c \in Slots,
           Command("CLCC", c, queue, TRUE)
    PROVE  CallQuiet'
  <1>1. /\ unseen = FALSE /\ Unbroken(queue) /\ ProperQueue(queue) /\ modem.empty = FALSE
        /\ GapFirst(queue) /\ RingFirst(queue) /\ Visible(queue) /\ slot.idle_at = FALSE
        /\ calls # 0 /\ (HasRelease(queue) => modem = NoCall)
        /\ modem = NoCall => AllFree(queue) \/ Shown(queue)
        /\ slot.misses = 1 => AllFree(queue)
    BY Zenon DEF CallQuiet, Plain, Seamless, FirstCall, CallTyped, InCall
  <1>2. /\ modem' = modem /\ unseen' = FALSE /\ queue' # <<>>
        /\ Shown(queue') <=> Shown(queue) \/ modem # NoCall
        /\ AllFree(queue') <=> AllFree(queue) /\ modem = NoCall
        /\ Covered(queue) => Covered(queue')
        /\ HasRelease(queue') <=> HasRelease(queue)
        /\ RingFirst(queue') /\ Visible(queue') /\ Unbroken(queue') /\ GapFirst(queue')
    BY <1>1, PolledQueue, Zenon
  <1>3. Plain' /\ Seamless' /\ FirstCall' /\ WhileIdle'
    BY <1>1, <1>2, Zenon DEF Plain, Seamless, FirstCall, WhileIdle, Ongoing, Setup
  <1>4. slot.misses = 1 => Covered(queue)
    BY <1>1, Zenon DEF AllFree, Covered
  <1>5. InCall'
    BY <1>1, <1>2, <1>4, Zenon DEF InCall
  <1> QED BY <1>3, <1>5, Zenon DEF CallQuiet

\* the timer in setup
LEMMA PollSetupQuiet ==
    ASSUME CallTyped, CallQuiet, errors' = errors, PollSetup PROVE CallQuiet'
  <1> DEFINE c == [slot EXCEPT !.pending = TRUE, !.id = 0]
  <1>1. /\ Issue("CLCC", c, queue) /\ calls' = calls /\ reading = FALSE
        /\ reading' = (queue' # <<>>) /\ slot.state \in Setup /\ slot.pending = FALSE
    BY Zenon DEF PollSetup, Timer, CallTyped, Slots
  <1>2. /\ c \in Slots /\ c.state = slot.state /\ c.misses = slot.misses /\ c.pending = TRUE
        /\ c.id = 0 /\ c.idle_at = slot.idle_at
    BY Zenon DEF CallTyped, Slots
  <1> HIDE DEF c
  <1>3. ProperQueue(queue) /\ slot.state \in Ongoing
    BY <1>1, Zenon DEF CallTyped, Ongoing
  <1>4. ~Command("CLCC", c, queue, FALSE)
    BY <1>2, <1>3, PolledQueue, Zenon
  <1>5. slot' = c /\ Command("CLCC", c, queue, TRUE)
    BY <1>1, <1>4, Zenon DEF Issue
  <1> QED BY <1>1, <1>2, <1>3, <1>5, PollInCall, Zenon

\* the timer in a call, and while it is ending
LEMMA PollActiveQuiet ==
    ASSUME CallTyped, CallQuiet, errors' = errors, PollActive PROVE CallQuiet'
  <1> DEFINE c == [slot EXCEPT !.pending = TRUE, !.id = 0]
  <1>1. /\ \/ slot' = c /\ Command("CLCC", c, queue, TRUE)
           \/ Command("CLCC", c, queue, FALSE)
        /\ calls' = calls /\ reading = FALSE
        /\ reading' = (queue' # <<>>) /\ slot.state \in Polled /\ slot.pending = FALSE
    BY Zenon DEF PollActive, Timer, CallTyped, Slots
  <1>2. /\ c \in Slots /\ c.state = slot.state /\ c.misses = slot.misses /\ c.pending = TRUE
        /\ c.id = 0 /\ c.idle_at = slot.idle_at
    BY Zenon DEF CallTyped, Slots
  <1> HIDE DEF c
  <1>3. ProperQueue(queue)
    BY Zenon DEF CallTyped
  <1>4. ~Command("CLCC", c, queue, FALSE)
    BY <1>2, <1>3, PolledQueue, Zenon
  <1>5. slot' = c /\ Command("CLCC", c, queue, TRUE)
    BY <1>1, <1>4, Zenon
  <1>6. CASE slot.state = "active"
    BY <1>1, <1>2, <1>5, <1>6, PollInCall, Zenon DEF Ongoing
  <1>7. CASE slot.state = "terminating"
    <2>1. /\ modem' = modem /\ unseen' = FALSE
          /\ HasRelease(queue') <=> HasRelease(queue)
          /\ modem = NoCall /\ OkOnly(queue) => OkOnly(queue')
          /\ RingFirst(queue) => RingFirst(queue')
          /\ modem.empty = FALSE /\ Visible(queue) => Visible(queue')
          /\ GapFirst(queue) /\ (unseen = TRUE => queue = <<>>) => GapFirst(queue')
      BY <1>2, <1>3, <1>5, PolledQueue, Zenon
    <2>2. slot'.state \notin Ongoing \cup {"idle"}
      BY <1>2, <1>5, <1>7, Zenon DEF Ongoing, Setup
    <2> QED BY <1>1, <1>2, <1>5, <2>1, <2>2, SetAside, Zenon DEF CallQuiet, Plain, Seamless, FirstCall
  <1> QED BY <1>1, <1>6, <1>7, Zenon DEF Polled

\* the timer while idle: the poll is answered after the ring it may cross
LEMMA PollIdleQuiet ==
    ASSUME CallTyped, CallQuiet, errors' = errors, PollIdle PROVE CallQuiet'
  <1> DEFINE c == [slot EXCEPT !.pending = TRUE, !.id = 0, !.idle_poll = TRUE, !.idle_at = FALSE]
  <1>1. ~ModemFails
    BY DEF ModemFails, CallTyped
  <1>2. /\ \/ slot' = c /\ Command("CLCC", c, queue, TRUE)
           \/ Command("CLCC", c, queue, FALSE)
        /\ calls' = calls /\ reading = FALSE
        /\ reading' = (queue' # <<>>) /\ slot.state = "idle"
    BY <1>1, Zenon DEF PollIdle, Timer, CallTyped
  <1>3. /\ c \in Slots /\ c.state = slot.state /\ c.misses = slot.misses
        /\ c.id = 0 /\ c.idle_at = FALSE
    BY Zenon DEF CallTyped, Slots
  <1> HIDE DEF c
  <1>4. /\ unseen = FALSE /\ Unbroken(queue) /\ ProperQueue(queue) /\ modem.empty = FALSE
        /\ GapFirst(queue) /\ RingFirst(queue) /\ Visible(queue) /\ slot.misses = 0
        /\ HasRelease(queue) => modem = NoCall
        /\ calls = 0 => modem = NoCall /\ OkOnly(queue)
        /\ Rings(queue) /\ modem = NoCall => Shown(queue)
    BY <1>2, Zenon DEF CallQuiet, Plain, Seamless, FirstCall, CallTyped, WhileIdle
  <1>5. ~Command("CLCC", c, queue, FALSE)
    BY <1>3, <1>4, PolledQueue, Zenon
  <1>6. slot' = c /\ Command("CLCC", c, queue, TRUE)
    BY <1>2, <1>5, Zenon
  <1>7. /\ modem' = modem /\ unseen' = FALSE /\ queue' # <<>>
        /\ Shown(queue') <=> Shown(queue) \/ modem # NoCall
        /\ HasRelease(queue') <=> HasRelease(queue)
        /\ modem = NoCall /\ OkOnly(queue) => OkOnly(queue')
        /\ Awaited(queue) => Awaited(queue')
        /\ RingFirst(queue') /\ Visible(queue') /\ Unbroken(queue') /\ GapFirst(queue')
    BY <1>3, <1>4, <1>6, PolledQueue, Zenon
  <1>8. Shown(queue') \/ Awaited(queue')
    BY <1>4, <1>7, NoRingAwaited, Zenon
  <1>9. Plain' /\ Seamless'
    BY <1>2, <1>3, <1>4, <1>6, <1>7, Zenon DEF Plain, Seamless
  <1>10. FirstCall' /\ WhileIdle' /\ InCall'
    BY <1>2, <1>3, <1>4, <1>6, <1>7, <1>8, Zenon DEF FirstCall, WhileIdle, InCall, Ongoing, Setup
  <1> QED BY <1>9, <1>10, Zenon DEF CallQuiet

\* only the mark of the gap changes
LEMMA WithGapFacts ==
    ASSUME NEW p \in Seq(Events), NEW w, w = WithGap(p), Unbroken(p)
    PROVE  /\ GapFirst(w) /\ (p = <<>> => w = <<>>)
           /\ Visible(p) => Visible(w)
           /\ OkOnly(p) => OkOnly(w)
           /\ RingFirst(p) => RingFirst(w)
           /\ HasRelease(w) => HasRelease(p)
  <1>1. CASE p = <<>>
    BY <1>1, EmptyFacts, Zenon DEF WithGap
  <1>2. CASE p # <<>>
    <2> DEFINE h == p[1]
               g == [h EXCEPT !.gap = TRUE]
    <2>1. w = [p EXCEPT ![1] = g] /\ Len(p) \in Nat /\ 1 \in 1 .. Len(p) /\ h \in Events
      BY <1>2 DEF WithGap
    <2>2. g.kind = h.kind /\ g.free = h.free /\ g.empty = h.empty /\ g \in Events
      BY <2>1, Zenon DEF Events
    <2> HIDE DEF g
    <2>3. Len(w) = Len(p) /\ \A k \in 1 .. Len(p) : w[k] = IF k = 1 THEN g ELSE p[k]
      BY <2>1, <2>2, ExceptSeq
    <2>4. \A k \in 1 .. Len(p) : /\ w[k].kind = p[k].kind /\ w[k].free = p[k].free
                                 /\ w[k].empty = p[k].empty /\ (k # 1 => w[k].gap = p[k].gap)
      BY <2>2, <2>3, Zenon
    <2>5. GapFirst(w)
      BY <2>3, <2>4, Zenon DEF GapFirst, Unbroken
    <2>6. (Visible(p) => Visible(w)) /\ (OkOnly(p) => OkOnly(w)) /\ (HasRelease(w) => HasRelease(p))
      BY <2>3, <2>4, Zenon DEF Visible, OkOnly, HasRelease
    <2>7. ASSUME RingFirst(p) PROVE RingFirst(w)
      <3> SUFFICES ASSUME NEW k \in 1 .. Len(p), w[k].kind = "ring", NEW j \in 1 .. k - 1
                   PROVE  w[j].kind = "ok"
        BY <2>3, Zenon DEF RingFirst
      <3>1. j \in 1 .. Len(p) /\ p[j].kind = "ok"
        BY <2>1, <2>4, <2>7 DEF RingFirst
      <3> QED BY <2>4, <3>1, Zenon
    <2> QED BY <1>2, <2>5, <2>6, <2>7, Zenon
  <1> QED BY <1>1, <1>2, Zenon

\* the queue without its first event
LEMMA RestQuiet ==
    ASSUME CallTyped, CallQuiet, queue # <<>>, NEW e, e = Head(queue), NEW rest, rest = Tail(queue)
    PROVE  /\ Proper(e) /\ e.empty = FALSE /\ ProperQueue(rest) /\ rest \in Seq(Events)
           /\ unseen = FALSE /\ Unbroken(rest) /\ GapFirst(rest) /\ RingFirst(rest)
           /\ Visible(rest) /\ (HasRelease(rest) => modem = NoCall)
           /\ e.kind # "ok" => ~Rings(rest) /\ calls # 0
           /\ calls = 0 => modem = NoCall /\ OkOnly(rest)
  <1>1. queue \in Seq(Events) /\ unseen \in BOOLEAN /\ ProperQueue(queue)
    BY Zenon DEF CallTyped, ProperQueue
  <1>2. /\ GapFirst(queue) /\ RingFirst(queue) /\ Visible(queue) /\ unseen # TRUE
        /\ HasRelease(queue) => modem = NoCall
        /\ calls = 0 => modem = NoCall /\ OkOnly(queue)
    BY Zenon DEF CallQuiet, Plain, Seamless, FirstCall
  <1>3. Proper(e) /\ ProperQueue(rest)
    BY <1>1, RestProper, Zenon
  <1>4. /\ rest \in Seq(Events) /\ RingFirst(rest) /\ Visible(rest) /\ e.empty = FALSE
        /\ Unbroken(rest) /\ (HasRelease(rest) => HasRelease(queue))
        /\ e.kind # "ok" => ~Rings(rest)
        /\ OkOnly(queue) => OkOnly(rest) /\ e.kind = "ok"
    BY <1>1, <1>2, TailFacts, Zenon
  <1>5. GapFirst(rest)
    BY <1>4, Zenon DEF GapFirst, Unbroken
  <1> QED BY <1>1, <1>2, <1>3, <1>4, <1>5, Zenon

\* an event for a disabled daemon is dropped, and the next one shows a gap
LEMMA DisabledEventQuiet ==
    ASSUME CallTyped, CallQuiet, queue # <<>>, slot.state = "disabled", slot' = slot,
           modem' = modem, calls' = calls, queue' = WithGap(Tail(queue)),
           unseen' = (unseen \/ Tail(queue) = <<>>)
    PROVE  CallQuiet'
  <1> DEFINE rest == Tail(queue)
  <1>1. /\ unseen = FALSE /\ Unbroken(rest) /\ RingFirst(rest) /\ rest \in Seq(Events)
        /\ Visible(rest) /\ (HasRelease(rest) => modem = NoCall)
        /\ calls = 0 => modem = NoCall /\ OkOnly(rest)
    BY RestQuiet, Zenon
  <1>2. queue' = WithGap(rest) /\ (unseen' = TRUE => rest = <<>>)
    BY <1>1, Zenon
  <1> HIDE DEF rest
  <1>3. /\ GapFirst(queue') /\ (rest = <<>> => queue' = <<>>) /\ Visible(queue')
        /\ RingFirst(queue') /\ (HasRelease(queue') => HasRelease(rest))
        /\ OkOnly(rest) => OkOnly(queue')
    BY <1>1, <1>2, WithGapFacts, Zenon
  <1>4. /\ slot'.state \notin Ongoing \cup {"idle"} /\ slot'.idle_at = FALSE
        /\ slot'.pending = TRUE => slot'.id = 0
        /\ modem'.empty = FALSE
    BY Zenon DEF CallQuiet, Plain, Ongoing, Setup
  <1> QED BY <1>1, <1>2, <1>3, <1>4, SetAside, Zenon

\* an event after a gap: recovery, the event itself, and a new snapshot
LEMMA GapEventQuiet ==
    ASSUME CallTyped, CallQuiet, queue # <<>>, errors' = errors, calls' = calls,
           reading' = (queue' # <<>>), NEW e, e = Head(queue), NEW rest, rest = Tail(queue),
           NEW d, d = Handled(OnGap(slot), e), Issue("CLCC", d, rest)
    PROVE  CallQuiet'
  <1> DEFINE c == OnGap(slot)
  <1>1. /\ Proper(e) /\ e.empty = FALSE /\ ProperQueue(rest)
        /\ unseen = FALSE /\ Unbroken(rest) /\ GapFirst(rest) /\ RingFirst(rest)
        /\ Visible(rest) /\ (HasRelease(rest) => modem = NoCall)
        /\ e.kind # "ok" => ~Rings(rest) /\ calls # 0
        /\ calls = 0 => modem = NoCall /\ OkOnly(rest)
    BY RestQuiet, Zenon
  <1>2. /\ c \in Slots /\ c.state = "recovering" /\ c.pending = TRUE /\ c.id = 0
        /\ c.idle_at = slot.idle_at
    BY Zenon DEF OnGap, CallTyped, Slots, States, Setup
  <1>3. slot.idle_at = FALSE /\ modem.empty = FALSE
    BY Zenon DEF CallQuiet, Plain
  <1>4. d = Handled(c, e)
    BY Zenon
  <1> HIDE DEF c
  <1>a. (c.pending = TRUE => c.id = 0) /\ (c.state = "idle" => c.misses = 0)
    BY <1>2, Zenon
  <1>b. HandledAs(c, e, d)
    BY <1>1, <1>2, <1>4, <1>a, HandledFacts, Zenon
  <1>5. d \in Slots
    BY <1>b, Zenon DEF HandledAs
  <1>6. ~Command("CLCC", d, rest, FALSE)
    BY <1>1, <1>5, PolledQueue, Zenon
  <1>7. slot' = d /\ Command("CLCC", d, rest, TRUE)
    BY <1>6, Zenon DEF Issue
  <1>8. /\ modem' = modem /\ unseen' = FALSE /\ queue' # <<>>
        /\ HasRelease(queue') => modem' = NoCall
        /\ calls = 0 => OkOnly(queue')
        /\ Awaited(rest) => Awaited(queue')
        /\ RingFirst(queue') /\ Visible(queue') /\ Unbroken(queue') /\ GapFirst(queue')
    BY <1>1, <1>3, <1>5, <1>7, PolledQueue, Zenon
  <1>9. /\ d.idle_at = FALSE /\ (d.pending = TRUE => d.id = 0) /\ (d.state = "idle" => d.misses = 0)
    BY <1>2, <1>3, <1>b, Zenon DEF HandledAs
  <1>10. Plain' /\ Seamless'
    BY <1>3, <1>7, <1>8, <1>9, Zenon DEF Plain, Seamless
  <1>11. CASE e.kind = "ok"
    <2>1. d.pending = FALSE /\ d.state = "idle"
      BY <1>2, <1>b, <1>11, Zenon DEF HandledAs, Ongoing, Setup
    <2> QED BY <1>1, <1>7, <1>8, <1>10, <2>1, Zenon
            DEF CallQuiet, FirstCall, WhileIdle, InCall, Ongoing, Setup
  <1>12. CASE e.kind \in {"error", "ring"}
    <2>1. d.state = "recovering"
      BY <1>2, <1>b, <1>12, Zenon DEF HandledAs
    <2>2. d.state \notin Ongoing \cup {"idle"}
      BY <2>1, Zenon DEF Ongoing, Setup
    <2> QED BY <1>1, <1>7, <1>8, <1>10, <2>2, Zenon DEF CallQuiet, FirstCall, WhileIdle, InCall
  <1>13. CASE e.kind = "clcc"
    <2>1. d.state \in Ongoing /\ d.pending = FALSE /\ d.misses = 0
      BY <1>2, <1>b, <1>13, Zenon DEF HandledAs
    <2>2. calls # 0 /\ d.state # "idle" /\ reading' = TRUE
      BY <1>1, <1>8, <1>13, <2>1, Zenon DEF Ongoing, Setup
    <2>3. FirstCall' /\ WhileIdle'
      BY <1>7, <1>8, <2>2, Zenon DEF FirstCall, WhileIdle
    <2>4. InCall'
      BY <1>7, <2>1, <2>2 DEF InCall
    <2> QED BY <1>10, <2>3, <2>4, Zenon DEF CallQuiet
  <1>14. CASE e.kind = "release"
    <2>1. d.state = "idle"
      BY <1>2, <1>b, <1>14, Zenon DEF HandledAs
    <2>2. Awaited(queue')
      BY <1>1, <1>8, <1>14, NoRingAwaited, Zenon
    <2> QED BY <1>1, <1>7, <1>8, <1>10, <1>14, <2>1, <2>2, Zenon
            DEF CallQuiet, FirstCall, WhileIdle, InCall, Ongoing, Setup
  <1> QED BY <1>1, <1>11, <1>12, <1>13, <1>14, Zenon DEF Proper, Events

\* the slot in which an event without a gap finds the call
LEMMA SyncedSlot ==
    ASSUME CallTyped, CallQuiet, NEW c, c = [slot EXCEPT !.synced = TRUE]
    PROVE  /\ c \in Slots /\ c.state = slot.state /\ c.pending = slot.pending /\ c.id = slot.id
           /\ c.misses = slot.misses /\ c.idle_at = FALSE
           /\ c.pending = TRUE => c.id = 0
           /\ c.state = "idle" => c.misses = 0
  <1>1. /\ c \in Slots /\ c.state = slot.state /\ c.pending = slot.pending /\ c.id = slot.id
        /\ c.misses = slot.misses /\ c.idle_at = slot.idle_at
    BY Zenon DEF CallTyped, Slots
  <1> QED BY <1>1 DEF CallQuiet, Plain

\* a row for a call that is ending: AT+CHUP is sent again
LEMMA HangupEventQuiet ==
    ASSUME CallTyped, CallQuiet, queue # <<>>, errors' = errors, calls' = calls, NEW e,
           e = Head(queue), NEW rest, rest = Tail(queue), NEW c, c = [slot EXCEPT !.synced = TRUE],
           NEW d, d = Handled(c, e), HangupAgain(c, e), Issue("CHUP", d, rest)
    PROVE  CallQuiet'
  <1>1. /\ Proper(e) /\ e.empty = FALSE /\ ProperQueue(rest)
        /\ unseen = FALSE /\ GapFirst(rest) /\ RingFirst(rest) /\ Visible(rest)
        /\ e.kind # "ok" => calls # 0
    BY RestQuiet, Zenon
  <1>2. /\ c \in Slots /\ c.idle_at = FALSE /\ (c.pending = TRUE => c.id = 0)
        /\ c.state = "idle" => c.misses = 0
    BY SyncedSlot, Zenon
  <1>3. e.kind = "clcc" /\ c.state = "terminating"
    BY DEF HangupAgain
  <1>4. d \in Slots /\ d.state = "terminating" /\ d.pending = FALSE /\ d.idle_at = FALSE
    <2>1. HandledAs(c, e, d)
      BY <1>1, <1>2, HandledFacts, Zenon
    <2> QED BY <1>2, <1>3, <2>1, Zenon DEF HandledAs
  <1>5. ~Refused("CHUP") /\ Effect("CHUP", modem) = NoCall /\ modem.empty = FALSE
    BY Zenon DEF Refused, Effect, CallQuiet, Plain
  <1>6. ~Command("CHUP", d, rest, FALSE)
    BY <1>1, <1>4, <1>5, RefusedQueue, Zenon
  <1>7. slot' = d /\ Command("CHUP", d, rest, TRUE)
    BY <1>6, Zenon DEF Issue
  <1>8. /\ modem' = NoCall /\ unseen' = FALSE /\ RingFirst(queue') /\ Visible(queue')
        /\ GapFirst(queue')
    BY <1>1, <1>4, <1>5, <1>7, AnsweredQueue, Zenon
  <1>9. modem'.empty = FALSE /\ d.state \notin Ongoing \cup {"idle"} /\ calls # 0
    BY <1>1, <1>3, <1>4, <1>8, Zenon DEF NoCall, Ongoing, Setup
  <1> QED BY <1>4, <1>7, <1>8, <1>9, SetAside, Zenon

\* an event without a gap in which nothing is sent
LEMMA PlainEventQuiet ==
    ASSUME CallTyped, CallQuiet, queue # <<>>, calls' = calls, reading' = (queue' # <<>>),
           NEW e, e = Head(queue), NEW rest, rest = Tail(queue),
           NEW c, c = [slot EXCEPT !.synced = TRUE], NEW d, d = Handled(c, e),
           slot' = d, queue' = rest, UNCHANGED <<modem, unseen>>
    PROVE  CallQuiet'
  <1>1. /\ Proper(e) /\ e.empty = FALSE
        /\ unseen = FALSE /\ Unbroken(rest) /\ GapFirst(rest) /\ RingFirst(rest)
        /\ Visible(rest) /\ (HasRelease(rest) => modem = NoCall)
        /\ e.kind # "ok" => ~Rings(rest) /\ calls # 0
        /\ calls = 0 => modem = NoCall /\ OkOnly(rest)
    BY RestQuiet, Zenon
  <1>2. /\ c \in Slots /\ c.state = slot.state /\ c.pending = slot.pending
        /\ c.misses = slot.misses /\ c.idle_at = FALSE
        /\ c.pending = TRUE => c.id = 0
        /\ c.state = "idle" => c.misses = 0
    BY SyncedSlot, Zenon
  <1>3. HandledAs(c, e, d)
    BY <1>1, <1>2, HandledFacts, Zenon
  <1>4. /\ e.kind \in {"ring", "release", "ok", "error", "clcc"}
        /\ c.pending \in BOOLEAN /\ c.misses \in {0, 1}
    BY <1>1, <1>2, Zenon DEF Proper, Events, Slots
  <1>5. Plain'
    <2>1. d.idle_at = FALSE /\ (d.pending = TRUE => d.id = 0) /\ (d.state = "idle" => d.misses = 0)
      BY <1>2, <1>3, Zenon DEF HandledAs
    <2> QED BY <1>1, <2>1, Zenon DEF CallQuiet, Plain
  <1>6. Seamless'
    BY <1>1, Zenon DEF Seamless
  <1>7. FirstCall'
    <2>1. ASSUME calls = 0 PROVE d.state \notin Ongoing /\ (d.state = "idle" => d.pending = FALSE)
      <3>1. e.kind = "ok" /\ c.state \notin Ongoing
        BY <1>1, <1>2, <2>1, Zenon DEF CallQuiet, FirstCall
      <3>2. CASE c.pending = FALSE
        BY <1>3, <3>1, <3>2, Zenon DEF HandledAs
      <3>3. CASE c.pending = TRUE
        BY <1>3, <3>1, <3>3, Zenon DEF HandledAs, Ongoing, Setup
      <3> QED BY <1>4, <3>2, <3>3, Zenon
    <2> QED BY <1>1, <2>1, Zenon DEF FirstCall
  <1>8. WhileIdle'
    <2>1. ASSUME d.state = "idle", d.pending = TRUE PROVE Awaited(rest)
      <3>1. e.kind = "release"
        BY <1>3, <1>4, <2>1, Zenon DEF HandledAs
      <3> QED BY <1>1, <3>1, NoRingAwaited
    <2>2. Rings(rest) => rest # <<>>
      BY EmptyFacts, Zenon
    <2> QED BY <2>1, <2>2, Zenon DEF WhileIdle
  <1>9. InCall'
    <2> SUFFICES ASSUME d.state \in Ongoing PROVE InCall'
      BY Zenon DEF InCall
    <2>0. queue \in Seq(Events) /\ InCall /\ WhileIdle
      BY DEF CallTyped, ProperQueue, CallQuiet
    <2>1. /\ Shown(rest) => reading' = TRUE
          /\ reading' = FALSE => NoClcc(rest) /\ AllFree(rest)
      BY EmptyFacts, Zenon
    <2>2. /\ Shown(queue) <=> e.kind \in {"clcc", "release"} \/ Shown(rest)
          /\ AllFree(queue) => AllFree(rest)
          /\ Covered(queue) /\ e.kind \notin {"clcc", "release"} => Covered(rest)
          /\ Awaited(queue) => e.kind # "ring"
      <3>1. Awaited(queue) /\ e.kind # "ok" => e.kind # "ring"
        BY <2>0, TailFacts, Zenon
      <3> QED BY <2>0, <3>1, TailFacts, Zenon
    <2>3. CASE e.kind = "clcc"
      <3>1. d.pending = FALSE /\ d.misses = 0
        BY <1>3, <2>3, Zenon DEF HandledAs
      <3> QED BY <2>1, <3>1 DEF InCall
    <2>4. CASE e.kind = "ring" /\ c.state = "idle"
      <3>1. d.pending = c.pending /\ d.misses = 0
        BY <1>2, <1>3, <2>4, Zenon DEF HandledAs
      <3>2. c.pending = TRUE => Shown(rest)
        BY <1>2, <2>0, <2>2, <2>4, Zenon DEF WhileIdle
      <3> QED BY <2>1, <3>1, <3>2 DEF InCall
    <2>5. CASE e.kind = "ring" /\ c.state # "idle"
      <3>1. d.pending = slot.pending /\ d.misses = slot.misses /\ d.state = slot.state
        BY <1>2, <1>3, <2>5, Zenon DEF HandledAs
      <3> QED BY <2>0, <2>1, <2>2, <2>5, <3>1, Zenon DEF InCall
    <2>6. CASE e.kind = "error"
      <3>1. d.pending = FALSE /\ d.misses = slot.misses /\ d.state = slot.state
        BY <1>2, <1>3, <2>6, Zenon DEF HandledAs
      <3>2. slot.misses = 1 => AllFree(rest) \/ Shown(rest)
        BY <2>0, <2>2, <2>6, <3>1, Zenon DEF InCall
      <3>3. slot.misses = 1 /\ ~Shown(rest) =>
               AllFree(rest) /\ (modem = NoCall \/ slot.state = "outgoing_setup")
        BY <2>0, <2>2, <2>6, <3>1, Zenon DEF InCall
      <3> QED BY <2>1, <3>1, <3>2, <3>3, Zenon DEF InCall
    <2>7. CASE e.kind = "ok" /\ c.pending = FALSE
      <3>1. d.pending = FALSE /\ d.misses = slot.misses /\ d.state = slot.state
        BY <1>2, <1>3, <2>7, Zenon DEF HandledAs
      <3>2. slot.misses = 1 => AllFree(rest) \/ Shown(rest)
        BY <1>2, <2>0, <2>2, <2>7, <3>1, Zenon DEF InCall
      <3>3. slot.misses = 1 /\ ~Shown(rest) =>
               AllFree(rest) /\ (modem = NoCall \/ slot.state = "outgoing_setup")
        BY <2>0, <2>2, <2>7, <3>1, Zenon DEF InCall
      <3> QED BY <2>1, <3>1, <3>2, <3>3 DEF InCall
    <2>8. CASE e.kind = "ok" /\ c.pending = TRUE
      <3>1. d.pending = FALSE /\ slot.misses = 0 /\ d.state = slot.state /\ slot.pending = TRUE
        BY <1>2, <1>3, <1>4, <2>8, Zenon DEF HandledAs, Ongoing, Setup
      <3>2. AllFree(rest) \/ Shown(rest)
        BY <2>0, <2>2, <2>8, <3>1, Zenon DEF InCall
      <3>3. ~Shown(rest) => AllFree(rest) /\ (modem = NoCall \/ slot.state = "outgoing_setup")
        BY <2>0, <2>2, <2>8, <3>1, Zenon DEF InCall
      <3> QED BY <2>1, <3>1, <3>2, <3>3, Zenon DEF InCall
    <2>9. CASE e.kind = "release"
      BY <1>3, <2>9, Zenon DEF HandledAs, Ongoing, Setup
    <2> QED BY <1>4, <2>3, <2>4, <2>5, <2>6, <2>7, <2>8, <2>9, Zenon
  <1> QED BY <1>5, <1>6, <1>7, <1>8, <1>9, Zenon DEF CallQuiet

\* at_line_event, by its cases
LEMMA LineEventQuiet ==
    ASSUME CallTyped, CallQuiet, errors' = errors, LineEvent PROVE CallQuiet'
  <1> DEFINE e == Head(queue)
             rest == Tail(queue)
             s == [slot EXCEPT !.synced = TRUE]
             c == IF HasGap(e) THEN OnGap(slot) ELSE s
             d == Handled(c, e)
  <1>1. queue # <<>> /\ calls' = calls /\ reading' = (queue' # <<>>)
    BY Zenon DEF LineEvent
  <1>2. CASE slot.state = "disabled"
    <2>1. queue' = WithGap(rest) /\ unseen' = (unseen \/ rest = <<>>) /\ UNCHANGED <<slot, modem>>
      BY <1>2 DEF LineEvent
    <2> QED BY <1>1, <1>2, <2>1, DisabledEventQuiet, Zenon
  <1>3. CASE slot.state # "disabled" /\ HasGap(e)
    <2>1. Issue("CLCC", Handled(OnGap(slot), e), rest)
      BY <1>3 DEF LineEvent
    <2> QED BY <1>1, <2>1, GapEventQuiet, Zenon
  <1>4. CASE slot.state # "disabled" /\ ~HasGap(e) /\ HangupAgain(s, e)
    <2>1. Issue("CHUP", Handled(s, e), rest)
      BY <1>4 DEF LineEvent
    <2> QED BY <1>1, <1>4, <2>1, HangupEventQuiet, Zenon
  <1>5. CASE slot.state # "disabled" /\ ~HasGap(e) /\ ~HangupAgain(s, e)
    <2>1. slot' = Handled(s, e) /\ queue' = rest /\ UNCHANGED <<modem, unseen>>
      BY <1>5 DEF LineEvent
    <2> QED BY <1>1, <2>1, PlainEventQuiet, Zenon
  <1> QED BY <1>2, <1>3, <1>4, <1>5

\* a disabled daemon has no call to lose
LEMMA CallInitQuiet == CallInit => CallQuiet
  <1> SUFFICES ASSUME CallInit PROVE CallQuiet
    OBVIOUS
  <1>1. /\ slot.state = "disabled" /\ slot.idle_at = FALSE /\ slot.pending = FALSE
        /\ modem = NoCall /\ modem.empty = FALSE /\ queue = <<>> /\ unseen = FALSE
    BY Zenon DEF CallInit, NoCall
  <1>2. slot.state \notin Ongoing \cup {"idle"}
    BY <1>1, Zenon DEF Ongoing, Setup
  <1> QED BY <1>1, <1>2, EmptyFacts, Zenon DEF CallQuiet, Plain, Seamless, FirstCall, WhileIdle, InCall

\* one step that ends in quiet
LEMMA QuietStep ==
    ASSUME CallTyped, CallTyped', CallNext, Quiet', Quiet => CallQuiet
    PROVE  CallQuiet'
  <1>1. /\ Quiet /\ errors' = errors /\ withheld' = withheld /\ gaps' = gaps /\ lost' = lost
        /\ foreigns' = foreigns /\ CallQuiet /\ calls' <= 1
    BY StaysQuiet, Zenon DEF Quiet
  <1>2. ~Unseen /\ ~Lose /\ ~ForeignLine
    BY <1>1 DEF Unseen, Lose, ForeignLine, CallTyped
  <1>3. ~IdleAtFailed
    BY <1>1 DEF IdleAtFailed, CallQuiet, Plain
  <1>4. CASE Remote
    BY <1>1, <1>4, IncomingQuiet, AcceptsQuiet, EndsQuiet, Zenon DEF Remote
  <1>5. CASE User
    BY <1>1, <1>5, TerminateQuiet, EnableQuiet, OriginateQuiet, AnswerQuiet, DtmfQuiet, Zenon DEF User
  <1>6. CASE LineEvent
    BY <1>1, <1>6, LineEventQuiet, Zenon
  <1>7. CASE CallTimer
    BY <1>1, <1>7, PollSetupQuiet, PollActiveQuiet, PollIdleQuiet, Zenon DEF CallTimer
  <1> QED BY <1>2, <1>3, <1>4, <1>5, <1>6, <1>7, Zenon DEF CallNext

\* an event that ends a call
LEMMA ReleaseIsFree ==
    ASSUME CallTyped, CallQuiet, LineEvent, slot.state \in Ongoing,
           slot'.state = "idle"
    PROVE  Head(queue).free
  <1> DEFINE e == Head(queue)
             rest == Tail(queue)
             c == [slot EXCEPT !.synced = TRUE]
             d == Handled(c, e)
  <1>1. queue # <<>> /\ queue \in Seq(Events) /\ Unbroken(queue) /\ InCall
    BY Zenon DEF LineEvent, CallTyped, ProperQueue, CallQuiet, Seamless
  <1>2. Proper(e) /\ e.empty = FALSE /\ e.gap = FALSE
    BY <1>1, RestQuiet, TailFacts, Zenon
  <1>3. /\ c \in Slots /\ c.state = slot.state /\ c.pending = slot.pending
        /\ c.misses = slot.misses /\ (c.pending = TRUE => c.id = 0)
        /\ c.state = "idle" => c.misses = 0
    BY SyncedSlot, Zenon
  <1>4. slot.state # "disabled" /\ slot.state # "terminating" /\ slot.state # "idle"
    BY Zenon DEF Ongoing, Setup
  <1>5. ~HasGap(e) /\ ~HangupAgain(c, e)
    BY <1>2, <1>3, <1>4 DEF HasGap, HangupAgain
  <1>6. slot' = d
    BY <1>4, <1>5 DEF LineEvent
  <1>7. HandledAs(c, e, d)
    <2> HIDE DEF c, e
    <2> QED BY <1>2, <1>3, HandledFacts, Zenon
  <1> HIDE DEF c, d, e
  <1>8. /\ e.kind \in {"ring", "release", "ok", "error", "clcc"}
        /\ c.pending \in BOOLEAN /\ c.misses \in {0, 1}
    BY <1>2, <1>3, Zenon DEF Proper, Events, Slots
  <1>9. \/ e.kind = "release"
        \/ e.kind = "ok" /\ c.pending = TRUE /\ c.misses = 1
    BY <1>3, <1>4, <1>6, <1>7, <1>8, Zenon DEF HandledAs, Ongoing, Setup
  <1>10. CASE e.kind = "release"
    BY <1>2, <1>10, Zenon DEF Proper, e
  <1>11. CASE e.kind = "ok" /\ c.pending = TRUE /\ c.misses = 1
    <2>1. Covered(queue)
      BY <1>1, <1>3, <1>11, Zenon DEF InCall
    <2>2. e.free = TRUE
      BY <1>1, <1>11, <2>1, TailFacts, Zenon DEF e
    <2> QED BY <2>2, Zenon DEF e
  <1> QED BY <1>9, <1>10, <1>11, Zenon

\* voipd: while the first call is up and nothing goes wrong with the stream of lines, no
\* end of a command (of a tone, of the answer, of a poll that was sent before the call)
\* makes the daemon release a call that the modem still has: two snapshots without the
\* call are needed, and the second was sent when the modem had none.
THEOREM NoCallGivenUp == CallSpec => NoFalseRelease
  <1> DEFINE I == CallTyped /\ (Quiet => CallQuiet)
             A == /\ calls <= 1 /\ Troubles = 0 /\ LineEvent
                  /\ slot.state \in Setup \cup {"active"} /\ slot'.state = "idle"
                  => Head(queue).free
  <1>1. CallInit => I
    BY CallInitTyped, CallInitQuiet
  <1>2. I /\ [CallNext]_callVars => I'
    <2> SUFFICES ASSUME I, [CallNext]_callVars PROVE I'
      BY Zenon
    <2>1. CallTyped'
      BY CallNextTyped, Zenon
    <2>2. CASE CallNext
      BY <2>1, <2>2, QuietStep, Zenon
    <2>3. CASE UNCHANGED callVars
      BY <2>1, <2>3, Zenon DEF callVars, callBounds, Quiet, Troubles, CallQuiet, Plain, Seamless, FirstCall,
                        WhileIdle, InCall
    <2> QED BY <2>2, <2>3, Zenon
  <1>3. I /\ [CallNext]_callVars => [A]_callVars
    <2> SUFFICES ASSUME I, calls <= 1, Troubles = 0, LineEvent,
                        slot.state \in Setup \cup {"active"}, slot'.state = "idle"
                 PROVE  Head(queue).free
      BY Zenon
    <2> QED BY ReleaseIsFree, Zenon DEF Quiet, Ongoing
  <1> QED BY <1>1, <1>2, <1>3, PTL DEF CallSpec, NoFalseRelease
===============================================================================
