-------------------------------- MODULE Settings --------------------------------
(***************************************************************************)
(* qmodem-settings against the AT daemon: a watcher that applies the       *)
(* modem's settings whenever the daemon or the port restarted, a second    *)
(* run started by hand or by a reload, and another client of the port.     *)
(* A run leases the port while it sends its commands, so that no command   *)
(* of another client comes between them.  Calls of the daemon are single   *)
(* steps; between two of them the daemon or the modem may restart, the     *)
(* lease may expire, and the run may get a signal.                         *)
(***************************************************************************)
EXTENDS Control

CONSTANTS
    MaxRuns,        \* bound: runs of apply or apply-all besides the watcher's
    MaxTroubles     \* bound: restarts of the daemon, resets of the modem, calls that
                    \* fail or time out, and signals to a run, together

ASSUME BoundAssumption == {MaxRuns, MaxTroubles} \subseteq Nat

Port == "port"
Owner == "qmodem.settings"
Runs == {"watch", "cli"}
None == "none"
NoToken == 0
Tokens == 1 .. 4
NoState == <<>>
Groups == {"storage", "hook", "setup"}
SmsUrc == Urc(Port, "qmodem.sms", "sms-new")

VARIABLES
    up, gen, leases, urcs,      \* the daemon: running, its epoch, its control state
    open, opens,    \* the port: open, times opened by this daemon (its restart_epoch)
    config,         \* groups of commands the modem has taken since it was reset
    pc, token, degraded, foreign,       \* per run; foreign: another's command came between
    snap, previous, \* of the watcher: state it acts on, state it last applied
    lock, file,     \* LOCK_DIR's owner, the modem's state file
    orphaned,       \* the call that was to grant or release the last lease got no answer
    runs, restarts, replugs, faults, terms

daemon == <<up, gen, leases, urcs>>
port == <<open, opens>>
watcher == <<snap, previous>>
bounds == <<runs, restarts, replugs, faults, terms>>
vars == <<daemon, port, config, pc, token, degraded, foreign, watcher, lock, file, orphaned, bounds>>

Init ==
    /\ up = TRUE /\ gen = 1 /\ leases = {} /\ urcs = {}
    /\ open = FALSE /\ opens = 0 /\ config = {}
    /\ pc = [r \in Runs |-> "idle"] /\ token = [r \in Runs |-> NoToken]
    /\ degraded = [r \in Runs |-> FALSE] /\ foreign = [r \in Runs |-> FALSE]
    /\ snap = NoState /\ previous = NoState /\ lock = None /\ file = None /\ orphaned = FALSE
    /\ runs = 0 /\ restarts = 0 /\ replugs = 0 /\ faults = 0 /\ terms = 0

Goto(r, label) == pc' = [pc EXCEPT ![r] = label]
Calm == restarts + replugs + faults + terms < MaxTroubles
Fault == Calm /\ faults' = faults + 1

\* open_at_port, called by open and by sendat when the port is closed
OpenPort == open' = TRUE /\ opens' = (IF open THEN opens ELSE opens + 1)

-------------------------------------------------------------------------------
(* Starting and ending a run                                               *)

\* watch_daemon: the list of ports with their epochs, "ready:[]" if the daemon has none
State == <<IF opens = 0 THEN {} ELSE {[daemon |-> gen, opens |-> opens]}>>

\* the list is not the one that was last applied
Poll ==
    /\ pc["watch"] = "idle" /\ up /\ State # previous
    /\ snap' = State
    /\ Goto("watch", "lock")
    /\ UNCHANGED <<daemon, port, config, token, degraded, foreign, previous, lock, file, orphaned,
                   bounds>>

Start ==
    /\ pc["cli"] = "idle" /\ runs < MaxRuns
    /\ runs' = runs + 1
    /\ Goto("cli", "lock")
    /\ UNCHANGED <<daemon, port, config, token, degraded, foreign, watcher, lock, file, orphaned,
                   restarts, replugs, faults, terms>>

\* run_locked: mkdir; the run begins with state "pending"
Lock(r) ==
    /\ pc[r] = "lock" /\ lock = None
    /\ lock' = r /\ file' = "pending"
    /\ token' = [token EXCEPT ![r] = NoToken]
    /\ degraded' = [degraded EXCEPT ![r] = FALSE]
    /\ Goto(r, "open")
    /\ UNCHANGED <<daemon, port, config, foreign, watcher, orphaned, bounds>>

Locked(r) ==
    /\ pc[r] = "lock" /\ lock # None
    /\ Goto(r, "idle")
    /\ UNCHANGED <<daemon, port, config, token, degraded, foreign, watcher, lock, file, orphaned,
                   bounds>>

\* mutant: the state is remembered even if the run failed
Mut_Applied(r) == TRUE

\* apply_one returned 0
Applied(r) == ~degraded[r]

\* the state file is written, the lock removed, the watcher remembers what it applied
Write(r) ==
    /\ pc[r] = "write"
    /\ file' = IF degraded[r] THEN "ready_degraded" ELSE "ready"
    /\ lock' = None
    /\ previous' = IF r = "watch" /\ Applied(r) THEN snap ELSE previous
    /\ Goto(r, "idle")
    /\ UNCHANGED <<daemon, port, config, token, degraded, foreign, snap, orphaned, bounds>>

-------------------------------------------------------------------------------
(* apply_one                                                               *)

Degrade(r, label) ==
    /\ degraded' = [degraded EXCEPT ![r] = TRUE]
    /\ Goto(r, label)

\* open the port; without it, and without a lease, the run ends
Open(r) ==
    /\ pc[r] = "open"
    /\ \/ up /\ OpenPort /\ Goto(r, "acquire") /\ UNCHANGED <<degraded, faults>>
       \/ ~up /\ Degrade(r, "write") /\ UNCHANGED <<port, faults>>
       \/ up /\ Fault /\ Degrade(r, "write") /\ UNCHANGED port
    /\ UNCHANGED <<daemon, config, token, foreign, watcher, lock, file, orphaned, runs, restarts,
                   replugs, terms>>

\* daemon_epoch and next_lease_id make a token that nobody else still knows
NewToken == CHOOSE t \in Tokens :
                /\ \A l \in leases : l.token # t
                /\ \A r \in Runs : token[r] # t

\* lease_acquire: granted; refused; granted to a caller that has given up
AcquireLease(r) ==
    /\ pc[r] = "acquire"
    /\ \/ /\ up /\ Leasable(leases, Port)
          /\ leases' = Acquire(leases, Port, Owner, NewToken)
          /\ \/ /\ token' = [token EXCEPT ![r] = NewToken]
                /\ foreign' = [foreign EXCEPT ![r] = FALSE]
                /\ Goto(r, "storage")
                /\ orphaned' = FALSE
                /\ UNCHANGED <<degraded, faults>>
             \/ /\ Fault /\ orphaned' = TRUE /\ Degrade(r, "write")
                /\ UNCHANGED <<token, foreign>>
       \/ /\ up => ~Leasable(leases, Port)
          /\ Degrade(r, "write")
          /\ UNCHANGED <<leases, token, foreign, orphaned, faults>>
    /\ UNCHANGED <<up, gen, urcs, port, config, watcher, lock, file, runs, restarts, replugs,
                   terms>>

\* where a run goes on after the commands of a group
After == [storage |-> "renew", hook |-> "setup", setup |-> "register"]

\* send_at: success
Send(r, g) ==
    /\ pc[r] = g /\ up /\ Authorize(leases, Port, Owner)
    /\ config' = config \cup {g}
    /\ leases' = Expire(leases)
    /\ OpenPort
    /\ Goto(r, After[g])
    /\ UNCHANGED <<up, gen, urcs, token, degraded, foreign, watcher, lock, file, orphaned,
                   bounds>>

\* mutant: a modem that cannot be set up is left without releasing the port
Mut_AfterFailure == [storage |-> "renew", hook |-> "setup", setup |-> "write"]

\* a failed group does not stop the run, but without the setup nothing is registered
AfterFailure == [storage |-> "renew", hook |-> "setup", setup |-> "release"]

SendFails(r, g) ==
    /\ pc[r] = g
    /\ \/ (up => ~Authorize(leases, Port, Owner)) /\ UNCHANGED faults
       \/ Fault
    /\ Degrade(r, AfterFailure[g])
    /\ UNCHANGED <<daemon, port, config, token, foreign, watcher, lock, file, orphaned, runs,
                   restarts, replugs, terms>>

HasLease(r) == up /\ Held(leases, Port, Owner, token[r]) # {}

\* renew_lease, after the delay of the boot hook; the call may fail although it was
\* carried out
RenewLease(r) ==
    /\ pc[r] = "renew"
    /\ \/ /\ leases' = IF up THEN Renew(leases, Port, Owner, token[r]) ELSE leases
          /\ IF HasLease(r) THEN Goto(r, "hook") /\ UNCHANGED degraded ELSE Degrade(r, "hook")
          /\ UNCHANGED faults
       \/ /\ up /\ Fault /\ Degrade(r, "hook")
          /\ leases' \in {leases, Renew(leases, Port, Owner, token[r])}
    /\ UNCHANGED <<up, gen, urcs, port, config, token, foreign, watcher, lock, file, orphaned,
                   runs, restarts, replugs, terms>>

\* register_urc, for the owner qmodem.sms
RegisterUrc(r) ==
    /\ pc[r] = "register"
    /\ \/ /\ up /\ urcs' = Register(urcs, Port, "qmodem.sms", "sms-new")
          /\ Goto(r, "release") /\ UNCHANGED <<degraded, faults>>
       \/ ~up /\ Degrade(r, "release") /\ UNCHANGED <<urcs, faults>>
       \/ Fault /\ Degrade(r, "release") /\ UNCHANGED urcs
    /\ UNCHANGED <<up, gen, leases, port, config, token, foreign, watcher, lock, file,
                   orphaned, runs, restarts, replugs, terms>>

\* release_lease, answered by the daemon: the token is dropped
GiveBack(r) ==
    /\ up \/ token[r] = NoToken
    /\ leases' = IF token[r] = NoToken THEN leases ELSE Release(leases, Port, Owner, token[r])
    /\ token' = [token EXCEPT ![r] = NoToken]

\* ... and without an answer, although the call may have been carried out
NoAnswer(r) ==
    /\ token[r] # NoToken
    /\ leases' \in {leases, Release(leases, Port, Owner, token[r])}
    /\ UNCHANGED token

\* mutant: the result of lease_release is not looked at
Mut_Released(r) == TRUE

\* release_lease succeeds: the lease is still there, or a signal has cleared the token
Released(r) == token[r] = NoToken \/ HasLease(r)

\* a run whose call fails ends with the lease, which is there until it expires
ReleaseLease(r) ==
    /\ pc[r] = "release"
    /\ \/ /\ GiveBack(r)
          /\ IF Released(r) THEN Goto(r, "write") /\ UNCHANGED degraded ELSE Degrade(r, "write")
          /\ UNCHANGED <<orphaned, faults>>
       \/ /\ NoAnswer(r) /\ Degrade(r, "write")
          /\ orphaned' = TRUE
          /\ IF up THEN Fault ELSE UNCHANGED faults
    /\ UNCHANGED <<up, gen, urcs, port, config, foreign, watcher, lock, file, runs, restarts,
                   replugs, terms>>

ApplyOne(r) ==
    \/ Open(r) \/ AcquireLease(r) \/ RenewLease(r) \/ RegisterUrc(r) \/ ReleaseLease(r)
    \/ \E g \in Groups : Send(r, g) \/ SendFails(r, g)

\* the trap of INT and TERM: it gives up lease and lock, and the run goes on
Trap(r) ==
    /\ pc[r] \notin {"idle", "lock"} /\ Calm
    /\ terms' = terms + 1
    /\ GiveBack(r) \/ NoAnswer(r)
    /\ lock' = None
    /\ UNCHANGED <<up, gen, urcs, port, config, pc, degraded, foreign, watcher, file,
                   orphaned, runs, restarts, replugs, faults>>

-------------------------------------------------------------------------------
(* The daemon, the modem and another client                                *)

\* ubus_sendat_method for a caller without the lease
Sending == {"storage", "renew", "hook", "setup", "register", "release"}
Foreign ==
    /\ up /\ Authorize(leases, Port, None)
    /\ OpenPort
    /\ foreign' = [r \in Runs |-> foreign[r] \/ pc[r] \in Sending]
    /\ UNCHANGED <<daemon, config, pc, token, degraded, watcher, lock, file, orphaned, bounds>>

\* external: the daemon ends ...
Stop ==
    /\ up /\ Calm
    /\ restarts' = restarts + 1
    /\ up' = FALSE /\ leases' = {} /\ urcs' = {} /\ open' = FALSE /\ opens' = 0
    /\ UNCHANGED <<gen, config, pc, token, degraded, foreign, watcher, lock, file,
                   orphaned, runs, replugs, faults, terms>>

\* ... and procd starts it again: a new daemon_epoch
Respawn ==
    /\ ~up
    /\ up' = TRUE /\ gen' = gen + 1
    /\ UNCHANGED <<leases, urcs, port, config, pc, token, degraded, foreign, watcher, lock,
                   file, orphaned, bounds>>

\* external: the modem resets, its port goes away; the port monitor opens it again
Replug ==
    /\ Calm
    /\ replugs' = replugs + 1
    /\ config' = {} /\ open' = FALSE
    /\ UNCHANGED <<daemon, opens, pc, token, degraded, foreign, watcher, lock, file, orphaned,
                   runs, restarts, faults, terms>>

Reopen ==
    /\ up /\ ~open /\ opens > 0
    /\ OpenPort
    /\ UNCHANGED <<daemon, config, pc, token, degraded, foreign, watcher, lock, file, orphaned,
                   bounds>>

Tick ==
    /\ \E l \in leases : l.left > 0
    /\ leases' = Elapse(leases)
    /\ UNCHANGED <<up, gen, urcs, port, config, pc, token, degraded, foreign, watcher,
                   lock, file, orphaned, bounds>>

-------------------------------------------------------------------------------
Run(r) == Lock(r) \/ Locked(r) \/ Write(r) \/ ApplyOne(r)
Next == \/ Poll \/ Start \/ Foreign \/ Stop \/ Respawn \/ Replug \/ Reopen \/ Tick
        \/ \E r \in Runs : Run(r) \/ Trap(r)

Spec == Init /\ [][Next]_vars

\* the watcher polls every 5 s, a run goes on, procd respawns the daemon, the
\* monitor reopens the port and time passes
Fairness ==
    /\ WF_vars(Poll) /\ \A r \in Runs : WF_vars(Run(r))
    /\ WF_vars(Respawn) /\ WF_vars(Reopen) /\ WF_vars(Tick)
FairSpec == Spec /\ Fairness
-------------------------------------------------------------------------------
(* Properties                                                              *)

TypeOK ==
    /\ up \in BOOLEAN /\ open \in BOOLEAN /\ config \subseteq Groups
    /\ \A l \in leases : l.port = Port /\ l.owner = Owner /\ l.left \in 0 .. Ttl
    /\ urcs \subseteq {SmsUrc}
    /\ lock \in Runs \cup {None} /\ file \in {None, "pending", "ready", "ready_degraded"}
    /\ \A r \in Runs : degraded[r] \in BOOLEAN /\ foreign[r] \in BOOLEAN

\* A run that reports "ready" had the port for itself from the grant of the lease
\* to its release, whatever expired or restarted on the way (test_control.c:
\* "exclusive lease authorization").  Signals are left out: the trap of a run gives
\* up the lease, and the run goes on to report "ready".
ReadyMeansExclusive ==
    terms = 0 => \A r \in Runs : pc[r] = "write" /\ ~degraded[r] => ~foreign[r]

\* No run leaves the port leased when it ends, so that other clients are not told
\* "settings_pending", unless the call that granted its lease or was to release it got
\* no answer: then the lease is there until its ttl ends.
NoLeaseLeft ==
    ~orphaned /\ (\A r \in Runs : pc[r] = "idle") => Expire(leases) = {}

\* Once restarts, resets and faults have ended, the modem gets all its settings and
\* the daemon the URC registration, for good; except that the watcher cannot tell a
\* daemon without ports from the one it last saw without ports: after a restart within
\* a poll of the run that opened the first port, nothing is applied until somebody
\* opens it.
Converges ==
    \/ <>[](config = Groups /\ urcs = {SmsUrc})
    \/ <>[](opens = 0 /\ State = previous)
===============================================================================
