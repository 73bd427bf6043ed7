--------------------------------- MODULE Control ---------------------------------
(***************************************************************************)
(* The lease and URC registry of ubus-at-daemon (control.c), as operators  *)
(* on a set of leases and a set of registrations.  All of them run in the  *)
(* ubus thread, so a call is one step.  A lease keeps the time it has left *)
(* instead of the time it ends; one with none left is not live.            *)
(***************************************************************************)
EXTENDS Integers, FiniteSets

CONSTANT Ttl        \* the ttl of a lease, in ticks of the clock

ASSUME TtlAssumption == Ttl \in Nat \ {0}

\* at_lease_t and at_urc_registration_t
Lease(port, owner, token) == [port |-> port, owner |-> owner, token |-> token, left |-> Ttl]
Urc(port, owner, id) == [port |-> port, owner |-> owner, id |-> id]

\* expire_leases
Expire(leases) == {l \in leases : l.left > 0}

\* the clock
Elapse(leases) == {[l EXCEPT !.left = IF @ = 0 THEN 0 ELSE @ - 1] : l \in leases}

\* at_lease_acquire: -2 when the port is leased, else a lease with a token that
\* no other lease of this or an earlier daemon has
Leasable(leases, port) == \A l \in Expire(leases) : l.port # port
Acquire(leases, port, owner, token) == Expire(leases) \cup {Lease(port, owner, token)}

\* the lease that a caller of at_lease_renew or at_lease_release means
Held(leases, port, owner, token) ==
    {l \in Expire(leases) : l.port = port /\ l.owner = owner /\ l.token = token}

Renew(leases, port, owner, token) ==
    (Expire(leases) \ Held(leases, port, owner, token))
        \cup {Lease(l.port, l.owner, l.token) : l \in Held(leases, port, owner, token)}

Release(leases, port, owner, token) ==
    Expire(leases) \ Held(leases, port, owner, token)

\* at_lease_authorize: a port that is not leased is anybody's
Authorize(leases, port, owner) ==
    \A l \in Expire(leases) : l.port = port => l.owner = owner

\* at_urc_register: one registration per owner and id, the last port wins
Register(urcs, port, owner, id) ==
    {u \in urcs : u.owner # owner \/ u.id # id} \cup {Urc(port, owner, id)}
===============================================================================
