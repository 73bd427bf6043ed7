------------------------------- MODULE SmsImport -------------------------------
(***************************************************************************)
(* How qmodem-smsd moves received SMS from the modem into its database     *)
(* (sync_modem in main.c, the transactions of sms_db.c).  The daemon is    *)
(* one thread; what interleaves with a synchronisation is the modem        *)
(* storing new messages, time passing, and a crash or an error that ends   *)
(* it between two transactions.                                            *)
(*                                                                         *)
(* A PDU is one stored part; the database keeps its text as the PDU        *)
(* itself.  Time is kept as the two facts the code derives from it: a      *)
(* group is older than multipart_wait, or unseen for the late window.      *)
(***************************************************************************)
EXTENDS Integers, FiniteSets, FiniteSetsExt

CONSTANTS
    Modems,         \* UCI sections of modems in database mode
    Pdus,           \* the parts that arrive, each once
    Message,        \* Message[p] = [modem, reference, total, name]: what p is part of
    Part,           \* Part[p]: the part number that its header gives
    Indices,        \* storage locations of a modem
    Free,           \* an empty location
    AutoDelete,     \* sms_auto_delete_from_sim
    Retention,      \* received_retention
    MaxArrivals,    \* bound: PDUs that the network delivers
    MaxAborts       \* bound: synchronisations that crash or fail

ASSUME MessageAssumption ==
    /\ \A p \in Pdus : /\ Message[p].modem \in Modems
                       /\ Message[p].total \in Nat \ {0}
                       /\ Part[p] \in Nat
                       /\ Message[p].total = 1 => Part[p] = 1
    /\ Free \notin Pdus
ASSUME ConfigAssumption == AutoDelete \in BOOLEAN /\ Retention \in Nat \ {0}
ASSUME AbortAssumption == MaxAborts \in Nat /\ MaxArrivals \in Nat

VARIABLES
    sim,            \* sim[m][i]: what modem m stores at location i
    arrived,        \* PDUs the network has delivered
    \* the database
    sources,        \* source_messages: [modem, index, pdu, seen]
    groups,         \* multipart_groups: [id, key, expired, old]
    segments,       \* segments: [group, index, pdu]
    messages,       \* received: [group, copy, modem, content, complete, revision]
    \* the daemon
    pc, modem,      \* where sync_modem is, and for which modem
    listing,        \* entries of the JSON list still to be imported
    entry,          \* the entry just imported
    aborts,
    \* history
    imported,       \* PDUs some transaction committed
    deleted,        \* PDUs of messages the user deleted
    retired         \* PDUs of messages removed by the retention limit

simVars == <<sim, arrived>>
dbVars == <<sources, groups, segments, messages>>
syncVars == <<pc, modem, listing, entry, aborts>>
history == <<imported, deleted, retired>>
vars == <<simVars, dbVars, syncVars, history>>

NoEntry == [index |-> 0, pdu |-> Free]

\* the decoder takes the number from the header as it is
Malformed(p) == Part[p] \notin 1..Message[p].total

Init ==
    /\ sim = [m \in Modems |-> [i \in Indices |-> Free]]
    /\ arrived = {}
    /\ sources = {} /\ groups = {} /\ segments = {} /\ messages = {}
    /\ pc = "idle" /\ modem \in Modems /\ listing = {} /\ entry = NoEntry
    /\ aborts = 0
    /\ imported = {} /\ deleted = {} /\ retired = {}

-------------------------------------------------------------------------------
(* Tables                                                                  *)

\* what find_group compares: modem, sender, reference and number of parts
GroupKey(p) == [modem |-> Message[p].modem, reference |-> Message[p].reference,
                total |-> Message[p].total]

MessageOf(g) == {m \in messages : m.group = g.id}
Unfinished(g) == \A m \in MessageOf(g) : ~m.complete

\* rowid of the next multipart_groups row
NextId == IF groups = {} THEN 1 ELSE 1 + Max({g.id : g \in groups})

\* find_group: groups a part may join (the query prefers the last seen one)
Joinable(p) == {g \in groups : g.key = GroupKey(p) /\ ~g.old /\ Unfinished(g)}

\* group_content
Content(segs, id) == {s.pdu : s \in {t \in segs : t.group = id}}

\* the row publish_group inserts for the parts c of group g
Row(g, c) ==
    [group |-> g.id, copy |-> 0, modem |-> g.key.modem, content |-> c,
     complete |-> Cardinality(c) >= g.key.total, revision |-> 1]

Replaced(gs) == UNION {MessageOf(g) : g \in gs}

\* publish_group for every group of gs, on the segments segs: a new row, a new
\* revision of the row, or nothing if the row says the same already
PublishGroups(gs, segs) ==
    LET New(g) == Row(g, Content(segs, g.id))
        Revised(m, g) == IF m.content = New(g).content /\ m.complete = New(g).complete
                         THEN m ELSE [New(g) EXCEPT !.revision = m.revision + 1]
        Published(g) == IF MessageOf(g) = {} THEN {New(g)}
                        ELSE {Revised(m, g) : m \in MessageOf(g)}
    IN  (messages \ Replaced(gs)) \cup UNION {Published(g) : g \in gs}

-------------------------------------------------------------------------------
(* The modem and the clock                                                 *)

\* external: the modem stores a part it received
Arrive ==
    /\ Cardinality(arrived) < MaxArrivals
    /\ \E p \in Pdus \ arrived, i \in Indices :
          LET m == Message[p].modem
          IN  /\ sim[m][i] = Free
              /\ sim' = [sim EXCEPT ![m][i] = p]
              /\ arrived' = arrived \cup {p}
    /\ UNCHANGED <<dbVars, syncVars, history>>

\* now - multipart_wait passes first_seen
PassMultipartWait ==
    /\ \E g \in groups : /\ ~g.expired
                         /\ groups' = (groups \ {g}) \cup {[g EXCEPT !.expired = TRUE]}
    /\ UNCHANGED <<simVars, sources, segments, messages, syncVars, history>>

\* now - late_fragment_window passes last_seen.  The windows (300 s and 3600 s)
\* lie further apart than a synchronisation takes.
PassLateWindow ==
    /\ pc = "idle"
    /\ \E g \in groups : /\ g.expired /\ ~g.old
                         /\ groups' = (groups \ {g}) \cup {[g EXCEPT !.old = TRUE]}
    /\ UNCHANGED <<simVars, sources, segments, messages, syncVars, history>>

-------------------------------------------------------------------------------
(* sync_modem                                                              *)

\* mutant: the first location is left out of the list
Mut_BeginSync ==
    /\ pc = "idle"
    /\ \E m \in Modems :
          /\ modem' = m
          /\ listing' = {[index |-> i, pdu |-> sim[m][i]] :
                            i \in {j \in Indices \ {1} : sim[m][j] # Free}}
          /\ \E older \in BOOLEAN :
                sources' = {[s EXCEPT !.seen = @ /\ ~(older /\ s.modem = m)] :
                               s \in sources}
    /\ pc' = "importing"
    /\ UNCHANGED <<simVars, groups, segments, messages, entry, aborts, history>>

\* tom_modem lists what the modem stores; rows imported before started_at are
\* unseen in this scan unless the clock still shows the second of the last one
BeginSync ==
    /\ pc = "idle"
    /\ \E m \in Modems :
          /\ modem' = m
          /\ listing' = {[index |-> i, pdu |-> sim[m][i]] :
                            i \in {j \in Indices : sim[m][j] # Free}}
          /\ \E older \in BOOLEAN :
                sources' = {[s EXCEPT !.seen = @ /\ ~(older /\ s.modem = m)] :
                               s \in sources}
    /\ pc' = "importing"
    /\ UNCHANGED <<simVars, groups, segments, messages, entry, aborts, history>>

\* where an entry continues: deletion from the modem, or the next entry
AfterImport(e) ==
    /\ entry' = e
    /\ listing' = listing \ {e}
    /\ pc' = IF AutoDelete THEN "deleting" ELSE "importing"
    /\ UNCHANGED <<simVars, modem, aborts, deleted, retired>>

SourcesOf(e) == {s \in sources : s.modem = modem /\ s.index = e.index /\ s.pdu = e.pdu}
NewSource(e) == [modem |-> modem, index |-> e.index, pdu |-> e.pdu, seen |-> TRUE]

\* sms_db_import_segment on an entry that is known: only imported_at changes
ImportDuplicate(e) ==
    /\ pc = "importing" /\ e \in listing /\ SourcesOf(e) # {}
    /\ sources' = (sources \ SourcesOf(e)) \cup {NewSource(e)}
    /\ AfterImport(e)
    /\ UNCHANGED <<groups, segments, messages, imported>>

\* ... on a message of one part: insert_single_message
ImportSingle(e) ==
    /\ pc = "importing" /\ e \in listing /\ SourcesOf(e) = {}
    /\ Message[e.pdu].total = 1
    /\ sources' = sources \cup {NewSource(e)}
    /\ messages' = messages \cup
          {[group |-> 0, copy |-> Cardinality({m \in messages : m.content = {e.pdu}}),
            modem |-> modem, content |-> {e.pdu}, complete |-> TRUE, revision |-> 1]}
    /\ imported' = imported \cup {e.pdu}
    /\ AfterImport(e)
    /\ UNCHANGED <<groups, segments>>

\* mutant: a late part does not update the message shown before it came
Mut_PublishIfComplete(g, segs) ==
    IF MessageOf(g) = {} /\ Cardinality(Content(segs, g.id)) >= g.key.total
    THEN PublishGroups({g}, segs) ELSE messages

\* a group is published by the part that completes it
PublishIfComplete(g, segs) ==
    IF Cardinality(Content(segs, g.id)) >= g.key.total THEN PublishGroups({g}, segs)
                                                        ELSE messages

\* ... on a part: it joins a group or opens one, whose last_seen becomes now;
\* INSERT OR IGNORE drops it if the group has that part number already
ImportPart(e) ==
    /\ pc = "importing" /\ e \in listing /\ SourcesOf(e) = {}
    /\ Message[e.pdu].total > 1 /\ ~Malformed(e.pdu)
    /\ \E g \in IF Joinable(e.pdu) # {} THEN Joinable(e.pdu)
                ELSE {[id |-> NextId, key |-> GroupKey(e.pdu), expired |-> FALSE,
                       old |-> FALSE]} :
          LET taken == \E s \in segments : s.group = g.id /\ Part[s.pdu] = Part[e.pdu]
              segs == IF taken THEN segments
                      ELSE segments \cup {[group |-> g.id, index |-> e.index,
                                           pdu |-> e.pdu]}
          IN  /\ segments' = segs
              /\ groups' = groups \cup {g}
              /\ messages' = PublishIfComplete(g, segs)
    /\ sources' = sources \cup {NewSource(e)}
    /\ imported' = imported \cup {e.pdu}
    /\ AfterImport(e)

\* the rest of the synchronisation does not happen
GiveUp ==
    /\ pc' = "idle" /\ listing' = {} /\ entry' = NoEntry
    /\ UNCHANGED <<simVars, dbVars, modem, history>>

\* ... on a part whose number its message cannot have: the transaction is rolled
\* back, and sync_modem goes no further
RejectPart(e) ==
    /\ pc = "importing" /\ e \in listing /\ SourcesOf(e) = {}
    /\ Malformed(e.pdu)
    /\ GiveUp
    /\ UNCHANGED aborts

Import == \E e \in listing :
              ImportDuplicate(e) \/ ImportSingle(e) \/ ImportPart(e) \/ RejectPart(e)

\* tom_modem deletes the location (or fails to); the row is only marked
DeleteFromModem ==
    /\ pc = "deleting"
    /\ \E ok \in BOOLEAN :
          sim' = IF ok THEN [sim EXCEPT ![modem][entry.index] = Free] ELSE sim
    /\ pc' = "importing"
    /\ UNCHANGED <<arrived, dbVars, modem, listing, entry, aborts, history>>

\* mutant: incomplete groups are never shown
Mut_PublishExpired ==
    /\ pc = "importing" /\ listing = {}
    /\ pc' = "finishing"
    /\ UNCHANGED <<simVars, dbVars, modem, listing, entry, aborts, history>>

\* sms_db_publish_expired: what stayed incomplete for multipart_wait is shown
PublishExpired ==
    /\ pc = "importing" /\ listing = {}
    /\ messages' = PublishGroups({g \in groups : /\ g.key.modem = modem
                                                 /\ g.expired /\ Unfinished(g)},
                                 segments)
    /\ pc' = "finishing"
    /\ UNCHANGED <<simVars, sources, groups, segments, modem, listing, entry, aborts,
                   history>>

\* a segment has this row as its source_id
Referred(s, segs) == \E t \in segs : t.index = s.index /\ t.pdu = s.pdu

\* mutant: all rows without segments are forgotten, seen or not
Mut_FinishScan ==
    /\ pc = "finishing"
    /\ sources' = {s \in sources : Referred(s, segments)}
    /\ pc' = "pruning"
    /\ UNCHANGED <<simVars, groups, segments, messages, modem, listing, entry, aborts,
                   history>>

\* sms_db_finish_scan: rows the modem no longer lists are forgotten, except
\* those a segment refers to
FinishScan ==
    /\ pc = "finishing"
    /\ sources' = {s \in sources : s.modem # modem \/ s.seen \/ Referred(s, segments)}
    /\ pc' = "pruning"
    /\ UNCHANGED <<simVars, groups, segments, messages, modem, listing, entry, aborts,
                   history>>

\* prune_direction: the newest Retention messages stay, whichever those are
Kept(ms) == {k \in SUBSET ms : Cardinality(k) = Min({Cardinality(ms), Retention})}

\* rows of messages that were deleted from the modem: those that prune may find marked
\* for more than seven days
Gone(segs) == {s \in sources : /\ AutoDelete /\ (s.modem # modem \/ ~s.seen)
                               /\ sim[s.modem][s.index] # s.pdu /\ ~Referred(s, segs)}

\* sms_db_prune: retention for this modem, then the groups of every modem that
\* have no message and were not seen for the late window, and old source rows
Prune ==
    /\ pc = "pruning"
    /\ LET mine == {m \in messages : m.modem = modem}
       IN \E k \in Kept(mine) :
             LET left == (messages \ mine) \cup k
                 orphans == {g \in groups : g.old /\ \A m \in left : m.group # g.id}
             IN  /\ messages' = left
                 /\ groups' = groups \ orphans
                 /\ segments' = {s \in segments : \A g \in orphans : g.id # s.group}
                 /\ retired' = retired \cup UNION {m.content : m \in mine \ k}
    /\ \E rows \in SUBSET Gone(segments') : sources' = sources \ rows
    /\ pc' = "idle"
    /\ UNCHANGED <<simVars, modem, listing, entry, aborts, imported, deleted>>

\* the process dies, or tom_modem or a transaction fails: whatever was committed
\* stays
Abort ==
    /\ pc # "idle" /\ aborts < MaxAborts
    /\ aborts' = aborts + 1
    /\ GiveUp

-------------------------------------------------------------------------------
(* ubus methods                                                            *)

\* mutant: the segments survive the message
Mut_Remove(ms) ==
    /\ messages' = messages \ ms
    /\ UNCHANGED <<groups, segments>>
    /\ deleted' = deleted \cup UNION {m.content : m \in ms}

\* messages go with their groups and segments; the source rows stay
Remove(ms) ==
    /\ messages' = messages \ ms
    /\ groups' = {g \in groups : \A m \in ms : m.group # g.id}
    /\ segments' = {s \in segments : \A m \in ms : m.group # s.group}
    /\ deleted' = deleted \cup (UNION {m.content : m \in ms})
                          \cup (UNION {Content(segments, m.group) : m \in ms})

\* delete_method -> sms_db_delete_message
DeleteMessage ==
    /\ pc = "idle"
    /\ \E m \in messages : Remove({m})
    /\ UNCHANGED <<simVars, sources, syncVars, imported, retired>>

\* modem_delete_method -> sms_db_delete_modem_messages: the unpublished groups too
DeleteModemMessages ==
    /\ pc = "idle"
    /\ \E m \in Modems :
          LET mine == {g \in groups : g.key.modem = m}
          IN  /\ messages' = {x \in messages : x.modem # m}
              /\ groups' = groups \ mine
              /\ segments' = {s \in segments : \A g \in mine : g.id # s.group}
              /\ deleted' = deleted \cup (UNION {x.content : x \in messages \ messages'})
                                    \cup {s.pdu : s \in segments \ segments'}
    /\ UNCHANGED <<simVars, sources, syncVars, imported, retired>>

-------------------------------------------------------------------------------
Sync == BeginSync \/ Import \/ DeleteFromModem \/ PublishExpired \/ FinishScan \/ Prune
Next == \/ Arrive \/ PassMultipartWait \/ PassLateWindow \/ Sync \/ Abort
        \/ DeleteMessage \/ DeleteModemMessages

Spec == Init /\ [][Next]_vars

\* scheduler_cb polls every modem, and waiting lets the window pass
Fairness == WF_vars(Sync) /\ WF_vars(PassMultipartWait)
FairSpec == Spec /\ Fairness
-------------------------------------------------------------------------------
(* Properties                                                              *)

SourceRow == [modem : Modems, index : Indices, pdu : Pdus, seen : BOOLEAN]
TypeOK ==
    /\ sim \in [Modems -> [Indices -> Pdus \cup {Free}]] /\ arrived \subseteq Pdus
    /\ sources \subseteq SourceRow
    /\ \A g \in groups : /\ g.id \in Nat /\ g.expired \in BOOLEAN /\ g.old \in BOOLEAN
                         /\ \A h \in groups : g.id = h.id => g = h
    /\ \A s \in segments : s.pdu \in Pdus /\ \E g \in groups : g.id = s.group
    /\ \A m \in messages : m.content \subseteq Pdus /\ m.revision \in Nat
    /\ pc \in {"idle", "importing", "deleting", "finishing", "pruning"}
    /\ modem \in Modems /\ entry.pdu \in Pdus \cup {Free}
    /\ aborts \in 0..MaxAborts

Stored(p) == \/ \E s \in segments : s.pdu = p
             \/ \E m \in messages : p \in m.content

\* "durable ... multipart import": what a transaction committed, and the modem was
\* then told to delete, stays in the database until the user deletes it or the
\* retention limit removes its message, whatever crashes in between.
ImportDurable == \A p \in imported : Stored(p) \/ p \in deleted \/ p \in retired

\* "idempotent ... import": a part that is listed again after a crash, a failed
\* deletion or a message's completion never shows up in a second message.
NoDuplicateText ==
    \A m, n \in messages : m.content \cap n.content # {} => m = n

\* What the user deleted does not come back while the modem still stores it.
DeletedStaysDeleted ==
    \A p \in deleted : ~\E m \in messages : p \in m.content

\* A message is shown as complete exactly if all its parts are there: one that is
\* called complete has all of its own parts and no others, and the part that
\* completes a group completes its message, so that it does not stay truncated.
CompleteIsWhole ==
    \A m \in messages :
        IF m.complete
        THEN m.content = {p \in Pdus : ~Malformed(p) /\ \E q \in m.content :
                                           Message[p] = Message[q]}
        ELSE \E g \in groups : /\ g.id = m.group
                               /\ Cardinality(Content(segments, g.id)) < g.key.total

\* Changed text comes with a larger revision, by which deliveries are queued.
NewTextNewRevision ==
    [][\A m \in messages, n \in messages' :
          m.group = n.group /\ m.group # 0 /\ m.content # n.content
          => n.revision > m.revision]_vars

\* a part that cannot be imported stays on the modem, and ends every synchronisation
Blocked(m) == \E i \in Indices : sim[m][i] # Free /\ Malformed(sim[m][i])

\* Whatever part arrives is shown to the user in the end, alone or with the rest
\* of its message, unless the user or the retention limit removed it, or its modem
\* stores a part that no import accepts.
EveryPartSurfaces ==
    []<>(\A p \in arrived : \/ p \in deleted \cup retired
                            \/ \E m \in messages : p \in m.content
                            \/ Blocked(Message[p].modem))
===============================================================================
