---------------------------- MODULE SmsImportProofs ----------------------------
(* Proofs about the import of SMS: nothing is shown twice, nothing comes back, *)
(* nothing is lost, and what is called complete is the whole message           *)
EXTENDS SmsImport, FiniteSetTheorems, WellFoundedInduction, TLAPS

\* The network's part: long messages that find_group cannot tell apart are one
\* message, and a message has each part once.
DistinctMessages ==
    /\ \A p, q \in Pdus : Message[p].total > 1 /\ GroupKey(p) = GroupKey(q)
                          => Message[p] = Message[q]
    /\ \A p, q \in Pdus : Message[p] = Message[q] /\ Part[p] = Part[q] => p = q

\* only one modem is in database mode
SingleModem == \A m, n \in Modems : m = n

GroupRow == [id : Nat \ {0}, key : {GroupKey(p) : p \in Pdus}, expired : BOOLEAN,
             old : BOOLEAN]
SegmentRow == [group : Nat \ {0}, index : Indices, pdu : Pdus]

\* multipart_groups and segments: every part is in one group, that of its key, which
\* has no other part with its number
Grouping(gs, ss) ==
    /\ \E n \in Nat : \A g \in gs : g.id <= n
    /\ gs \subseteq GroupRow /\ ss \subseteq SegmentRow
    /\ \A g, h \in gs : g.id = h.id => g = h
    /\ \A s \in ss : Message[s.pdu].total > 1 /\ ~Malformed(s.pdu)
    /\ \A s \in ss : \E g \in gs : g.id = s.group /\ g.key = GroupKey(s.pdu)
    /\ \A s, t \in ss : s.pdu = t.pdu => s = t
    /\ \A s, t \in ss : s.group = t.group /\ Part[s.pdu] = Part[t.pdu] => s = t

\* a message of one part
Single(m) == /\ m.group = 0 /\ m.complete = TRUE
             /\ \E p \in Pdus : Message[p].total = 1 /\ m.content = {p} /\ m.modem = Message[p].modem

\* a message of a group shows parts the group has; it is called complete exactly if
\* the group is, and then it shows all of them
OfGroup(m, g, ss) ==
    /\ m.group = g.id /\ m.modem = g.key.modem
    /\ m.content \subseteq Content(ss, g.id)
    /\ m.complete = (Cardinality(Content(ss, g.id)) >= g.key.total)
    /\ m.complete => m.content = Content(ss, g.id)

\* received: a group has at most one message
Showing(gs, ss, ms) ==
    /\ \A m \in ms : Single(m) \/ \E g \in gs : OfGroup(m, g, ss)
    /\ \A m, n \in ms : m.group = n.group /\ (m.group = 0 => m.content = n.content) => m = n

\* a PDU is stored at one location, that of its modem
Located ==
    /\ sim \in [Modems -> [Indices -> Pdus \cup {Free}]]
    /\ \A m \in Modems, i \in Indices : sim[m][i] # Free =>
          sim[m][i] \in arrived /\ m = Message[sim[m][i]].modem
    /\ \A m \in Modems, i, j \in Indices : sim[m][i] = sim[m][j] /\ sim[m][i] # Free => i = j

\* what was imported and is still in the modem has its source_messages row, and
\* the running synchronisation has seen it or has yet to come to it
Known ==
    /\ sources \subseteq SourceRow /\ imported \subseteq arrived /\ arrived \subseteq Pdus
    /\ \A s \in sources : s.pdu \in imported
    /\ \A m \in Modems, i \in Indices : sim[m][i] \in imported =>
          \E s \in sources : s.modem = m /\ s.index = i /\ s.pdu = sim[m][i]
    /\ pc \in {"importing", "deleting", "finishing"} =>
          \A s \in sources : s.modem = modem /\ sim[modem][s.index] = s.pdu =>
              s.seen = TRUE \/ [index |-> s.index, pdu |-> s.pdu] \in listing

\* what is listed and not imported yet is still there
Listed ==
    /\ pc \in {"idle", "importing", "deleting", "finishing", "pruning"} /\ modem \in Modems
    /\ listing \subseteq [index : Indices, pdu : Pdus]
    /\ \A e \in listing : sim[modem][e.index] = e.pdu
    /\ pc \in {"finishing", "pruning", "idle"} => listing = {}
    /\ pc = "deleting" => /\ entry \in [index : Indices, pdu : Pdus] /\ entry \notin listing
                          /\ sim[modem][entry.index] = entry.pdu

\* stored and deleted parts were imported, and no deleted part is stored
Books ==
    /\ \A s \in segments : s.pdu \in imported
    /\ \A m \in messages : m.content \subseteq imported
    /\ deleted \subseteq imported
    /\ \A p \in deleted : ~Stored(p)

Inv == /\ Grouping(groups, segments) /\ Showing(groups, segments, messages)
       /\ Located /\ Known /\ Listed /\ Books

\* between publish_expired and prune, a group of the modem that prune may drop shows
\* everything it has
Surfaced ==
    /\ \A g \in groups : g.old => g.expired
    /\ pc \in {"finishing", "pruning"} =>
          \A g \in groups : g.key.modem = modem /\ g.old =>
              \E m \in messages : m.group = g.id /\ m.content = Content(segments, g.id)
DurableInv == Inv /\ ImportDurable /\ Surfaced
-------------------------------------------------------------------------------
(* The tables                                                              *)

\* a set of naturals up to a bound has a largest member
LEMMA LargestExists ==
    ASSUME NEW n \in Nat, NEW S, S \subseteq 0..n, S # {}
    PROVE  Max(S) \in S /\ \A y \in S : Max(S) >= y
  <1> DEFINE T == {n - x : x \in S}
  <1>1. T \subseteq Nat /\ T # {}
    <2>1. \A x \in S : x \in Int /\ n - x \in Nat
      OBVIOUS
    <2>2. PICK x : x \in S
      OBVIOUS
    <2>3. n - x \in T
      BY <2>2
    <2> QED BY <2>1, <2>3
  <1>2. PICK t \in T : \A y \in T : ~(<<y, t>> \in OpToRel(<, Nat))
    <2> HIDE DEF T
    <2> QED BY <1>1, NatLessThanWellFounded, WFMin, Zenon
  <1>3. \A y \in T : t <= y
    <2> SUFFICES ASSUME NEW y \in T PROVE t <= y
      OBVIOUS
    <2>1. ~(<<y, t>> \in OpToRel(<, Nat)) /\ y \in Nat /\ t \in Nat
      BY <1>1, <1>2, Zenon
    <2> HIDE DEF T
    <2> QED BY <2>1 DEF OpToRel
  <1>4. PICK x \in S : t = n - x
    BY <1>2, Zenon
  <1>5. \A y \in S : x >= y
    BY <1>3, <1>4
  <1> HIDE DEF T
  <1> QED BY <1>5, Zenon DEF Max

\* the rowid of a new group is not in use
LEMMA FreshId ==
    ASSUME NEW n \in Nat, groups \subseteq GroupRow, \A g \in groups : g.id <= n
    PROVE  NextId \in Nat \ {0} /\ NextId <= n + 1 /\ \A g \in groups : g.id < NextId
  <1>1. CASE groups = {}
    BY <1>1 DEF NextId
  <1>2. CASE groups # {}
    <2> DEFINE S == {g.id : g \in groups}
    <2>1. \A g \in groups : g.id \in 0..n
      BY DEF GroupRow
    <2>2. S \subseteq 0..n /\ S # {} /\ \A g \in groups : g.id \in S
      BY <1>2, <2>1
    <2>3. NextId = 1 + Max(S)
      BY <1>2 DEF NextId
    <2> HIDE DEF S
    <2>4. Max(S) \in S /\ \A y \in S : Max(S) >= y
      BY <2>2, LargestExists, Zenon
    <2>5. Max(S) \in 0..n
      BY <2>2, <2>4, Zenon
    <2>6. \A g \in groups : g.id <= Max(S)
      BY <2>1, <2>2, <2>4, <2>5
    <2> QED BY <2>1, <2>3, <2>5, <2>6
  <1> QED BY <1>1, <1>2

\* rows of groups keep their id and key as time passes
LEMMA Ticked ==
    ASSUME NEW gs, NEW ss, NEW ms, Grouping(gs, ss), Showing(gs, ss, ms),
           NEW g \in gs, NEW h \in GroupRow, h.id = g.id, h.key = g.key
    PROVE  Grouping((gs \ {g}) \cup {h}, ss) /\ Showing((gs \ {g}) \cup {h}, ss, ms)
  <1> DEFINE hs == (gs \ {g}) \cup {h}
  <1>1. \A x \in gs : \E y \in hs : y.id = x.id /\ y.key = x.key
    OBVIOUS
  <1>2. \A y \in hs : \E x \in gs : y.id = x.id /\ y.key = x.key /\ (y = x \/ (y = h /\ x = g))
    OBVIOUS
  <1>3. Grouping(hs, ss)
    <2>1. \A x, y \in hs : x.id = y.id => x = y
      BY DEF Grouping
    <2>2. \A s \in ss : \E y \in hs : y.id = s.group /\ y.key = GroupKey(s.pdu)
      <3> HIDE DEF hs
      <3> QED BY <1>1 DEF Grouping
    <2>3. \E n \in Nat : \A y \in hs : y.id <= n
      BY DEF Grouping
    <2>4. hs \subseteq GroupRow
      BY DEF Grouping
    <2> HIDE DEF hs
    <2> QED BY <2>1, <2>2, <2>3, <2>4 DEF Grouping
  <1>4. Showing(hs, ss, ms)
    <2>1. \A m \in ms, x \in gs : OfGroup(m, x, ss) => \E y \in hs : OfGroup(m, y, ss)
      <3> HIDE DEF hs
      <3> QED BY <1>1 DEF OfGroup
    <2> HIDE DEF hs
    <2> QED BY <2>1 DEF Showing
  <1> QED BY <1>3, <1>4

\* groups go with their segments and messages
LEMMA Dropped ==
    ASSUME NEW gs, NEW ss, NEW ms, Grouping(gs, ss), Showing(gs, ss, ms),
           NEW gone \in SUBSET gs, NEW ns \in SUBSET ms, NEW ts,
           ts = {s \in ss : \A g \in gone : g.id # s.group},
           \A m \in ns, g \in gone : m.group # g.id
    PROVE  Grouping(gs \ gone, ts) /\ Showing(gs \ gone, ts, ns)
  <1>1. \A s \in ts : \E g \in gs \ gone : g.id = s.group /\ g.key = GroupKey(s.pdu)
    BY DEF Grouping
  <1>2. Grouping(gs \ gone, ts)
    BY <1>1 DEF Grouping
  <1>3. \A g \in gs \ gone : Content(ts, g.id) = Content(ss, g.id)
    BY DEF Content, Grouping
  <1>4. \A m \in ns, g \in gs : OfGroup(m, g, ss) => g \in gs \ gone /\ OfGroup(m, g, ts)
    BY <1>3 DEF OfGroup
  <1>5. Showing(gs \ gone, ts, ns)
    BY <1>4 DEF Showing
  <1> QED BY <1>2, <1>5

\* the row of a group that was just published
Shows(n, g, ss) ==
    /\ n.group = g.id /\ n.modem = g.key.modem /\ n.content = Content(ss, g.id)
    /\ n.complete = (Cardinality(Content(ss, g.id)) >= g.key.total)

\* publish_group leaves every group it is called for with one row, which shows all
\* its parts, and the other rows alone
LEMMA PublishedRows ==
    ASSUME NEW gs, NEW ss, \A g, h \in gs : g.id = h.id => g = h,
           \A g \in gs : g.id # 0,
           \A g \in gs, m \in messages : m.group = g.id => m.modem = g.key.modem,
           \A m, n \in messages : m.group = n.group /\ m.group # 0 => m = n
    PROVE  /\ \A n \in PublishGroups(gs, ss) : \/ n \in messages /\ \A g \in gs : n.group # g.id
                                               \/ \E g \in gs : Shows(n, g, ss)
           /\ \A m \in messages : (\A g \in gs : m.group # g.id) => m \in PublishGroups(gs, ss)
           /\ \A g \in gs : \E n \in PublishGroups(gs, ss) : Shows(n, g, ss)
           /\ \A m, n \in PublishGroups(gs, ss), g \in gs : m.group = g.id /\ n.group = g.id => m = n
  <1> DEFINE New(g) == Row(g, Content(ss, g.id))
             Revised(m, g) == IF m.content = New(g).content /\ m.complete = New(g).complete
                              THEN m ELSE [New(g) EXCEPT !.revision = m.revision + 1]
             Published(g) == IF MessageOf(g) = {} THEN {New(g)}
                             ELSE {Revised(m, g) : m \in MessageOf(g)}
             old == messages \ Replaced(gs)
  <1>1. PublishGroups(gs, ss) = old \cup UNION {Published(g) : g \in gs}
    BY DEF PublishGroups
  <1>2. \A n : n \in old <=> n \in messages /\ \A g \in gs : n.group # g.id
    BY DEF Replaced, MessageOf
  <1>3. ASSUME NEW g \in gs
        PROVE  /\ \A n \in Published(g) : Shows(n, g, ss)
               /\ \A m, n \in Published(g) : m = n
               /\ Published(g) # {}
    <2>1. Shows(New(g), g, ss)
      BY DEF Shows, Row
    <2>2. CASE MessageOf(g) = {}
      <3>1. Published(g) = {New(g)}
        BY <2>2
      <3> HIDE DEF Published, New
      <3> QED BY <2>1, <3>1
    <2>3. CASE MessageOf(g) # {}
      <3>1. PICK m \in MessageOf(g) : \A n \in MessageOf(g) : n = m
        BY <2>3 DEF MessageOf
      <3>2. Published(g) = {Revised(m, g)}
        <4>1. MessageOf(g) = {m}
          BY <3>1
        <4>2. Published(g) = {Revised(n, g) : n \in {m}}
          BY <2>3, <4>1
        <4> HIDE DEF Published, Revised
        <4> QED BY <4>2
      <3>3. Shows(Revised(m, g), g, ss)
        <4>1. m.group = g.id /\ m.modem = g.key.modem
          BY <3>1 DEF MessageOf
        <4>2. CASE m.content = New(g).content /\ m.complete = New(g).complete
          BY <4>1, <4>2, <2>1 DEF Shows
        <4>3. CASE ~(m.content = New(g).content /\ m.complete = New(g).complete)
          <5>1. Revised(m, g) = [New(g) EXCEPT !.revision = m.revision + 1]
            BY <4>3
          <5>2. Shows([New(g) EXCEPT !.revision = m.revision + 1], g, ss)
            BY DEF Shows, Row
          <5> HIDE DEF Revised
          <5> QED BY <5>1, <5>2
        <4> HIDE DEF Revised
        <4> QED BY <4>2, <4>3
      <3> HIDE DEF Published, Revised, New
      <3> QED BY <3>2, <3>3
    <2> QED BY <2>2, <2>3
  <1> HIDE DEF New, Revised, Published, old
  <1>4. \A n \in PublishGroups(gs, ss) : n \in old \/ \E g \in gs : n \in Published(g)
    BY <1>1
  <1>5. \A g \in gs : Published(g) \subseteq PublishGroups(gs, ss)
    BY <1>1
  <1>6. old \subseteq PublishGroups(gs, ss)
    BY <1>1
  <1>7. \A m \in PublishGroups(gs, ss), g \in gs : m.group = g.id => m \in Published(g)
    BY <1>2, <1>3, <1>4 DEF Shows
  <1> QED BY <1>2, <1>3, <1>4, <1>5, <1>6, <1>7

\* publishing groups, when the other messages are as they should be
LEMMA Published ==
    ASSUME NEW gs, NEW ss, NEW old, Grouping(gs, ss), NEW pub \in SUBSET gs,
           Showing(old, segments, messages),
           \A m \in messages, g \in pub : m.group = g.id => m.modem = g.key.modem,
           \A m \in messages : \/ Single(m)
                               \/ \E g \in pub : m.group = g.id
                               \/ \E g \in gs : OfGroup(m, g, ss)
    PROVE  /\ Showing(gs, ss, PublishGroups(pub, ss))
           /\ \A g \in pub : \E n \in PublishGroups(pub, ss) :
                 n.group = g.id /\ n.content = Content(ss, g.id)
           /\ \A m \in messages : (\A g \in pub : m.group # g.id) => m \in PublishGroups(pub, ss)
           /\ \A n \in PublishGroups(pub, ss) : n \in messages \/ \E g \in pub : Shows(n, g, ss)
  <1> DEFINE ms == PublishGroups(pub, ss)
  <1>1. \A g \in gs : g.id # 0
    BY DEF Grouping, GroupRow
  <1>2. /\ \A n \in ms : \/ n \in messages /\ \A g \in pub : n.group # g.id
                         \/ \E g \in pub : Shows(n, g, ss)
        /\ \A m \in messages : (\A g \in pub : m.group # g.id) => m \in ms
        /\ \A g \in pub : \E n \in ms : Shows(n, g, ss)
        /\ \A m, n \in ms, g \in pub : m.group = g.id /\ n.group = g.id => m = n
    <2>1. \A g, h \in pub : g.id = h.id => g = h
      BY DEF Grouping
    <2>2. \A m, n \in messages : m.group = n.group /\ m.group # 0 => m = n
      BY DEF Showing
    <2> QED BY <1>1, <2>1, <2>2, PublishedRows
  <1> HIDE DEF ms
  <1>3. \A n \in ms, g \in pub : Shows(n, g, ss) => OfGroup(n, g, ss)
    BY DEF Shows, OfGroup
  <1>4. \A m \in ms : Single(m) \/ \E g \in gs : OfGroup(m, g, ss)
    <2> SUFFICES ASSUME NEW m \in ms PROVE Single(m) \/ \E g \in gs : OfGroup(m, g, ss)
      OBVIOUS
    <2>1. CASE m \in messages /\ \A g \in pub : m.group # g.id
      BY <2>1
    <2>2. CASE \E g \in pub : Shows(m, g, ss)
      BY <2>2, <1>3
    <2> QED BY <1>2, <2>1, <2>2
  <1>5. \A m, n \in ms : m.group = n.group /\ (m.group = 0 => m.content = n.content) => m = n
    <2> SUFFICES ASSUME NEW m \in ms, NEW n \in ms, m.group = n.group,
                        m.group = 0 => m.content = n.content
                 PROVE  m = n
      OBVIOUS
    <2>1. CASE \E g \in pub : m.group = g.id
      BY <2>1, <1>2, Zenon
    <2>2. CASE \A g \in pub : m.group # g.id
      <3>1. m \in messages /\ n \in messages
        BY <1>2, <2>2 DEF Shows
      <3> QED BY <3>1 DEF Showing
    <2> QED BY <2>1, <2>2
  <1>6. Showing(gs, ss, ms)
    BY <1>4, <1>5 DEF Showing
  <1> QED BY <1>2, <1>6 DEF ms, Shows
-------------------------------------------------------------------------------
(* The invariant                                                           *)

LEMMA InitInv == Init => Inv
  <1> SUFFICES ASSUME Init PROVE Inv
    OBVIOUS
  <1> USE DEF Init
  <1>1. Grouping(groups, segments)
    <2>1. \E n \in Nat : \A g \in groups : g.id <= n
      <3> WITNESS 0 \in Nat
      <3> QED OBVIOUS
    <2> QED BY <2>1 DEF Grouping
  <1>2. Showing(groups, segments, messages)
    BY DEF Showing
  <1>3. Located /\ Known /\ Listed
    BY DEF Located, Known, Listed
  <1>4. Books
    BY DEF Books
  <1> QED BY <1>1, <1>2, <1>3, <1>4 DEF Inv

LEMMA ArriveInv == Inv /\ Arrive => Inv'
  <1> SUFFICES ASSUME Inv, Arrive PROVE Inv'
    OBVIOUS
  <1>1. PICK p \in Pdus \ arrived, i \in Indices :
             /\ sim[Message[p].modem][i] = Free
             /\ sim' = [sim EXCEPT ![Message[p].modem][i] = p]
             /\ arrived' = arrived \cup {p}
    BY Zenon DEF Arrive
  <1> DEFINE m == Message[p].modem
  <1>2. m \in Modems /\ p # Free
    BY MessageAssumption
  <1>u. /\ UNCHANGED <<sources, groups, segments, messages>>
        /\ UNCHANGED <<pc, modem, listing, entry, aborts, imported, deleted, retired>>
    BY DEF Arrive, dbVars, syncVars, history
  <1>s. sim \in [Modems -> [Indices -> Pdus \cup {Free}]]
    BY DEF Inv, Located
  <1>3. sim' \in [Modems -> [Indices -> Pdus \cup {Free}]]
    BY <1>1, <1>2, <1>s
  <1>4. \A n \in Modems, j \in Indices : sim'[n][j] = IF n = m /\ j = i THEN p ELSE sim[n][j]
    BY <1>1, <1>2, <1>s
  <1> HIDE DEF m
  <1>5. \A n \in Modems, j \in Indices : sim[n][j] # p
    BY <1>2 DEF Inv, Located
  <1>6. Located'
    <2>1. \A n \in Modems, j \in Indices : sim'[n][j] # Free =>
             sim'[n][j] \in arrived' /\ n = Message[sim'[n][j]].modem
      BY <1>1, <1>2, <1>4 DEF Inv, Located, m
    <2>2. \A n \in Modems, j, k \in Indices : sim'[n][j] = sim'[n][k] /\ sim'[n][j] # Free => j = k
      BY <1>4, <1>5 DEF Inv, Located
    <2> QED BY <1>3, <2>1, <2>2 DEF Located
  <1>7. Known'
    <2>1. p \notin imported
      BY <1>1 DEF Inv, Known
    <2>2. \A n \in Modems, j \in Indices : sim'[n][j] \in imported =>
             \E s \in sources : s.modem = n /\ s.index = j /\ s.pdu = sim'[n][j]
      BY <1>4, <2>1 DEF Inv, Known
    <2>3. \A s \in sources : s.index \in Indices /\ s.pdu # p
      BY <2>1 DEF Inv, Known, SourceRow
    <2>4. pc \in {"importing", "deleting", "finishing"} =>
             \A s \in sources : s.modem = modem /\ sim'[modem][s.index] = s.pdu =>
                 s.seen = TRUE \/ [index |-> s.index, pdu |-> s.pdu] \in listing
      BY <1>4, <2>3 DEF Inv, Known, Listed
    <2>5. sources \subseteq SourceRow /\ imported \subseteq arrived' /\ arrived' \subseteq Pdus
      BY <1>1 DEF Inv, Known
    <2>6. \A s \in sources : s.pdu \in imported
      BY DEF Inv, Known
    <2> QED BY <1>u, <2>2, <2>4, <2>5, <2>6 DEF Known
  <1>8. Listed'
    <2>1. \A e \in listing : sim'[modem][e.index] = e.pdu
      <3>1. \A e \in listing : e.index \in Indices /\ e.pdu \in Pdus /\ sim[modem][e.index] = e.pdu
        BY DEF Inv, Listed
      <3>2. Free \notin Pdus /\ modem \in Modems
        BY MessageAssumption DEF Inv, Listed
      <3> QED BY <1>1, <1>4, <3>1, <3>2 DEF m
    <2>2. pc = "deleting" => sim'[modem][entry.index] = entry.pdu
      <3> SUFFICES ASSUME pc = "deleting" PROVE sim'[modem][entry.index] = entry.pdu
        OBVIOUS
      <3>1. entry.index \in Indices /\ entry.pdu \in Pdus /\ sim[modem][entry.index] = entry.pdu
        BY DEF Inv, Listed
      <3>2. Free \notin Pdus /\ modem \in Modems
        BY MessageAssumption DEF Inv, Listed
      <3> QED BY <1>1, <1>4, <3>1, <3>2 DEF m
    <2> QED BY <1>u, <2>1, <2>2, Zenon DEF Inv, Listed
  <1>9. Books'
    BY <1>u DEF Inv, Books, Stored
  <1>10. Grouping(groups, segments)' /\ Showing(groups, segments, messages)'
    BY <1>u DEF Inv
  <1> QED BY <1>6, <1>7, <1>8, <1>9, <1>10 DEF Inv

\* the modem, the locations known and the listing are left alone, or the listing is done
LEMMA Settled ==
    ASSUME Inv, UNCHANGED <<sim, arrived, sources, imported, modem>>,
           \/ UNCHANGED <<pc, listing, entry>>
           \/ pc' = "idle" /\ listing' = {}
           \/ pc = "importing" /\ pc' = "finishing" /\ listing = {} /\ listing' = {}
    PROVE  Located' /\ Known' /\ Listed'
  <1>1. Located /\ Known /\ Listed
    BY DEF Inv
  <1>2. Located'
    BY <1>1 DEF Located
  <1>3. Known'
    <2>1. /\ sources' \subseteq SourceRow /\ imported' \subseteq arrived' /\ arrived' \subseteq Pdus
          /\ \A s \in sources' : s.pdu \in imported'
      BY <1>1 DEF Known
    <2>2. \A m \in Modems, i \in Indices : sim'[m][i] \in imported' =>
              \E s \in sources' : s.modem = m /\ s.index = i /\ s.pdu = sim'[m][i]
      BY <1>1 DEF Known
    <2>3. pc' \in {"importing", "deleting", "finishing"} =>
              \A s \in sources' : s.modem = modem' /\ sim'[modem'][s.index] = s.pdu =>
                  s.seen = TRUE \/ [index |-> s.index, pdu |-> s.pdu] \in listing'
      <3>1. CASE UNCHANGED <<pc, listing, entry>>
        BY <1>1, <3>1 DEF Known
      <3>2. CASE pc' = "idle"
        BY <3>2
      <3>3. CASE pc = "importing" /\ listing = {} /\ listing' = {}
        BY <1>1, <3>3 DEF Known
      <3> QED BY <3>1, <3>2, <3>3, Zenon
    <2> QED BY <2>1, <2>2, <2>3 DEF Known
  <1>4. Listed'
    <2>1. CASE UNCHANGED <<pc, listing, entry>>
      BY <1>1, <2>1 DEF Listed
    <2>2. CASE pc' \in {"idle", "finishing"} /\ listing' = {}
      BY <1>1, <2>2 DEF Listed
    <2> QED BY <2>1, <2>2
  <1> QED BY <1>2, <1>3, <1>4

\* a row of multipart_groups ages
LEMMA TickInv ==
    ASSUME Inv, NEW g \in groups, NEW h \in GroupRow, h.id = g.id, h.key = g.key,
           groups' = (groups \ {g}) \cup {h},
           UNCHANGED <<simVars, sources, segments, messages, syncVars, history>>
    PROVE  Inv'
  <1>1. Grouping(groups', segments) /\ Showing(groups', segments, messages)
    BY Ticked DEF Inv
  <1>2. UNCHANGED <<sim, arrived, sources, segments, messages, pc, modem, listing, entry,
                    imported, deleted, retired>>
    BY DEF simVars, syncVars, history
  <1>3. Grouping(groups, segments)' /\ Showing(groups, segments, messages)'
    BY <1>1, <1>2
  <1>4. Located' /\ Known' /\ Listed'
    BY <1>2, Settled
  <1>5. Books'
    BY <1>2, Zenon DEF Inv, Books, Stored
  <1> QED BY <1>3, <1>4, <1>5 DEF Inv

LEMMA PassInv == Inv /\ (PassMultipartWait \/ PassLateWindow) => Inv'
  <1>1. ASSUME Inv, PassMultipartWait PROVE Inv'
    <2>1. PICK g \in groups : groups' = (groups \ {g}) \cup {[g EXCEPT !.expired = TRUE]}
      BY <1>1 DEF PassMultipartWait
    <2>2. g \in GroupRow
      BY <1>1 DEF Inv, Grouping
    <2> DEFINE h == [g EXCEPT !.expired = TRUE]
    <2>3. h \in GroupRow /\ h.id = g.id /\ h.key = g.key
      BY <2>2, Zenon DEF GroupRow
    <2>4. UNCHANGED <<simVars, sources, segments, messages, syncVars, history>>
      BY <1>1 DEF PassMultipartWait
    <2> HIDE DEF h
    <2> QED BY <1>1, <2>1, <2>3, <2>4, TickInv, Zenon DEF h
  <1>2. ASSUME Inv, PassLateWindow PROVE Inv'
    <2>1. PICK g \in groups : groups' = (groups \ {g}) \cup {[g EXCEPT !.old = TRUE]}
      BY <1>2 DEF PassLateWindow
    <2>2. g \in GroupRow
      BY <1>2 DEF Inv, Grouping
    <2> DEFINE h == [g EXCEPT !.old = TRUE]
    <2>3. h \in GroupRow /\ h.id = g.id /\ h.key = g.key
      BY <2>2, Zenon DEF GroupRow
    <2>4. UNCHANGED <<simVars, sources, segments, messages, syncVars, history>>
      BY <1>2 DEF PassLateWindow
    <2> HIDE DEF h
    <2> QED BY <1>2, <2>1, <2>3, <2>4, TickInv, Zenon DEF h
  <1> QED BY <1>1, <1>2

LEMMA BeginSyncInv == Inv /\ BeginSync => Inv'
  <1> SUFFICES ASSUME Inv, BeginSync PROVE Inv'
    OBVIOUS
  <1>1. PICK m \in Modems, older \in BOOLEAN :
             /\ modem' = m
             /\ listing' = {[index |-> i, pdu |-> sim[m][i]] :
                               i \in {j \in Indices : sim[m][j] # Free}}
             /\ sources' = {[s EXCEPT !.seen = @ /\ ~(older /\ s.modem = m)] : s \in sources}
    BY Zenon DEF BeginSync
  <1>u. /\ UNCHANGED <<sim, arrived, groups, segments, messages, imported, deleted>>
        /\ pc' = "importing"
    BY DEF BeginSync, simVars, history
  <1> DEFINE F == [s \in sources |-> [s EXCEPT !.seen = @ /\ ~(older /\ s.modem = m)]]
  <1>2. sources' = {F[s] : s \in sources}
    BY <1>1
  <1>3. \A s \in sources : /\ F[s] \in SourceRow /\ F[s].modem = s.modem
                           /\ F[s].index = s.index /\ F[s].pdu = s.pdu
    <2> SUFFICES ASSUME NEW s \in sources
                 PROVE  /\ F[s] \in SourceRow /\ F[s].modem = s.modem
                        /\ F[s].index = s.index /\ F[s].pdu = s.pdu
      OBVIOUS
    <2>1. s \in SourceRow
      BY Zenon DEF Inv, Known
    <2>2. F[s] = [s EXCEPT !.seen = s.seen /\ ~(older /\ s.modem = m)]
      OBVIOUS
    <2> HIDE DEF F
    <2> QED BY <2>1, <2>2, Zenon DEF SourceRow
  <1> HIDE DEF F
  <1>4. \A i \in Indices : sim[m][i] # Free => [index |-> i, pdu |-> sim[m][i]] \in listing'
    BY <1>1
  <1>5. \A e \in listing' : e \in [index : Indices, pdu : Pdus] /\ sim[m][e.index] = e.pdu
    BY <1>1 DEF Inv, Located
  <1>6. Known'
    <2>1. sources' \subseteq SourceRow
      BY <1>2, <1>3
    <2>2. \A s \in sources' : s.pdu \in imported
      BY <1>2, <1>3 DEF Inv, Known
    <2>3. \A n \in Modems, i \in Indices : sim[n][i] \in imported =>
             \E s \in sources' : s.modem = n /\ s.index = i /\ s.pdu = sim[n][i]
      BY <1>2, <1>3 DEF Inv, Known
    <2>4. \A s \in sources' : sim[m][s.index] = s.pdu =>
             [index |-> s.index, pdu |-> s.pdu] \in listing'
      <3>1. \A s \in sources' : s.index \in Indices /\ s.pdu \in Pdus
        BY <2>1 DEF SourceRow
      <3> QED BY <1>4, <3>1, MessageAssumption
    <2>5. imported' \subseteq arrived' /\ arrived' \subseteq Pdus
      BY <1>u, Zenon DEF Inv, Known
    <2>6. modem' = m /\ UNCHANGED <<sim, imported>>
      BY <1>1, <1>u
    <2> QED BY <2>1, <2>2, <2>3, <2>4, <2>5, <2>6 DEF Known
  <1>7. Listed'
    BY <1>1, <1>u, <1>5 DEF Inv, Listed
  <1>8. Located' /\ Grouping(groups, segments)' /\ Showing(groups, segments, messages)'
    BY <1>u DEF Inv, Located
  <1>9. Books'
    BY <1>u DEF Inv, Books, Stored
  <1> QED BY <1>6, <1>7, <1>8, <1>9 DEF Inv

\* committing an entry of the list: its row exists from then on, and is seen
LEMMA Committed ==
    ASSUME Inv, NEW e \in listing, pc = "importing", AfterImport(e),
           sources' = (sources \ SourcesOf(e)) \cup {NewSource(e)},
           imported' = imported \cup {e.pdu}
    PROVE  Located' /\ Known' /\ Listed'
  <1>u. /\ UNCHANGED <<sim, arrived, modem>> /\ entry' = e /\ listing' = listing \ {e}
        /\ pc' \in {"deleting", "importing"}
    BY DEF AfterImport, simVars
  <1>1. /\ e.index \in Indices /\ e.pdu \in Pdus /\ e = [index |-> e.index, pdu |-> e.pdu]
        /\ sim[modem][e.index] = e.pdu /\ modem \in Modems
    BY DEF Inv, Listed
  <1>2. e.pdu \in arrived /\ Free \notin Pdus
    BY <1>1, MessageAssumption DEF Inv, Located
  <1>3. NewSource(e) \in SourceRow /\ NewSource(e) \in sources' /\ NewSource(e).seen = TRUE
    BY <1>1 DEF NewSource, SourceRow
  <1>4. NewSource(e).modem = modem /\ NewSource(e).index = e.index /\ NewSource(e).pdu = e.pdu
    BY DEF NewSource
  <1>5. \A s \in sources' : s \in sources \/ s = NewSource(e)
    OBVIOUS
  <1>6. \A s \in sources : s \in sources' \/ (s.modem = modem /\ s.index = e.index /\ s.pdu = e.pdu)
    BY DEF SourcesOf
  <1> HIDE DEF NewSource
  <1>7. Known'
    <2>1. sources' \subseteq SourceRow /\ imported' \subseteq arrived /\ arrived \subseteq Pdus
      BY <1>2, <1>3, <1>5, Zenon DEF Inv, Known
    <2>2. \A s \in sources' : s.pdu \in imported'
      BY <1>4, <1>5, Zenon DEF Inv, Known
    <2>3. \A n \in Modems, i \in Indices : sim[n][i] \in imported' =>
             \E s \in sources' : s.modem = n /\ s.index = i /\ s.pdu = sim[n][i]
      <3> SUFFICES ASSUME NEW n \in Modems, NEW i \in Indices, sim[n][i] \in imported'
                   PROVE  \E s \in sources' : s.modem = n /\ s.index = i /\ s.pdu = sim[n][i]
        OBVIOUS
      <3>1. CASE sim[n][i] = e.pdu
        <4>1. n = Message[e.pdu].modem /\ modem = Message[e.pdu].modem
          BY <1>1, <1>2, <3>1 DEF Inv, Located
        <4>2. i = e.index
          BY <1>1, <1>2, <3>1, <4>1 DEF Inv, Located
        <4> QED BY <1>3, <1>4, <3>1, <4>1, <4>2, Zenon
      <3>2. CASE sim[n][i] # e.pdu
        <4>1. PICK s \in sources : s.modem = n /\ s.index = i /\ s.pdu = sim[n][i]
          BY <3>2, Zenon DEF Inv, Known
        <4> QED BY <1>6, <3>2, <4>1, Zenon
      <3> QED BY <3>1, <3>2
    <2>4. \A s \in sources' : s.modem = modem /\ sim[modem][s.index] = s.pdu =>
             s.seen = TRUE \/ [index |-> s.index, pdu |-> s.pdu] \in listing'
      <3> SUFFICES ASSUME NEW s \in sources', s.modem = modem, sim[modem][s.index] = s.pdu,
                          s.seen # TRUE
                   PROVE  [index |-> s.index, pdu |-> s.pdu] \in listing'
        BY Zenon
      <3>1. s \in sources /\ s # NewSource(e)
        BY <1>3, <1>5, Zenon
      <3>2. [index |-> s.index, pdu |-> s.pdu] \in listing
        BY <3>1, Zenon DEF Inv, Known
      <3>3. ~(s.index = e.index /\ s.pdu = e.pdu)
        BY <3>1, Zenon DEF SourcesOf
      <3> QED BY <1>u, <1>1, <3>2, <3>3
    <2> QED BY <1>u, <2>1, <2>2, <2>3, <2>4 DEF Known
  <1>8. Listed'
    BY <1>u, <1>1, Zenon DEF Inv, Listed
  <1>9. Located'
    BY <1>u, Zenon DEF Inv, Located
  <1> QED BY <1>7, <1>8, <1>9

\* an entry without a row in source_messages was never imported
LEMMA Fresh ==
    ASSUME Inv, NEW e \in listing, SourcesOf(e) = {}
    PROVE  e.pdu \in Pdus \ imported /\ Message[e.pdu].modem = modem
  <1>1. /\ e.index \in Indices /\ e.pdu \in Pdus
        /\ sim[modem][e.index] = e.pdu /\ modem \in Modems
    BY DEF Inv, Listed
  <1>2. Message[e.pdu].modem = modem
    BY <1>1, MessageAssumption DEF Inv, Located
  <1>3. e.pdu \notin imported
    BY <1>1 DEF Inv, Known, SourcesOf
  <1> QED BY <1>1, <1>2, <1>3, Zenon

LEMMA ImportDuplicateInv == ASSUME NEW e, Inv, ImportDuplicate(e) PROVE Inv'
  <1>1. e \in listing /\ pc = "importing" /\ AfterImport(e)
    BY DEF ImportDuplicate
  <1>u. UNCHANGED <<groups, segments, messages, imported, deleted>>
    BY DEF ImportDuplicate, AfterImport
  <1>2. imported' = imported \cup {e.pdu}
    <2>1. PICK s \in sources : s.pdu = e.pdu
      BY Zenon DEF ImportDuplicate, SourcesOf
    <2> QED BY <1>u, <2>1 DEF Inv, Known
  <1>3. Located' /\ Known' /\ Listed'
    BY <1>1, <1>2, Committed DEF ImportDuplicate
  <1>4. Grouping(groups, segments)' /\ Showing(groups, segments, messages)'
    BY <1>u DEF Inv
  <1>5. Books'
    BY <1>u, Zenon DEF Inv, Books, Stored
  <1> QED BY <1>3, <1>4, <1>5 DEF Inv

LEMMA ImportSingleInv == ASSUME NEW e, Inv, ImportSingle(e) PROVE Inv'
  <1> DEFINE row == [group |-> 0, copy |-> Cardinality({m \in messages : m.content = {e.pdu}}),
                     modem |-> modem, content |-> {e.pdu}, complete |-> TRUE, revision |-> 1]
  <1>1. /\ e \in listing /\ pc = "importing" /\ AfterImport(e) /\ SourcesOf(e) = {}
        /\ Message[e.pdu].total = 1 /\ messages' = messages \cup {row}
        /\ imported' = imported \cup {e.pdu}
    BY Zenon DEF ImportSingle
  <1>u. UNCHANGED <<groups, segments, deleted>>
    BY Zenon DEF ImportSingle, AfterImport
  <1>2. e.pdu \in Pdus \ imported /\ Message[e.pdu].modem = modem
    BY <1>1, Fresh, Zenon
  <1>3. Located' /\ Known' /\ Listed'
    <2>1. sources' = (sources \ SourcesOf(e)) \cup {NewSource(e)}
      BY <1>1, Zenon DEF ImportSingle
    <2> QED BY <1>1, <2>1, Committed, Zenon
  <1>4. row.group = 0 /\ row.complete = TRUE /\ row.content = {e.pdu} /\ row.modem = modem
    BY Zenon
  <1> HIDE DEF row
  <1>5. Single(row)
    BY <1>1, <1>2, <1>4, Zenon DEF Single
  <1>6. \A m \in messages : m.content # {e.pdu}
    BY <1>2, Zenon DEF Inv, Books
  <1>7. Showing(groups, segments, messages')
    <2>1. \A m, n \in messages' : m.group = n.group /\ (m.group = 0 => m.content = n.content)
                                  => m = n
      BY <1>1, <1>4, <1>6 DEF Inv, Showing
    <2> QED BY <1>1, <1>5, <2>1, Zenon DEF Inv, Showing
  <1>8. Books'
    <2>1. \A p \in deleted : p # e.pdu /\ ~Stored(p)
      BY <1>2, Zenon DEF Inv, Books
    <2>2. \A p \in deleted : ~Stored(p)'
      BY <1>1, <1>u, <1>4, <2>1, Zenon DEF Stored
    <2> QED BY <1>1, <1>u, <1>4, <2>2, Zenon DEF Inv, Books
  <1>9. Grouping(groups, segments)' /\ Showing(groups, segments, messages)'
    BY <1>u, <1>7 DEF Inv
  <1> QED BY <1>3, <1>8, <1>9 DEF Inv

\* the group a part joins is one of its key that is unfinished, or a new one
ChosenGroup(g, p) ==
    /\ g \in GroupRow /\ g.key = GroupKey(p) /\ g.old = FALSE
    /\ g \in groups \/ \A h \in groups : h.id # g.id
    /\ \A m \in messages : m.group = g.id => m.complete = FALSE /\ m.modem = g.key.modem
    /\ \E n \in Nat : \A h \in groups \cup {g} : h.id <= n

LEMMA GroupChosen ==
    ASSUME Inv, NEW p \in Pdus,
           NEW g \in IF Joinable(p) # {} THEN Joinable(p)
                     ELSE {[id |-> NextId, key |-> GroupKey(p), expired |-> FALSE, old |-> FALSE]}
    PROVE  ChosenGroup(g, p)
  <1>1. PICK n \in Nat : \A h \in groups : h.id <= n
    BY Zenon DEF Inv, Grouping
  <1>2. /\ groups \subseteq GroupRow /\ \A h \in groups : h.id \in Nat \ {0}
        /\ \A x, y \in groups : x.id = y.id => x = y
    BY Zenon DEF Inv, Grouping, GroupRow
  <1>3. \A m \in messages : m.group # 0 => \E h \in groups : OfGroup(m, h, segments)
    BY Zenon DEF Inv, Showing, Single
  <1>4. CASE g \in Joinable(p)
    <2>1. g \in groups /\ g.key = GroupKey(p) /\ ~g.old /\ Unfinished(g)
      BY <1>4, Zenon DEF Joinable
    <2>2. g.old = FALSE
      BY <1>2, <2>1, Zenon DEF GroupRow
    <2>3. \A m \in messages : m.group = g.id => m.complete = FALSE /\ m.modem = g.key.modem
      BY <1>2, <1>3, <2>1 DEF Unfinished, MessageOf, OfGroup
    <2>4. \A h \in groups \cup {g} : h.id <= n
      BY <1>1, <2>1, Zenon
    <2> QED BY <1>2, <2>1, <2>2, <2>3, <2>4, Zenon DEF ChosenGroup
  <1>5. CASE g = [id |-> NextId, key |-> GroupKey(p), expired |-> FALSE, old |-> FALSE]
    <2>1. NextId \in Nat \ {0} /\ NextId <= n + 1 /\ \A h \in groups : h.id < NextId
      BY <1>1, <1>2, FreshId, Zenon
    <2>2. g \in GroupRow /\ g.key = GroupKey(p) /\ g.old = FALSE /\ g.id = NextId
      BY <1>5, <2>1, Zenon DEF GroupRow
    <2>3. \A h \in groups : h.id # g.id
      BY <1>2, <2>1, <2>2
    <2>4. \A m \in messages : m.group # g.id
      BY <1>3, <2>1, <2>2, <2>3, Zenon DEF OfGroup
    <2>5. \A h \in groups \cup {g} : h.id <= n + 1
      BY <1>1, <1>2, <2>1, <2>2
    <2> QED BY <2>2, <2>3, <2>4, <2>5 DEF ChosenGroup
  <1> QED BY <1>4, <1>5, Zenon

\* segments after a part was added to group g
WithPart(g, e) ==
    IF \E s \in segments : s.group = g.id /\ Part[s.pdu] = Part[e.pdu] THEN segments
    ELSE segments \cup {[group |-> g.id, index |-> e.index, pdu |-> e.pdu]}

LEMMA PartGrouped ==
    ASSUME Inv, NEW e \in listing, SourcesOf(e) = {}, Message[e.pdu].total > 1,
           ~Malformed(e.pdu), NEW g, ChosenGroup(g, e.pdu)
    PROVE  Grouping(groups \cup {g}, WithPart(g, e))
  <1>1. e.pdu \in Pdus \ imported /\ e.index \in Indices
    BY Fresh, Zenon DEF Inv, Listed
  <1>2. /\ groups \cup {g} \subseteq GroupRow /\ \E n \in Nat : \A h \in groups \cup {g} : h.id <= n
        /\ \A x, y \in groups \cup {g} : x.id = y.id => x = y
    BY Zenon DEF Inv, Grouping, ChosenGroup
  <1>3. /\ segments \subseteq SegmentRow
        /\ \A s \in segments : Message[s.pdu].total > 1 /\ ~Malformed(s.pdu) /\ s.pdu # e.pdu
        /\ \A s \in segments : \E h \in groups \cup {g} : h.id = s.group /\ h.key = GroupKey(s.pdu)
        /\ \A s, t \in segments : s.pdu = t.pdu => s = t
        /\ \A s, t \in segments : s.group = t.group /\ Part[s.pdu] = Part[t.pdu] => s = t
    BY <1>1, Zenon DEF Inv, Grouping, Books
  <1>4. CASE \E s \in segments : s.group = g.id /\ Part[s.pdu] = Part[e.pdu]
    BY <1>2, <1>3, <1>4, Zenon DEF Grouping, WithPart
  <1>5. CASE \A s \in segments : ~(s.group = g.id /\ Part[s.pdu] = Part[e.pdu])
    <2> DEFINE new == [group |-> g.id, index |-> e.index, pdu |-> e.pdu]
    <2>1. new \in SegmentRow /\ new.group = g.id /\ new.pdu = e.pdu
      BY <1>1, Zenon DEF SegmentRow, ChosenGroup, GroupRow
    <2>2. WithPart(g, e) = segments \cup {new}
      BY <1>5, Zenon DEF WithPart
    <2> HIDE DEF new
    <2>3. \A s \in segments \cup {new} :
             \E h \in groups \cup {g} : h.id = s.group /\ h.key = GroupKey(s.pdu)
      BY <1>3, <2>1, Zenon DEF ChosenGroup
    <2>4. \A s, t \in segments \cup {new} : s.pdu = t.pdu => s = t
      BY <1>3, <2>1, Zenon
    <2>5. \A s, t \in segments \cup {new} : s.group = t.group /\ Part[s.pdu] = Part[t.pdu] => s = t
      BY <1>3, <1>5, <2>1
    <2>6. segments \cup {new} \subseteq SegmentRow
      BY <1>3, <2>1, Zenon
    <2>7. \A s \in segments \cup {new} : Message[s.pdu].total > 1 /\ ~Malformed(s.pdu)
      BY <1>3, <2>1, Zenon
    <2> QED BY <1>2, <2>2, <2>3, <2>4, <2>5, <2>6, <2>7, Zenon DEF Grouping
  <1> QED BY <1>4, <1>5, Zenon

\* the part that completes a group completes its message; any other part leaves the
\* message incomplete
LEMMA PartShown ==
    ASSUME Inv, NEW e \in listing, SourcesOf(e) = {}, Message[e.pdu].total > 1,
           ~Malformed(e.pdu), NEW g, ChosenGroup(g, e.pdu), NEW ss, ss = WithPart(g, e), NEW ms,
           ms = PublishIfComplete(g, ss)
    PROVE  /\ Showing(groups \cup {g}, ss, ms)
           /\ \A n \in ms : n \in messages \/ Shows(n, g, ss)
           /\ \A m \in messages : m.group = g.id \/ m \in ms
  <1>1. Grouping(groups \cup {g}, ss)
    BY PartGrouped, Zenon
  <1>2. /\ \A s \in segments : s \in ss
        /\ \A s \in ss : s \in segments \/ s.group = g.id
    BY DEF WithPart
  <1>3. \A h \in groups : h.id # g.id => Content(ss, h.id) = Content(segments, h.id)
    BY <1>2 DEF Content
  <1>4. Content(segments, g.id) \subseteq Content(ss, g.id)
    BY <1>2, Zenon DEF Content
  <1>5. \A m \in messages, h \in groups : OfGroup(m, h, segments) /\ h.id # g.id => OfGroup(m, h, ss)
    BY <1>3, Zenon DEF OfGroup
  <1>6. \A m \in messages : Single(m) \/ \E h \in groups : OfGroup(m, h, segments)
    BY Zenon DEF Inv, Showing
  <1>7. \A m \in messages : m.group = g.id => m.complete = FALSE /\ m.modem = g.key.modem
    BY Zenon DEF ChosenGroup
  <1>8. \A m \in messages : \/ Single(m) \/ m.group = g.id
                            \/ \E h \in groups \cup {g} : OfGroup(m, h, ss)
    BY <1>5, <1>6, Zenon DEF OfGroup
  <1>9. CASE Cardinality(Content(ss, g.id)) >= g.key.total
    <2>1. ms = PublishGroups({g}, ss)
      BY <1>9, Zenon DEF PublishIfComplete
    <2>2. {g} \in SUBSET (groups \cup {g})
      BY Zenon
    <2>3. Showing(groups, segments, messages)
      BY Zenon DEF Inv
    <2> DEFINE gs == groups \cup {g}
               pub == {g}
    <2>4. /\ \A m \in messages, h \in pub : m.group = h.id => m.modem = h.key.modem
          /\ \A m \in messages : \/ Single(m) \/ \E h \in pub : m.group = h.id
                                 \/ \E h \in gs : OfGroup(m, h, ss)
          /\ Grouping(gs, ss) /\ pub \in SUBSET gs
      BY <1>1, <1>7, <1>8, Zenon
    <2>5. /\ Showing(gs, ss, PublishGroups(pub, ss))
          /\ \A m \in messages : (\A h \in pub : m.group # h.id) => m \in PublishGroups(pub, ss)
          /\ \A n \in PublishGroups(pub, ss) : n \in messages \/ \E h \in pub : Shows(n, h, ss)
      <3> HIDE DEF gs, pub
      <3> QED BY <2>3, <2>4, Published, Zenon
    <2> QED BY <2>1, <2>5, Zenon
  <1>10. CASE ~(Cardinality(Content(ss, g.id)) >= g.key.total)
    <2>1. ms = messages
      BY <1>10, Zenon DEF PublishIfComplete
    <2>2. \A m \in messages : m.group = g.id => OfGroup(m, g, ss)
      <3> SUFFICES ASSUME NEW m \in messages, m.group = g.id PROVE OfGroup(m, g, ss)
        BY Zenon
      <3>1. m.complete = FALSE /\ m.modem = g.key.modem
        BY <1>7, Zenon
      <3>2. m.content \subseteq Content(segments, g.id)
        <4>1. ~Single(m)
          BY <3>1, Zenon DEF Single
        <4> QED BY <1>6, <4>1, Zenon DEF OfGroup
      <3>3. m.complete = (Cardinality(Content(ss, g.id)) >= g.key.total)
        <4> DEFINE many == Cardinality(Content(ss, g.id)) >= g.key.total
        <4>1. many \in BOOLEAN /\ ~many
          BY <1>10
        <4> HIDE DEF many
        <4>2. m.complete = many
          BY <3>1, <4>1, Zenon
        <4> QED BY <4>2, Zenon DEF many
      <3>4. m.content \subseteq Content(ss, g.id) /\ ~m.complete
        BY <1>4, <3>1, <3>2, Zenon
      <3> QED BY <3>1, <3>3, <3>4, Zenon DEF OfGroup
    <2>3. \A m \in messages : Single(m) \/ \E h \in groups \cup {g} : OfGroup(m, h, ss)
      BY <1>8, <2>2, Zenon
    <2> QED BY <2>1, <2>3, Zenon DEF Inv, Showing
  <1> QED BY <1>9, <1>10, Zenon

LEMMA ImportPartInv == ASSUME NEW e, Inv, ImportPart(e) PROVE Inv'
  <1>1. /\ e \in listing /\ pc = "importing" /\ AfterImport(e) /\ SourcesOf(e) = {}
        /\ Message[e.pdu].total > 1 /\ ~Malformed(e.pdu) /\ imported' = imported \cup {e.pdu}
    BY Zenon DEF ImportPart
  <1>u. UNCHANGED deleted
    BY <1>1, Zenon DEF AfterImport
  <1>2. e.pdu \in Pdus \ imported
    BY <1>1, Fresh, Zenon
  <1>3. PICK g \in IF Joinable(e.pdu) # {} THEN Joinable(e.pdu)
                   ELSE {[id |-> NextId, key |-> GroupKey(e.pdu), expired |-> FALSE,
                          old |-> FALSE]} :
             /\ segments' = WithPart(g, e) /\ groups' = groups \cup {g}
             /\ messages' = PublishIfComplete(g, segments')
    BY Zenon DEF ImportPart, WithPart
  <1>4. ChosenGroup(g, e.pdu)
    BY <1>2, <1>3, GroupChosen, Zenon
  <1>5. Grouping(groups', segments')
    BY <1>1, <1>3, <1>4, PartGrouped, Zenon
  <1>6. /\ Showing(groups', segments', messages')
        /\ \A n \in messages' : n \in messages \/ Shows(n, g, segments')
    BY <1>1, <1>3, <1>4, PartShown, Zenon
  <1>7. Located' /\ Known' /\ Listed'
    <2>1. sources' = (sources \ SourcesOf(e)) \cup {NewSource(e)}
      BY <1>1, Zenon DEF ImportPart
    <2> QED BY <1>1, <2>1, Committed, Zenon
  <1>8. Books'
    <2>1. \A s \in segments' : s \in segments \/ s.pdu = e.pdu
      BY <1>3 DEF WithPart
    <2>2. \A n \in messages' : n \in messages \/ n.content = {s.pdu : s \in {t \in segments' : t.group = g.id}}
      BY <1>6, Zenon DEF Shows, Content
    <2>3. \A p \in deleted : p # e.pdu /\ ~Stored(p)
      BY <1>2, Zenon DEF Inv, Books
    <2>4. \A p \in deleted : ~Stored(p)'
      BY <2>1, <2>2, <2>3 DEF Stored
    <2>5. \A s \in segments' : s.pdu \in imported'
      BY <1>1, <2>1, Zenon DEF Inv, Books
    <2>6. \A n \in messages' : n.content \subseteq imported'
      <3>1. \A n \in messages : n.content \subseteq imported'
        BY <1>1, Zenon DEF Inv, Books
      <3>2. {s.pdu : s \in {t \in segments' : t.group = g.id}} \subseteq imported'
        BY <2>5, Zenon
      <3> QED BY <2>2, <3>1, <3>2, Zenon
    <2> QED BY <1>1, <1>u, <2>4, <2>5, <2>6, Zenon DEF Inv, Books
  <1> QED BY <1>5, <1>6, <1>7, <1>8, Zenon DEF Inv

LEMMA DeleteFromModemInv == Inv /\ DeleteFromModem => Inv'
  <1> SUFFICES ASSUME Inv, DeleteFromModem PROVE Inv'
    OBVIOUS
  <1>u. /\ UNCHANGED <<arrived, sources, groups, segments, messages, modem, listing, entry>>
        /\ UNCHANGED <<imported, deleted>> /\ pc = "deleting" /\ pc' = "importing"
    BY DEF DeleteFromModem, dbVars, history
  <1>1. modem \in Modems /\ entry.index \in Indices /\ Free \notin Pdus
    BY <1>u, MessageAssumption, Zenon DEF Inv, Listed
  <1>s. sim \in [Modems -> [Indices -> Pdus \cup {Free}]]
    BY Zenon DEF Inv, Located
  <1>2. \/ sim' = sim
        \/ sim' = [sim EXCEPT ![modem][entry.index] = Free]
    BY DEF DeleteFromModem
  <1>3. /\ sim' \in [Modems -> [Indices -> Pdus \cup {Free}]]
        /\ \A n \in Modems, j \in Indices :
              sim'[n][j] = sim[n][j] \/ (n = modem /\ j = entry.index /\ sim'[n][j] = Free)
    BY <1>1, <1>2, <1>s
  <1>4. Located'
    BY <1>u, <1>3 DEF Inv, Located
  <1>5. Free \notin imported
    BY <1>1, Zenon DEF Inv, Known
  <1>6. Known'
    <2>1. \A n \in Modems, i \in Indices : sim'[n][i] \in imported =>
             \E s \in sources : s.modem = n /\ s.index = i /\ s.pdu = sim'[n][i]
      BY <1>3, <1>5 DEF Inv, Known
    <2>2. \A s \in sources : s.index \in Indices /\ s.pdu # Free
      BY <1>1 DEF Inv, Known, SourceRow
    <2>3. \A s \in sources : s.modem = modem /\ sim'[modem][s.index] = s.pdu =>
              s.seen = TRUE \/ [index |-> s.index, pdu |-> s.pdu] \in listing
      BY <1>u, <1>1, <1>3, <2>2 DEF Inv, Known
    <2> QED BY <1>u, <2>1, <2>3 DEF Inv, Known
  <1>7. Listed'
    <2>1. \A e \in listing : sim'[modem][e.index] = e.pdu
      <3> SUFFICES ASSUME NEW e \in listing PROVE sim'[modem][e.index] = e.pdu
        BY Zenon
      <3>1. e.index \in Indices /\ sim[modem][e.index] = e.pdu /\ e \in [index : Indices, pdu : Pdus]
        BY Zenon DEF Inv, Listed
      <3>2. entry \in [index : Indices, pdu : Pdus] /\ sim[modem][entry.index] = entry.pdu /\ e # entry
        BY <1>u, Zenon DEF Inv, Listed
      <3>3. e.index # entry.index
        BY <3>1, <3>2
      <3> QED BY <1>1, <1>3, <3>1, <3>3, Zenon
    <2> QED BY <1>u, <2>1, Zenon DEF Inv, Listed
  <1>8. Books' /\ Grouping(groups, segments)' /\ Showing(groups, segments, messages)'
    BY <1>u, Zenon DEF Inv, Books, Stored
  <1> QED BY <1>4, <1>6, <1>7, <1>8 DEF Inv

\* the groups publish_expired is called for
Due == {g \in groups : g.key.modem = modem /\ g.expired /\ Unfinished(g)}

LEMMA ExpiredShown ==
    ASSUME Inv, PublishExpired
    PROVE  /\ Showing(groups, segments, messages')
           /\ \A g \in Due : \E n \in messages' : n.group = g.id /\ n.content = Content(segments, g.id)
           /\ \A m \in messages : (\A g \in Due : m.group # g.id) => m \in messages'
           /\ \A n \in messages' : n \in messages \/ \E g \in Due : Shows(n, g, segments)
  <1>1. messages' = PublishGroups(Due, segments)
    BY DEF PublishExpired, Due
  <1>2. Due \in SUBSET groups /\ Grouping(groups, segments) /\ Showing(groups, segments, messages)
    BY Zenon DEF Due, Inv
  <1>3. \A m \in messages, g \in groups : m.group = g.id => m.modem = g.key.modem
    <2>1. \A g \in groups : g.id # 0
      BY <1>2, Zenon DEF Grouping, GroupRow
    <2> QED BY <1>2, <2>1 DEF Grouping, Showing, Single, OfGroup
  <1>4. \A m \in messages, g \in Due : m.group = g.id => m.modem = g.key.modem
    BY <1>2, <1>3, Zenon
  <1>5. \A m \in messages : \/ Single(m)
                            \/ \E g \in Due : m.group = g.id
                            \/ \E g \in groups : OfGroup(m, g, segments)
    BY <1>2 DEF Showing
  <1> HIDE DEF Due
  <1> QED BY <1>1, <1>2, <1>4, <1>5, Published, Zenon

LEMMA PublishExpiredInv == Inv /\ PublishExpired => Inv'
  <1> SUFFICES ASSUME Inv, PublishExpired PROVE Inv'
    OBVIOUS
  <1>u. /\ UNCHANGED <<sim, arrived, sources, groups, segments, modem, listing, entry>>
        /\ UNCHANGED <<imported, deleted>> /\ pc = "importing" /\ pc' = "finishing" /\ listing = {}
    BY Zenon DEF PublishExpired, simVars, history
  <1>1. /\ Showing(groups, segments, messages')
        /\ \A n \in messages' : n \in messages \/ \E g \in Due : Shows(n, g, segments)
    BY ExpiredShown, Zenon
  <1>2. Grouping(groups, segments)' /\ Showing(groups, segments, messages)'
    BY <1>u, <1>1, Zenon DEF Inv
  <1>3. Located' /\ Known' /\ Listed'
    BY <1>u, Settled, Zenon
  <1>4. Books'
    <2>1. \A n \in messages' : \A p \in n.content : Stored(p)
      <3> SUFFICES ASSUME NEW n \in messages', NEW p \in n.content PROVE Stored(p)
        OBVIOUS
      <3>1. CASE n \in messages
        BY <3>1 DEF Stored
      <3>2. ASSUME NEW g \in Due, Shows(n, g, segments) PROVE Stored(p)
        <4>1. p \in Content(segments, g.id)
          BY <3>2, Zenon DEF Shows
        <4> QED BY <4>1 DEF Content, Stored
      <3> QED BY <1>1, <3>1, <3>2, Zenon
    <2>2. \A p : Stored(p) => p \in imported
      BY Zenon DEF Stored, Inv, Books
    <2>3. \A p : Stored(p)' => Stored(p)
      BY <1>u, <2>1, Zenon DEF Stored
    <2> QED BY <1>u, <2>1, <2>2, <2>3, Zenon DEF Inv, Books
  <1> QED BY <1>2, <1>3, <1>4 DEF Inv

LEMMA FinishScanInv == Inv /\ FinishScan => Inv'
  <1> SUFFICES ASSUME Inv, FinishScan PROVE Inv'
    OBVIOUS
  <1>u. /\ UNCHANGED <<sim, arrived, groups, segments, messages, modem, listing, entry>>
        /\ UNCHANGED <<imported, deleted>> /\ pc = "finishing" /\ pc' = "pruning"
        /\ sources' = {s \in sources : s.modem # modem \/ s.seen \/ Referred(s, segments)}
    BY Zenon DEF FinishScan, simVars, history
  <1>1. listing = {} /\ modem \in Modems
    BY <1>u, Zenon DEF Inv, Listed
  <1>2. \A s \in sources : s.modem = modem /\ sim[modem][s.index] = s.pdu => s.seen = TRUE
    BY <1>u, <1>1, Zenon DEF Inv, Known
  <1>3. Known'
    <2>1. \A n \in Modems, i \in Indices : sim[n][i] \in imported =>
             \E s \in sources' : s.modem = n /\ s.index = i /\ s.pdu = sim[n][i]
      <3> SUFFICES ASSUME NEW n \in Modems, NEW i \in Indices, sim[n][i] \in imported
                   PROVE  \E s \in sources' : s.modem = n /\ s.index = i /\ s.pdu = sim[n][i]
        BY Zenon
      <3>1. PICK s \in sources : s.modem = n /\ s.index = i /\ s.pdu = sim[n][i]
        BY Zenon DEF Inv, Known
      <3>2. s.modem # modem \/ s.seen
        BY <1>2, <3>1, Zenon
      <3> QED BY <1>u, <3>1, <3>2, Zenon
    <2> QED BY <1>u, <2>1 DEF Inv, Known
  <1>4. Located' /\ Listed'
    <2>1. Located'
      BY <1>u, Zenon DEF Inv, Located
    <2>2. Listed'
      BY <1>u, <1>1, Zenon DEF Inv, Listed
    <2> QED BY <2>1, <2>2
  <1>5. Books' /\ Grouping(groups, segments)' /\ Showing(groups, segments, messages)'
    BY <1>u, Zenon DEF Inv, Books, Stored
  <1> QED BY <1>3, <1>4, <1>5 DEF Inv

\* fewer rows are stored: what is left was imported and was not deleted
LEMMA FewerStored ==
    ASSUME Inv, messages' \subseteq messages, segments' \subseteq segments,
           UNCHANGED <<imported, deleted>>
    PROVE  Books'
  BY Zenon DEF Inv, Books, Stored

LEMMA PruneInv == Inv /\ Prune => Inv'
  <1> SUFFICES ASSUME Inv, Prune PROVE Inv'
    OBVIOUS
  <1> DEFINE mine == {m \in messages : m.modem = modem}
             left(k) == (messages \ mine) \cup k
             orphans(k) == {g \in groups : g.old /\ \A m \in left(k) : m.group # g.id}
  <1>u. /\ UNCHANGED <<sim, arrived, modem, listing, entry, imported, deleted>>
        /\ pc = "pruning" /\ pc' = "idle"
        /\ \E rows \in SUBSET Gone(segments') : sources' = sources \ rows
    BY Zenon DEF Prune, simVars
  <1>1. PICK k \in Kept(mine) :
             /\ messages' = left(k) /\ groups' = groups \ orphans(k)
             /\ segments' = {s \in segments : \A g \in orphans(k) : g.id # s.group}
    BY Zenon DEF Prune
  <1>2. left(k) \in SUBSET messages
    BY DEF Kept
  <1>3. orphans(k) \in SUBSET groups /\ \A m \in left(k), g \in orphans(k) : m.group # g.id
    BY Zenon
  <1>4. Grouping(groups, segments) /\ Showing(groups, segments, messages)
    BY DEF Inv
  <1> HIDE DEF left, orphans
  <1>5. Grouping(groups', segments') /\ Showing(groups', segments', messages')
    BY <1>1, <1>2, <1>3, <1>4, Dropped, Zenon
  <1>6. Books'
    BY <1>u, <1>1, <1>2, FewerStored, Zenon
  <1>7. Located' /\ Listed'
    <2>1. listing = {} /\ Located /\ Listed
      BY <1>u, Zenon DEF Inv, Listed
    <2>2. Located'
      BY <1>u, <2>1, Zenon DEF Located
    <2>3. Listed'
      BY <1>u, <2>1, Zenon DEF Listed
    <2> QED BY <2>2, <2>3
  <1>8. Known'
    <2>1. Known
      BY DEF Inv
    <2>2. /\ sources' \subseteq sources
          /\ \A s \in sources : sim[s.modem][s.index] = s.pdu => s \in sources'
      BY <1>u, Zenon DEF Gone
    <2>3. \A n \in Modems, i \in Indices : sim[n][i] \in imported =>
             \E s \in sources' : s.modem = n /\ s.index = i /\ s.pdu = sim[n][i]
      <3> SUFFICES ASSUME NEW n \in Modems, NEW i \in Indices, sim[n][i] \in imported
                   PROVE  \E s \in sources' : s.modem = n /\ s.index = i /\ s.pdu = sim[n][i]
        BY Zenon
      <3>1. PICK s \in sources : s.modem = n /\ s.index = i /\ s.pdu = sim[n][i]
        BY <2>1, Zenon DEF Known
      <3> QED BY <2>2, <3>1, Zenon
    <2>4. /\ sources' \subseteq SourceRow /\ imported' \subseteq arrived' /\ arrived' \subseteq Pdus
          /\ \A s \in sources' : s.pdu \in imported'
      BY <1>u, <2>1, <2>2 DEF Known
    <2>5. pc' \notin {"importing", "deleting", "finishing"}
      BY <1>u
    <2>6. \A n \in Modems, i \in Indices : sim'[n][i] \in imported' =>
             \E s \in sources' : s.modem = n /\ s.index = i /\ s.pdu = sim'[n][i]
      BY <1>u, <2>3
    <2> QED BY <2>4, <2>5, <2>6 DEF Known
  <1> QED BY <1>5, <1>6, <1>7, <1>8, Zenon DEF Inv

LEMMA GiveUpInv == Inv /\ GiveUp => Inv'
  <1> SUFFICES ASSUME Inv, GiveUp PROVE Inv'
    OBVIOUS
  <1>u. /\ UNCHANGED <<sim, arrived, sources, groups, segments, messages, modem, imported, deleted>>
        /\ pc' = "idle" /\ listing' = {}
    BY Zenon DEF GiveUp, simVars, dbVars, history
  <1>1. Located' /\ Known' /\ Listed'
    BY <1>u, Settled, Zenon
  <1>2. Books' /\ Grouping(groups, segments)' /\ Showing(groups, segments, messages)'
    BY <1>u, Zenon DEF Inv, Books, Stored
  <1> QED BY <1>1, <1>2, Zenon DEF Inv

\* a stored part is in one group and in one message, which is that of its group
LEMMA HeldOnce ==
    ASSUME Inv
    PROVE  /\ \A m \in messages, s \in segments : s.pdu \in m.content =>
                 ~Single(m) /\ s.group = m.group
           /\ \A m, n \in messages : \A p \in m.content : p \in n.content => m = n
  <1>1. Grouping(groups, segments) /\ Showing(groups, segments, messages)
    BY DEF Inv
  <1>2. \A s, t \in segments : s.pdu = t.pdu => s = t
    BY <1>1, Zenon DEF Grouping
  <1>3. \A m \in messages, s \in segments : s.pdu \in m.content =>
           ~Single(m) /\ s.group = m.group
    <2> SUFFICES ASSUME NEW m \in messages, NEW s \in segments, s.pdu \in m.content
                 PROVE  ~Single(m) /\ s.group = m.group
      BY Zenon
    <2>1. ~Single(m)
      BY <1>1 DEF Grouping, Single
    <2>2. PICK g \in groups : OfGroup(m, g, segments)
      BY <1>1, <2>1, Zenon DEF Showing
    <2>3. PICK t \in segments : t.group = m.group /\ t.pdu = s.pdu
      BY <2>2, Zenon DEF OfGroup, Content
    <2> QED BY <1>2, <2>1, <2>3, Zenon
  <1>4. \A m, n \in messages : \A p \in m.content : p \in n.content => m = n
    <2> SUFFICES ASSUME NEW m \in messages, NEW n \in messages, NEW p \in m.content, p \in n.content
                 PROVE  m = n
      OBVIOUS
    <2>1. CASE Single(m) /\ Single(n)
      <3>1. m.content = {p} /\ n.content = {p} /\ m.group = n.group
        BY <2>1, Zenon DEF Single
      <3> QED BY <1>1, <3>1, Zenon DEF Showing
    <2>2. ASSUME NEW x \in messages, ~Single(x), p \in x.content
          PROVE  \E s \in segments : s.pdu = p /\ s.group = x.group
      <3>1. PICK g \in groups : OfGroup(x, g, segments)
        BY <1>1, <2>2, Zenon DEF Showing
      <3> QED BY <2>2, <3>1, Zenon DEF OfGroup, Content
    <2>3. CASE ~Single(m) \/ ~Single(n)
      <3>1. PICK s \in segments : s.pdu = p
        BY <2>2, <2>3, Zenon
      <3>2. s.group = m.group /\ s.group = n.group
        BY <1>3, <3>1
      <3>3. s.group # 0
        BY <1>1, Zenon DEF Grouping, SegmentRow
      <3> QED BY <1>1, <3>2, <3>3, Zenon DEF Showing
    <2> QED BY <2>1, <2>3
  <1> QED BY <1>3, <1>4, Zenon

\* rows, groups and their segments are deleted, and with them the parts of more
Removing(gone, ms, more) ==
    /\ gone \subseteq groups /\ ms \subseteq messages
    /\ \A m \in messages \ ms, g \in gone : m.group # g.id
    /\ \A m \in ms : Single(m) \/ \E g \in gone : OfGroup(m, g, segments)
    /\ messages' = messages \ ms /\ groups' = groups \ gone
    /\ segments' = {s \in segments : \A g \in gone : g.id # s.group}
    /\ \A p \in more : \/ \E m \in ms : p \in m.content
                       \/ \E s \in segments : s.pdu = p /\ \E g \in gone : g.id = s.group
    /\ deleted' = deleted \cup more
    /\ UNCHANGED <<simVars, sources, syncVars, imported, retired>>

\* That keeps the invariant: what is deleted is stored in no other message and in no
\* other group.
LEMMA RemovedInv ==
    ASSUME Inv, NEW gone, NEW ms, NEW more, Removing(gone, ms, more)
    PROVE  Inv'
  <1> USE DEF Removing
  <1>u. UNCHANGED <<sim, arrived, sources, pc, modem, listing, entry, imported>>
    BY Zenon DEF simVars, syncVars
  <1>1. Grouping(groups, segments) /\ Showing(groups, segments, messages)
    BY Zenon DEF Inv
  <1>2. Grouping(groups', segments') /\ Showing(groups', segments', messages')
    <2>1. messages' \in SUBSET messages
      BY Zenon
    <2> QED BY <1>1, <2>1, Dropped, Zenon
  <1>3. Located' /\ Known' /\ Listed'
    BY <1>u, Settled, Zenon
  <1>4. \A s, t \in segments : s.pdu = t.pdu => s = t
    BY <1>1, Zenon DEF Grouping
  <1>5. \A m \in messages, s \in segments : s.pdu \in m.content =>
           ~Single(m) /\ s.group = m.group
    BY HeldOnce, Zenon
  <1>6. \A m, n \in messages : \A p \in m.content : p \in n.content => m = n
    BY HeldOnce, Zenon
  <1>7. Books'
    <2>1. \A p \in more : ~Stored(p)'
      <3> SUFFICES ASSUME NEW p \in more PROVE ~Stored(p)'
        BY Zenon
      <3>1. CASE \E m \in ms : p \in m.content
        <4>1. PICK m \in ms : p \in m.content
          BY <3>1, Zenon
        <4>2. \A n \in messages' : p \notin n.content
          BY <1>6, <4>1, Zenon
        <4>3. \A s \in segments' : s.pdu # p
          <5> SUFFICES ASSUME NEW s \in segments', s.pdu = p PROVE FALSE
            BY Zenon
          <5>1. ~Single(m) /\ s.group = m.group
            BY <1>5, <4>1, Zenon
          <5> QED BY <5>1 DEF OfGroup
        <4> QED BY <4>2, <4>3, Zenon DEF Stored
      <3>2. CASE \E s \in segments : s.pdu = p /\ \E g \in gone : g.id = s.group
        <4>1. PICK s \in segments, g \in gone : s.pdu = p /\ g.id = s.group
          BY <3>2, Zenon
        <4>2. \A t \in segments' : t.pdu # p
          BY <1>4, <4>1, Zenon
        <4>3. \A n \in messages' : p \notin n.content
          BY <1>5, <4>1
        <4> QED BY <4>2, <4>3, Zenon DEF Stored
      <3> QED BY <3>1, <3>2, Zenon
    <2>2. more \subseteq imported
      BY Zenon DEF Inv, Books
    <2>3. \A p : Stored(p)' => Stored(p)
      BY Zenon DEF Stored
    <2>4. \A p \in deleted' : ~Stored(p)'
      BY <2>1, <2>3, Zenon DEF Inv, Books
    <2> QED BY <1>u, <2>2, <2>4, Zenon DEF Inv, Books
  <1> QED BY <1>2, <1>3, <1>7, Zenon DEF Inv

LEMMA DeleteMessageInv == Inv /\ DeleteMessage => Inv'
  <1> SUFFICES ASSUME Inv, DeleteMessage PROVE Inv'
    OBVIOUS
  <1>1. PICK m \in messages : Remove({m})
    BY DEF DeleteMessage
  <1> DEFINE gone == {g \in groups : g.id = m.group}
             more == m.content \cup Content(segments, m.group)
  <1>2. messages' = messages \ {m} /\ groups' = groups \ gone /\ deleted' = deleted \cup more
    <2>1. messages' = messages \ {m} /\ groups' = groups \ gone
      BY <1>1, Zenon DEF Remove
    <2>2. deleted' = deleted \cup (UNION {n.content : n \in {m}})
                            \cup (UNION {Content(segments, n.group) : n \in {m}})
      BY <1>1, Zenon DEF Remove
    <2>3. UNION {n.content : n \in {m}} = m.content
      OBVIOUS
    <2>4. UNION {Content(segments, n.group) : n \in {m}} = Content(segments, m.group)
      OBVIOUS
    <2> QED BY <2>1, <2>2, <2>3, <2>4, Zenon
  <1>3. Grouping(groups, segments) /\ Showing(groups, segments, messages)
    BY DEF Inv
  <1>4. \A s \in segments : \E g \in groups : g.id = s.group
    BY <1>3, Zenon DEF Grouping
  <1>5. segments' = {s \in segments : \A g \in gone : g.id # s.group}
    <2>1. segments' = {s \in segments : m.group # s.group}
      BY <1>1, Zenon DEF Remove
    <2> QED BY <1>4, <2>1, Zenon
  <1>6. \A n \in messages \ {m}, g \in gone : n.group # g.id
    <2>1. \A g \in gone : g.id # 0
      BY <1>3, Zenon DEF Grouping, GroupRow
    <2> QED BY <1>3, <2>1, Zenon DEF Showing
  <1>7. Single(m) \/ \E g \in gone : OfGroup(m, g, segments)
    BY <1>3, Zenon DEF Showing, OfGroup
  <1>8. \A p \in more : \/ p \in m.content
                        \/ \E s \in segments : s.pdu = p /\ \E g \in gone : g.id = s.group
    BY <1>4, Zenon DEF Content
  <1>9. UNCHANGED <<simVars, sources, syncVars, imported, retired>>
    BY DEF DeleteMessage
  <1>10. gone \in SUBSET groups
    OBVIOUS
  <1> HIDE DEF gone, more
  <1> DEFINE ms == {m}
  <1>11. /\ ms \in SUBSET messages /\ messages' = messages \ ms
         /\ \A n \in messages \ ms, g \in gone : n.group # g.id
         /\ \A n \in ms : Single(n) \/ \E g \in gone : OfGroup(n, g, segments)
         /\ \A p \in more : \/ \E n \in ms : p \in n.content
                            \/ \E s \in segments : s.pdu = p /\ \E g \in gone : g.id = s.group
    BY <1>2, <1>6, <1>7, <1>8, Zenon
  <1> HIDE DEF ms
  <1>12. Removing(gone, ms, more)
    BY <1>2, <1>5, <1>9, <1>10, <1>11, Zenon DEF Removing
  <1> QED BY <1>12, RemovedInv, Zenon

LEMMA DeleteModemMessagesInv == Inv /\ DeleteModemMessages => Inv'
  <1> SUFFICES ASSUME Inv, DeleteModemMessages PROVE Inv'
    OBVIOUS
  <1> DEFINE gone(m) == {g \in groups : g.key.modem = m}
             ms(m) == {x \in messages : x.modem = m}
             more == (UNION {x.content : x \in messages \ messages'})
                       \cup {s.pdu : s \in segments \ segments'}
  <1>1. PICK m \in Modems :
             /\ messages' = messages \ ms(m) /\ groups' = groups \ gone(m)
             /\ segments' = {s \in segments : \A g \in gone(m) : g.id # s.group}
             /\ deleted' = deleted \cup more
    BY Zenon DEF DeleteModemMessages
  <1>2. Grouping(groups, segments) /\ Showing(groups, segments, messages)
    BY Zenon DEF Inv
  <1>3. \A x \in messages \ ms(m), g \in gone(m) : x.group # g.id
    <2>1. \A g \in groups : g.id # 0
      BY <1>2, Zenon DEF Grouping, GroupRow
    <2> QED BY <1>2, <2>1 DEF Grouping, Showing, Single, OfGroup
  <1>4. \A x \in ms(m) : Single(x) \/ \E g \in gone(m) : OfGroup(x, g, segments)
    BY <1>2 DEF Showing, OfGroup
  <1>5. \A p \in more : \/ \E x \in ms(m) : p \in x.content
                        \/ \E s \in segments : s.pdu = p /\ \E g \in gone(m) : g.id = s.group
    <2>1. \A x \in messages \ messages' : x \in ms(m)
      BY <1>1, Zenon
    <2>2. \A s \in segments \ segments' : \E g \in gone(m) : g.id = s.group
      BY <1>1, Zenon
    <2>3. \A p \in more : \/ \E x \in messages \ messages' : p \in x.content
                          \/ \E s \in segments \ segments' : p = s.pdu
      BY Zenon
    <2> HIDE DEF ms, gone, more
    <2> QED BY <2>1, <2>2, <2>3, Zenon
  <1>6. UNCHANGED <<simVars, sources, syncVars, imported, retired>>
    BY Zenon DEF DeleteModemMessages
  <1>7. gone(m) \in SUBSET groups /\ ms(m) \in SUBSET messages
    BY Zenon
  <1> HIDE DEF gone, ms, more
  <1>8. Removing(gone(m), ms(m), more)
    BY <1>1, <1>3, <1>4, <1>5, <1>6, <1>7, Zenon DEF Removing
  <1> QED BY <1>8, RemovedInv

LEMMA NextInv == Inv /\ [Next]_vars => Inv'
  <1> SUFFICES ASSUME Inv, [Next]_vars PROVE Inv'
    OBVIOUS
  <1>1. CASE Arrive
    BY <1>1, ArriveInv
  <1>2. CASE PassMultipartWait \/ PassLateWindow
    BY <1>2, PassInv
  <1>3. CASE Sync
    <2>1. CASE Import
      BY <2>1, ImportDuplicateInv, ImportSingleInv, ImportPartInv, GiveUpInv DEF Import, RejectPart
    <2> QED BY <1>3, <2>1, BeginSyncInv, DeleteFromModemInv, PublishExpiredInv, FinishScanInv,
              PruneInv DEF Sync
  <1>4. CASE Abort
    BY <1>4, GiveUpInv DEF Abort
  <1>5. CASE DeleteMessage \/ DeleteModemMessages
    BY <1>5, DeleteMessageInv, DeleteModemMessagesInv
  <1>6. CASE UNCHANGED vars
    <2>1. UNCHANGED <<sim, arrived, sources, groups, segments, messages, pc, modem, listing, entry,
                      imported, deleted>>
      BY <1>6, Zenon DEF vars, simVars, dbVars, syncVars, history
    <2>2. Located' /\ Known' /\ Listed'
      BY <2>1, Settled, Zenon
    <2>3. Books' /\ Grouping(groups, segments)' /\ Showing(groups, segments, messages)'
      BY <2>1, Zenon DEF Inv, Books, Stored
    <2> QED BY <2>2, <2>3, Zenon DEF Inv
  <1> QED BY <1>1, <1>2, <1>3, <1>4, <1>5, <1>6, Zenon DEF Next

LEMMA InvHolds == Spec => []Inv
  BY InitInv, NextInv, PTL DEF Spec
-------------------------------------------------------------------------------
(* What follows from it                                                    *)

\* NoDuplicateText for every number of modems and messages: sms_db_import_segment
\* commits a part once however often it is listed, so that no part is ever shown in
\* two messages, across crashes, failed deletions and forgotten source rows.
THEOREM NeverShownTwice == Spec => []NoDuplicateText
  <1>1. Inv => NoDuplicateText
    BY HeldOnce, Zenon DEF NoDuplicateText
  <1> QED BY <1>1, InvHolds, PTL

\* DeletedStaysDeleted for every number of modems and messages: what delete_method or
\* modem_delete_method removed is not imported again while the modem still stores it.
THEOREM NeverComesBack == Spec => []DeletedStaysDeleted
  <1>1. Inv => DeletedStaysDeleted
    BY Zenon DEF Inv, Books, Stored, DeletedStaysDeleted
  <1> QED BY <1>1, InvHolds, PTL

LEMMA Counted == \A n \in Nat : IsFiniteSet(1..n) /\ Cardinality(1..n) = n
  <1> TAKE n \in Nat
  <1>1. 1 \in Int /\ n \in Int
    OBVIOUS
  <1>2. IsFiniteSet(1..n) /\ Cardinality(1..n) = IF 1 > n THEN 0 ELSE n - 1 + 1
    BY <1>1, FS_Interval, Zenon
  <1> QED BY <1>2

\* the parts of a group have different numbers, and no more than its message has
LEMMA PartsCounted ==
    ASSUME Inv, NEW g \in groups, NEW C, C = Content(segments, g.id)
    PROVE  /\ [p \in C |-> Part[p]] \in Injection(C, 1..g.key.total) /\ g.key.total \in Nat \ {0}
           /\ IsFiniteSet(C) /\ Cardinality(C) \in Nat /\ Cardinality(C) <= g.key.total
           /\ \A p \in C : /\ p \in Pdus /\ ~Malformed(p)
                          /\ GroupKey(p) = g.key /\ Message[p].total > 1
  <1>1. /\ groups \subseteq GroupRow /\ \A x, y \in groups : x.id = y.id => x = y
        /\ segments \subseteq SegmentRow
        /\ \A s \in segments : Message[s.pdu].total > 1 /\ ~Malformed(s.pdu)
        /\ \A s \in segments : \E h \in groups : h.id = s.group /\ h.key = GroupKey(s.pdu)
        /\ \A s, t \in segments : s.group = t.group /\ Part[s.pdu] = Part[t.pdu] => s = t
    BY Zenon DEF Inv, Grouping
  <1>2. \A p \in C : \E s \in segments : s.pdu = p /\ s.group = g.id
    BY Zenon DEF Content
  <1>3. \A p \in C : p \in Pdus /\ ~Malformed(p) /\ GroupKey(p) = g.key /\ Message[p].total > 1
    BY <1>1, <1>2 DEF SegmentRow
  <1>4. g.key.total \in Nat \ {0}
    BY <1>1, MessageAssumption DEF GroupRow, GroupKey
  <1>5. \A p \in C : Part[p] \in 1..g.key.total
    <2>1. \A p \in C : Message[p].total = g.key.total
      <3>1. \A p \in C : GroupKey(p).total = g.key.total
        BY <1>3, Zenon
      <3> QED BY <3>1, Zenon DEF GroupKey
    <2>2. \A p \in C : Part[p] \in 1..Message[p].total
      BY <1>3, Zenon DEF Malformed
    <2> QED BY <2>1, <2>2, Zenon
  <1>6. \A p, q \in C : Part[p] = Part[q] => p = q
    BY <1>1, <1>2
  <1> DEFINE f == [p \in C |-> Part[p]]
             N == 1..g.key.total
  <1>7. f \in Injection(C, N)
    <2>1. f \in [C -> N] /\ \A p, q \in C : f[p] = f[q] => p = q
      BY <1>5, <1>6, Zenon
    <2> HIDE DEF f, N
    <2> QED BY <2>1 DEF Injection, IsInjective
  <1>8. IsFiniteSet(N) /\ Cardinality(N) = g.key.total
    BY <1>4, Counted, Zenon
  <1> HIDE DEF f, N
  <1>9. IsFiniteSet(C) /\ Cardinality(C) <= g.key.total
    BY <1>7, <1>8, FS_Injection
  <1>10. Cardinality(C) \in Nat
    BY <1>9, FS_CardinalityType, Zenon
  <1> QED BY <1>3, <1>4, <1>7, <1>9, <1>10, Zenon DEF f, N

\* a group that has as many parts as its message has all of them
LEMMA AllThere ==
    ASSUME DistinctMessages, Inv, NEW g \in groups, NEW C, C = Content(segments, g.id),
           Cardinality(C) >= g.key.total
    PROVE  C = {p \in Pdus : ~Malformed(p) /\ \E q \in C : Message[p] = Message[q]}
  <1> DEFINE f == [p \in C |-> Part[p]]
             N == 1..g.key.total
  <1>1. /\ f \in Injection(C, N) /\ g.key.total \in Nat \ {0}
        /\ IsFiniteSet(C) /\ Cardinality(C) \in Nat /\ Cardinality(C) <= g.key.total
        /\ \A p \in C : p \in Pdus /\ ~Malformed(p) /\ GroupKey(p) = g.key /\ Message[p].total > 1
    BY PartsCounted, Zenon
  <1>2. IsFiniteSet(N) /\ Cardinality(N) = Cardinality(C)
    <2>1. IsFiniteSet(N) /\ Cardinality(N) = g.key.total
      BY <1>1, Counted, Zenon
    <2> QED BY <1>1, <2>1
  <1>3. f \in Surjection(C, N)
    <2> HIDE DEF f, N
    <2> QED BY <1>1, <1>2, FS_Injection, Zenon
  <1>4. ASSUME NEW p \in Pdus, ~Malformed(p), NEW q \in C, Message[p] = Message[q] PROVE p \in C
    <2>1. Part[p] \in N
      <3>1. Part[p] \in 1..Message[q].total
        BY <1>4, Zenon DEF Malformed
      <3>2. GroupKey(q).total = g.key.total
        BY <1>1, Zenon
      <3> QED BY <3>1, <3>2, Zenon DEF GroupKey
    <2>2. PICK c \in C : Part[c] = Part[p]
      BY <1>3, <2>1, Zenon DEF Surjection
    <2>3. Message[c] = Message[q]
      BY <1>1, Zenon DEF DistinctMessages
    <2> QED BY <1>1, <1>4, <2>2, <2>3 DEF DistinctMessages
  <1> QED BY <1>1, <1>4, Zenon

\* CompleteIsWhole for every number of modems and messages: publish_group calls a
\* message complete exactly when every part it can have, and no other, is in it, and the
\* part that completes a group always completes its message.
THEOREM CompleteMeansWhole == DistinctMessages => (Spec => []CompleteIsWhole)
  <1> SUFFICES ASSUME DistinctMessages PROVE Spec => []CompleteIsWhole
    OBVIOUS
  <1>1. Inv => CompleteIsWhole
    <2> SUFFICES ASSUME Inv, NEW m \in messages
                 PROVE  IF m.complete
                        THEN m.content = {p \in Pdus : ~Malformed(p) /\ \E q \in m.content :
                                                           Message[p] = Message[q]}
                        ELSE \E g \in groups : /\ g.id = m.group
                                               /\ Cardinality(Content(segments, g.id)) < g.key.total
      BY Zenon DEF CompleteIsWhole
    <2>1. CASE Single(m)
      <3>1. PICK p \in Pdus : Message[p].total = 1 /\ m.content = {p}
        BY <2>1, Zenon DEF Single
      <3>2. \A q \in Pdus : Message[q].total = 1 => Part[q] = 1
        BY MessageAssumption
      <3>3. \A q \in Pdus : Message[q] = Message[p] => q = p
        BY <3>1, <3>2 DEF DistinctMessages
      <3>4. ~Malformed(p)
        BY <3>1, <3>2 DEF Malformed
      <3> QED BY <2>1, <3>1, <3>3, <3>4, Zenon DEF Single
    <2>2. ASSUME NEW g \in groups, OfGroup(m, g, segments)
          PROVE  IF m.complete
                 THEN m.content = {p \in Pdus : ~Malformed(p) /\ \E q \in m.content :
                                                    Message[p] = Message[q]}
                 ELSE \E h \in groups : /\ h.id = m.group
                                        /\ Cardinality(Content(segments, h.id)) < h.key.total
      <3> DEFINE C == Content(segments, g.id)
      <3>1. /\ m.group = g.id /\ m.complete = (Cardinality(C) >= g.key.total)
            /\ m.complete => m.content = C
        BY <2>2, Zenon DEF OfGroup
      <3>2. Cardinality(C) \in Nat /\ g.key.total \in Nat
        BY PartsCounted, Zenon
      <3>3. Cardinality(C) >= g.key.total =>
                C = {p \in Pdus : ~Malformed(p) /\ \E q \in C : Message[p] = Message[q]}
        BY AllThere, Zenon
      <3> HIDE DEF C
      <3> DEFINE many == Cardinality(C) >= g.key.total
      <3>many. many \in BOOLEAN /\ m.complete = many
        BY <3>1
      <3>4. CASE m.complete
        <4>1. many
          BY <3>4, <3>many, Zenon
        <4> QED BY <3>1, <3>3, <3>4, <4>1
      <3>5. CASE ~m.complete
        <4>1. ~many
          BY <3>5, <3>many, Zenon
        <4>2. Cardinality(C) < g.key.total
          BY <3>2, <4>1
        <4> QED BY <3>1, <3>5, <4>2, Zenon DEF C
      <3> QED BY <3>4, <3>5, Zenon
    <2> QED BY <2>1, <2>2, Zenon DEF Inv, Showing
  <1> QED BY <1>1, InvHolds, PTL
-------------------------------------------------------------------------------
(* Nothing is lost                                                         *)

\* steps that commit, publish and remove nothing
LEMMA Undisturbed ==
    ASSUME DurableInv, UNCHANGED <<segments, messages, imported, deleted, retired, groups>>,
           pc' \in {"finishing", "pruning"} => pc \in {"finishing", "pruning"} /\ modem' = modem
    PROVE  ImportDurable' /\ Surfaced'
  <1>1. ImportDurable'
    BY Zenon DEF DurableInv, ImportDurable, Stored
  <1>2. Surfaced'
    BY Zenon DEF DurableInv, Surfaced
  <1> QED BY <1>1, <1>2, Zenon

LEMMA TickDurable ==
    ASSUME DurableInv, PassMultipartWait \/ PassLateWindow
    PROVE  ImportDurable' /\ Surfaced'
  <1>u. UNCHANGED <<segments, messages, imported, deleted, retired, pc, modem>>
    BY DEF PassMultipartWait, PassLateWindow, syncVars, history
  <1>1. ImportDurable'
    BY <1>u, Zenon DEF DurableInv, ImportDurable, Stored
  <1>2. groups \subseteq GroupRow
    BY Zenon DEF DurableInv, Inv, Grouping
  <1>3. CASE PassMultipartWait
    <2>1. PICK g \in groups : groups' = (groups \ {g}) \cup {[g EXCEPT !.expired = TRUE]}
      BY <1>3 DEF PassMultipartWait
    <2> DEFINE h == [g EXCEPT !.expired = TRUE]
    <2>2. h.id = g.id /\ h.key = g.key /\ h.old = g.old /\ h.expired = TRUE
      BY <1>2 DEF GroupRow
    <2> HIDE DEF h
    <2>3. \A x \in groups' : x \in groups \/ x = h
      BY <2>1 DEF h
    <2>4. Surfaced'
      BY <1>u, <2>2, <2>3, Zenon DEF DurableInv, Surfaced
    <2> QED BY <1>1, <2>4
  <1>4. CASE PassLateWindow
    <2>1. PICK g \in groups : g.expired /\ groups' = (groups \ {g}) \cup {[g EXCEPT !.old = TRUE]}
      BY <1>4 DEF PassLateWindow
    <2> DEFINE h == [g EXCEPT !.old = TRUE]
    <2>2. h.expired = g.expired
      BY <1>2 DEF GroupRow
    <2> HIDE DEF h
    <2>3. \A x \in groups' : x \in groups \/ x = h
      BY <2>1 DEF h
    <2>4. pc' = "idle"
      BY <1>u, <1>4 DEF PassLateWindow
    <2>5. Surfaced'
      BY <2>1, <2>2, <2>3, <2>4, Zenon DEF DurableInv, Surfaced
    <2> QED BY <1>1, <2>5
  <1> QED BY <1>3, <1>4

LEMMA ImportSingleDurable ==
    ASSUME DurableInv, NEW e, ImportSingle(e) PROVE ImportDurable' /\ Surfaced'
  <1>1. /\ \A m \in messages : m \in messages'
        /\ \E m \in messages' : e.pdu \in m.content
        /\ imported' = imported \cup {e.pdu}
    <2> DEFINE row == [group |-> 0, copy |-> Cardinality({m \in messages : m.content = {e.pdu}}),
                       modem |-> modem, content |-> {e.pdu}, complete |-> TRUE, revision |-> 1]
    <2>1. messages' = messages \cup {row} /\ imported' = imported \cup {e.pdu}
      BY Zenon DEF ImportSingle
    <2>2. row.content = {e.pdu}
      BY Zenon
    <2> HIDE DEF row
    <2> QED BY <2>1, <2>2, Zenon
  <1>u. UNCHANGED <<groups, segments, deleted, retired>> /\ pc' \in {"deleting", "importing"}
    BY Zenon DEF ImportSingle, AfterImport
  <1>2. ImportDurable'
    BY <1>1, <1>u, Zenon DEF DurableInv, ImportDurable, Stored
  <1>3. Surfaced'
    BY <1>u, Zenon DEF DurableInv, Surfaced
  <1> QED BY <1>2, <1>3

\* publishing replaces rows only by rows that show what the segments hold
LEMMA Republished ==
    ASSUME DurableInv, NEW p, Stored(p), segments \subseteq segments', NEW ids,
           \A m \in messages : m \in messages' \/ m.group \in ids, 0 \notin ids
    PROVE  Stored(p)'
  <1>1. CASE \E s \in segments : s.pdu = p
    BY <1>1 DEF Stored
  <1>2. CASE \E m \in messages : p \in m.content
    <2>1. PICK m \in messages : p \in m.content
      BY <1>2, Zenon
    <2>2. CASE m \in messages'
      BY <2>1, <2>2 DEF Stored
    <2>3. CASE m \notin messages'
      <3>1. ~Single(m)
        BY <2>3, Zenon DEF Single
      <3>2. PICK g \in groups : OfGroup(m, g, segments)
        BY <3>1, Zenon DEF DurableInv, Inv, Showing
      <3>3. \E s \in segments : s.pdu = p
        BY <2>1, <3>2, Zenon DEF OfGroup, Content
      <3> QED BY <3>3, Zenon DEF Stored
    <2> QED BY <2>2, <2>3
  <1> QED BY <1>1, <1>2, Zenon DEF Stored

LEMMA ImportPartDurable ==
    ASSUME DistinctMessages, DurableInv, NEW e, ImportPart(e)
    PROVE  ImportDurable' /\ Surfaced'
  <1>1. /\ e \in listing /\ AfterImport(e) /\ SourcesOf(e) = {}
        /\ Message[e.pdu].total > 1 /\ ~Malformed(e.pdu) /\ imported' = imported \cup {e.pdu} /\ Inv
    BY Zenon DEF ImportPart, DurableInv
  <1>u. UNCHANGED <<deleted, retired>> /\ pc' \in {"deleting", "importing"}
    BY <1>1, Zenon DEF AfterImport
  <1>2. e.pdu \in Pdus \ imported
    BY <1>1, Fresh, Zenon
  <1>3. PICK g \in IF Joinable(e.pdu) # {} THEN Joinable(e.pdu)
                   ELSE {[id |-> NextId, key |-> GroupKey(e.pdu), expired |-> FALSE,
                          old |-> FALSE]} :
             /\ segments' = WithPart(g, e) /\ groups' = groups \cup {g}
             /\ messages' = PublishIfComplete(g, segments')
    BY Zenon DEF ImportPart, WithPart
  <1>4. ChosenGroup(g, e.pdu)
    BY <1>1, <1>2, <1>3, GroupChosen, Zenon
  <1>5. \A m \in messages : m.group = g.id \/ m \in messages'
    BY <1>1, <1>3, <1>4, PartShown, Zenon
  \* the part number is free: the parts of the group are of e.pdu's own message
  <1>6. \A s \in segments : ~(s.group = g.id /\ Part[s.pdu] = Part[e.pdu])
    <2> SUFFICES ASSUME NEW s \in segments, s.group = g.id, Part[s.pdu] = Part[e.pdu]
                 PROVE  FALSE
      BY Zenon
    <2>1. PICK h \in groups : h.id = s.group /\ h.key = GroupKey(s.pdu)
      BY <1>1, Zenon DEF Inv, Grouping
    <2>2. h = g
      BY <1>1, <1>4, <2>1 DEF ChosenGroup, Inv, Grouping
    <2>3. GroupKey(s.pdu) = GroupKey(e.pdu) /\ s.pdu \in Pdus
      BY <1>1, <1>4, <2>1, <2>2, Zenon DEF ChosenGroup, Inv, Grouping, SegmentRow
    <2>4. s.pdu = e.pdu
      BY <1>1, <1>2, <2>3, Zenon DEF DistinctMessages
    <2> QED BY <1>1, <1>2, <2>4, Zenon DEF Inv, Books
  <1>7. segments \subseteq segments' /\ \E s \in segments' : s.pdu = e.pdu
    <2> DEFINE new == [group |-> g.id, index |-> e.index, pdu |-> e.pdu]
    <2>1. segments' = segments \cup {new}
      BY <1>3, <1>6, Zenon DEF WithPart
    <2>2. new.pdu = e.pdu
      BY Zenon
    <2> HIDE DEF new
    <2> QED BY <2>1, <2>2, Zenon
  <1>8. ImportDurable'
    <2>1. \A p \in imported : Stored(p) => Stored(p)'
      <3> DEFINE ids == {g.id}
      <3>1. \A m \in messages : m \in messages' \/ m.group \in ids
        BY <1>5, Zenon
      <3>2. 0 \notin ids
        BY <1>4, Zenon DEF ChosenGroup, GroupRow
      <3> HIDE DEF ids
      <3> QED BY <1>7, <3>1, <3>2, Republished, Zenon
    <2>2. Stored(e.pdu)'
      BY <1>7, Zenon DEF Stored
    <2>3. \A p \in imported : Stored(p) \/ p \in deleted \/ p \in retired
      BY Zenon DEF DurableInv, ImportDurable
    <2> QED BY <1>1, <1>u, <2>1, <2>2, <2>3, Zenon DEF ImportDurable
  <1>9. Surfaced'
    BY <1>u, <1>3, <1>4, Zenon DEF DurableInv, Surfaced, ChosenGroup
  <1> QED BY <1>8, <1>9, Zenon
LEMMA PublishExpiredDurable ==
    ASSUME DurableInv, PublishExpired PROVE ImportDurable' /\ Surfaced'
  <1>u. /\ UNCHANGED <<groups, segments, modem, imported, deleted, retired>>
        /\ pc' = "finishing" /\ Inv
    BY Zenon DEF PublishExpired, history, DurableInv
  <1>1. /\ \A g \in Due : \E n \in messages' : n.group = g.id /\ n.content = Content(segments, g.id)
        /\ \A m \in messages : (\A g \in Due : m.group # g.id) => m \in messages'
    BY <1>u, ExpiredShown, Zenon
  <1>2. /\ \A g, h \in groups : g.id = h.id => g = h
        /\ \A g \in groups : g.id # 0
    BY <1>u, Zenon DEF Inv, Grouping, GroupRow
  <1>3. ImportDurable'
    <2> DEFINE ids == {g.id : g \in Due}
    <2>1. \A m \in messages : m \in messages' \/ m.group \in ids
      BY <1>1, Zenon
    <2>2. 0 \notin ids
      BY <1>2, Zenon DEF Due
    <2>3. segments \subseteq segments'
      BY <1>u
    <2> HIDE DEF ids
    <2>4. \A p \in imported : Stored(p) => Stored(p)'
      BY <2>1, <2>2, <2>3, Republished
    <2>5. \A p \in imported : Stored(p) \/ p \in deleted \/ p \in retired
      BY DEF DurableInv, ImportDurable
    <2> QED BY <1>u, <2>4, <2>5, Zenon DEF ImportDurable
  <1>4. ASSUME NEW g \in groups, g.key.modem = modem, g.old
        PROVE  \E n \in messages' : n.group = g.id /\ n.content = Content(segments, g.id)
    <2>1. g.expired
      BY <1>4, Zenon DEF DurableInv, Surfaced
    <2>2. CASE Unfinished(g)
      <3>1. g \in Due
        BY <1>4, <2>1, <2>2 DEF Due
      <3> QED BY <1>1, <3>1, Zenon
    <2>3. CASE ~Unfinished(g)
      <3>1. PICK m \in messages : m.group = g.id /\ m.complete
        BY <2>3, Zenon DEF Unfinished, MessageOf
      <3>2. m.content = Content(segments, g.id)
        BY <1>u, <1>2, <3>1 DEF Inv, Showing, Single, OfGroup
      <3>3. \A h \in Due : m.group # h.id
        BY <1>2, <2>3, <3>1, Zenon DEF Due
      <3> QED BY <1>1, <3>1, <3>2, <3>3, Zenon
    <2> QED BY <2>2, <2>3, Zenon
  <1>5. Surfaced'
    BY <1>u, <1>4, Zenon DEF DurableInv, Surfaced
  <1> QED BY <1>3, <1>5

LEMMA PruneDurable ==
    ASSUME SingleModem, DurableInv, Prune PROVE ImportDurable' /\ Surfaced'
  <1> DEFINE mine == {m \in messages : m.modem = modem}
             left(k) == (messages \ mine) \cup k
             orphans(k) == {g \in groups : g.old /\ \A m \in left(k) : m.group # g.id}
             lost(k) == UNION {m.content : m \in mine \ k}
  <1>u. /\ UNCHANGED <<modem, imported, deleted>>
        /\ pc = "pruning" /\ pc' = "idle" /\ Inv
    BY Zenon DEF Prune, DurableInv
  <1>1. PICK k \in Kept(mine) :
             /\ messages' = left(k) /\ groups' = groups \ orphans(k)
             /\ segments' = {s \in segments : \A g \in orphans(k) : g.id # s.group}
             /\ retired' = retired \cup lost(k)
    BY Zenon DEF Prune
  <1>2. \A m \in messages : m \in left(k) \/ \A p \in m.content : p \in lost(k)
    OBVIOUS
  <1>3. \A g \in orphans(k) : g \in groups /\ g.old /\ \A m \in left(k) : m.group # g.id
    BY Zenon
  <1>4. \A g \in groups : g.key.modem = modem
    <2>1. \A g \in groups : g.key.modem \in Modems
      <3> SUFFICES ASSUME NEW g \in groups PROVE g.key.modem \in Modems
        OBVIOUS
      <3>1. g \in GroupRow
        BY <1>u, Zenon DEF Inv, Grouping
      <3>2. PICK p \in Pdus : g.key = GroupKey(p)
        BY <3>1 DEF GroupRow
      <3> QED BY <3>2, MessageAssumption DEF GroupKey
    <2>2. modem \in Modems
      BY <1>u, Zenon DEF Inv, Listed
    <2> QED BY <2>1, <2>2, Zenon DEF SingleModem
  <1> HIDE DEF left, orphans, lost
  <1>5. ASSUME NEW p \in imported, Stored(p) PROVE Stored(p)' \/ p \in lost(k)
    <2>1. CASE \E m \in messages : p \in m.content
      BY <1>1, <1>2, <2>1, Zenon DEF Stored
    <2>2. CASE \E s \in segments : s.pdu = p
      <3>1. PICK s \in segments : s.pdu = p
        BY <2>2
      <3>2. CASE s \in segments'
        BY <3>1, <3>2, Zenon DEF Stored
      <3>3. CASE s \notin segments'
        <4>1. PICK g \in orphans(k) : g.id = s.group
          BY <1>1, <3>3, Zenon
        <4>2. PICK m \in messages : m.group = g.id /\ m.content = Content(segments, g.id)
          BY <1>u, <1>3, <1>4, Zenon DEF DurableInv, Surfaced
        <4>3. p \in m.content
          BY <3>1, <4>1, <4>2, Zenon DEF Content
        <4> QED BY <1>2, <1>3, <4>2, <4>3, Zenon
      <3> QED BY <3>2, <3>3
    <2> QED BY <1>5, <2>1, <2>2, Zenon DEF Stored
  <1>6. ImportDurable'
    <2>1. \A p \in imported : Stored(p) \/ p \in deleted \/ p \in retired
      BY DEF DurableInv, ImportDurable
    <2> QED BY <1>u, <1>1, <1>5, <2>1, Zenon DEF ImportDurable
  <1>7. Surfaced'
    BY <1>u, <1>1, Zenon DEF DurableInv, Surfaced
  <1> QED BY <1>6, <1>7

\* the ubus methods record whatever they remove as deleted
LEMMA DeletesDurable ==
    ASSUME DurableInv, DeleteMessage \/ DeleteModemMessages PROVE ImportDurable' /\ Surfaced'
  <1>u. UNCHANGED <<imported, retired, pc, modem>> /\ pc = "idle" /\ groups' \subseteq groups
    BY Zenon DEF DeleteMessage, DeleteModemMessages, Remove, syncVars
  <1>1. /\ deleted \subseteq deleted'
        /\ \A m \in messages : m \in messages' \/ \A p \in m.content : p \in deleted'
        /\ \A s \in segments : s \in segments' \/ s.pdu \in deleted'
    <2>1. CASE DeleteMessage
      <3>1. PICK m \in messages : Remove({m})
        BY <2>1, Zenon DEF DeleteMessage
      <3> DEFINE A == UNION {n.content : n \in {m}}
                 B == UNION {Content(segments, n.group) : n \in {m}}
      <3>2. /\ messages' = messages \ {m} /\ deleted' = deleted \cup A \cup B
            /\ segments' = {s \in segments : m.group # s.group}
        BY <3>1, Zenon DEF Remove
      <3>3. \A p \in m.content : p \in A
        OBVIOUS
      <3>4. \A s \in segments : s.group = m.group => s.pdu \in B
        BY Zenon DEF Content
      <3> HIDE DEF A, B
      <3> QED BY <3>2, <3>3, <3>4, Zenon
    <2>2. CASE DeleteModemMessages
      <3> DEFINE A == UNION {x.content : x \in messages \ messages'}
                 B == {s.pdu : s \in segments \ segments'}
      <3>1. deleted' = deleted \cup A \cup B
        BY <2>2, Zenon DEF DeleteModemMessages
      <3>2. \A m \in messages \ messages' : \A p \in m.content : p \in A
        BY Zenon
      <3>3. \A s \in segments \ segments' : s.pdu \in B
        OBVIOUS
      <3> HIDE DEF A, B
      <3> QED BY <3>1, <3>2, <3>3, Zenon
    <2> QED BY <2>1, <2>2, Zenon
  <1>2. ImportDurable'
    BY <1>u, <1>1, Zenon DEF DurableInv, ImportDurable, Stored
  <1>3. Surfaced'
    BY <1>u, Zenon DEF DurableInv, Surfaced
  <1> QED BY <1>2, <1>3

\* ImportDurable for every number of messages, crashes and failed deletions, with one
\* modem in database mode: what an import transaction committed, and the modem was then
\* told to delete, stays stored until the user or the retention limit removes it.
THEOREM NothingLost == DistinctMessages /\ SingleModem => (Spec => []ImportDurable)
  <1> SUFFICES ASSUME DistinctMessages, SingleModem PROVE Spec => []ImportDurable
    OBVIOUS
  <1>1. Init => DurableInv
    BY InitInv, Zenon DEF Init, DurableInv, ImportDurable, Surfaced
  <1>2. DurableInv /\ [Next]_vars => DurableInv'
    <2> SUFFICES ASSUME DurableInv, [Next]_vars PROVE ImportDurable' /\ Surfaced'
      BY NextInv DEF DurableInv
    <2>1. CASE PassMultipartWait \/ PassLateWindow
      BY <2>1, TickDurable
    <2>2. CASE Import
      <3>1. ASSUME NEW e, ImportDuplicate(e) PROVE ImportDurable' /\ Surfaced'
        <4>1. /\ UNCHANGED <<segments, messages, imported, deleted, retired, groups>>
              /\ pc' \in {"deleting", "importing"}
          BY <3>1, Zenon DEF ImportDuplicate, AfterImport
        <4> QED BY <4>1, Undisturbed
      <3>2. ASSUME NEW e, RejectPart(e) PROVE ImportDurable' /\ Surfaced'
        <4>1. /\ UNCHANGED <<segments, messages, imported, deleted, retired, groups>>
              /\ pc' = "idle"
          BY <3>2, Zenon DEF RejectPart, GiveUp, dbVars, history
        <4> QED BY <4>1, Undisturbed
      <3> QED BY <2>2, <3>1, <3>2, ImportSingleDurable, ImportPartDurable, Zenon DEF Import
    <2>3. CASE Arrive \/ BeginSync \/ DeleteFromModem \/ FinishScan \/ Abort \/ UNCHANGED vars
      <3>1. UNCHANGED <<segments, messages, imported, deleted, retired, groups>>
        BY <2>3 DEF Arrive, BeginSync, DeleteFromModem, FinishScan, Abort, GiveUp, vars, dbVars, history
      <3>2. pc' \in {"finishing", "pruning"} => pc \in {"finishing", "pruning"} /\ modem' = modem
        BY <2>3 DEF Arrive, BeginSync, DeleteFromModem, FinishScan, Abort, GiveUp, vars, syncVars
      <3> QED BY <3>1, <3>2, Undisturbed
    <2> QED BY <2>1, <2>2, <2>3, PublishExpiredDurable, PruneDurable, DeletesDurable, Zenon
            DEF Next, Sync
  <1>3. DurableInv => ImportDurable
    BY DEF DurableInv
  <1> QED BY <1>1, <1>2, <1>3, PTL DEF Spec
-------------------------------------------------------------------------------
(* Revisions                                                               *)

Revisions == \A m \in messages : m.revision \in Nat

\* publish_group writes revision 1, or one more than the row it replaces had
LEMMA RevisionsGrow ==
    ASSUME Revisions, NEW gs, NEW ss, \A g \in gs : g.id # 0,
           \A m, n \in messages : m.group = n.group /\ m.group # 0 => m = n,
           NEW n \in PublishGroups(gs, ss)
    PROVE  /\ n.revision \in Nat
           /\ \A m \in messages : m.group = n.group /\ m.group # 0 /\ m.content # n.content
                                  => n.revision > m.revision
  <1> DEFINE New(g) == Row(g, Content(ss, g.id))
             Newer(m, g) == [New(g) EXCEPT !.revision = m.revision + 1]
             Revised(m, g) == IF m.content = New(g).content /\ m.complete = New(g).complete
                              THEN m ELSE Newer(m, g)
             Rows(g) == IF MessageOf(g) = {} THEN {New(g)}
                        ELSE {Revised(m, g) : m \in MessageOf(g)}
  <1>1. PublishGroups(gs, ss) = (messages \ Replaced(gs)) \cup UNION {Rows(g) : g \in gs}
    BY DEF PublishGroups
  <1>2. \A g : New(g).revision = 1 /\ New(g).group = g.id
    BY Zenon DEF Row
  <1>3. \A g, m : Newer(m, g).revision = m.revision + 1 /\ Newer(m, g).group = g.id
    BY DEF Row
  <1>4. CASE n \in messages
    BY <1>4 DEF Revisions
  <1>5. ASSUME NEW g \in gs, n \in Rows(g), n \notin messages
        PROVE  /\ n.revision \in Nat
               /\ \A m \in messages : m.group = n.group => n.revision > m.revision
    <2> HIDE DEF New, Newer
    <2>1. CASE MessageOf(g) = {}
      <3>1. n = New(g)
        BY <1>5, <2>1, Zenon
      <3> QED BY <1>2, <2>1, <3>1 DEF MessageOf
    <2>2. CASE MessageOf(g) # {}
      <3>1. PICK m \in MessageOf(g) : n = Revised(m, g)
        BY <1>5, <2>2, Zenon
      <3>2. m \in messages /\ m.group = g.id
        BY DEF MessageOf
      <3>3. n = Newer(m, g)
        BY <1>5, <3>1, <3>2, Zenon
      <3>4. n.revision = m.revision + 1 /\ n.group = g.id /\ m.revision \in Nat
        BY <1>3, <3>2, <3>3, Zenon DEF Revisions
      <3>5. \A x \in messages : x.group = n.group => x = m
        BY <3>2, <3>4, Zenon
      <3> QED BY <3>4, <3>5
    <2> QED BY <2>1, <2>2, Zenon
  <1> HIDE DEF New, Newer, Revised, Rows
  <1>6. n \in messages \/ \E g \in gs : n \in Rows(g)
    BY <1>1, Zenon
  <1> QED BY <1>4, <1>5, <1>6, Zenon

\* one step: revisions stay numbers, and the same text or a larger revision is shown
LEMMA StepRevisions ==
    ASSUME Inv, Revisions, [Next]_vars
    PROVE  /\ Revisions'
           /\ \A m \in messages, n \in messages' :
                 m.group = n.group /\ m.group # 0 /\ m.content # n.content
                 => n.revision > m.revision
  <1>1. \A m, n \in messages : m.group = n.group /\ m.group # 0 => m = n
    BY Zenon DEF Inv, Showing
  <1>2. groups \subseteq GroupRow /\ \A g \in groups : g.id # 0
    BY Zenon DEF Inv, Grouping, GroupRow
  <1>3. SUFFICES ASSUME NEW n \in messages', n \notin messages
                 PROVE  /\ n.revision \in Nat
                        /\ \A m \in messages :
                              m.group = n.group /\ m.group # 0 /\ m.content # n.content
                              => n.revision > m.revision
    BY <1>1 DEF Revisions
  <1>4. ASSUME NEW e, ImportSingle(e)
        PROVE  n.revision = 1 /\ n.group = 0
    <2> DEFINE row == [group |-> 0, copy |-> Cardinality({m \in messages : m.content = {e.pdu}}),
                       modem |-> modem, content |-> {e.pdu}, complete |-> TRUE, revision |-> 1]
    <2>1. messages' = messages \cup {row}
      BY <1>4, Zenon DEF ImportSingle
    <2>2. row.revision = 1 /\ row.group = 0
      BY Zenon
    <2> HIDE DEF row
    <2> QED BY <1>3, <2>1, <2>2
  <1>5. ASSUME NEW e, ImportPart(e)
        PROVE  \E g, ss : g.id # 0 /\ messages' = PublishGroups({g}, ss)
    <2>1. e \in listing /\ SourcesOf(e) = {}
      BY <1>5, Zenon DEF ImportPart
    <2>2. PICK g \in IF Joinable(e.pdu) # {} THEN Joinable(e.pdu)
                     ELSE {[id |-> NextId, key |-> GroupKey(e.pdu), expired |-> FALSE,
                            old |-> FALSE]} :
               messages' = PublishIfComplete(g, segments')
      BY <1>5, Zenon DEF ImportPart
    <2>3. ChosenGroup(g, e.pdu)
      BY <2>1, <2>2, Fresh, GroupChosen, Zenon
    <2> QED BY <1>3, <2>2, <2>3, Zenon DEF PublishIfComplete, ChosenGroup, GroupRow
  <1>6. CASE PublishExpired
    <2>1. messages' = PublishGroups(Due, segments) /\ \A g \in Due : g.id # 0
      BY <1>2, <1>6, Zenon DEF PublishExpired, Due
    <2> HIDE DEF Due
    <2> QED BY <1>1, <1>3, <2>1, RevisionsGrow, Zenon
  <1>7. CASE Prune
    BY <1>3, <1>7, Zenon DEF Prune, Kept
  <1>8. CASE Import
    <2>1. ASSUME NEW e, ImportDuplicate(e) \/ RejectPart(e) PROVE FALSE
      BY <1>3, <2>1, Zenon DEF ImportDuplicate, RejectPart, GiveUp, dbVars
    <2>2. ASSUME NEW e, ImportPart(e)
          PROVE  /\ n.revision \in Nat
                 /\ \A m \in messages :
                       m.group = n.group /\ m.group # 0 /\ m.content # n.content
                       => n.revision > m.revision
      <3>1. PICK g, ss : g.id # 0 /\ messages' = PublishGroups({g}, ss)
        BY <1>5, <2>2, Zenon
      <3> DEFINE gs == {g}
      <3>2. n \in PublishGroups(gs, ss) /\ \A h \in gs : h.id # 0
        BY <1>3, <3>1
      <3> HIDE DEF gs
      <3> QED BY <1>1, <3>2, RevisionsGrow, Zenon
    <2> QED BY <1>4, <1>8, <2>1, <2>2 DEF Import
  <1>9. CASE DeleteMessage \/ DeleteModemMessages
    BY <1>3, <1>9, Zenon DEF DeleteMessage, DeleteModemMessages, Remove
  <1>10. CASE UNCHANGED messages
    BY <1>3, <1>10
  <1>11. \/ PublishExpired \/ Prune \/ Import \/ DeleteMessage \/ DeleteModemMessages
         \/ UNCHANGED messages
    BY Zenon DEF Next, Sync, Arrive, PassMultipartWait, PassLateWindow, BeginSync, DeleteFromModem,
           FinishScan, Abort, GiveUp, vars, dbVars
  <1> QED BY <1>6, <1>7, <1>8, <1>9, <1>10, <1>11, Zenon

\* NewTextNewRevision for every number of modems and messages: publish_group never
\* changes the text of a row without a larger revision, so that the delivery queued for
\* the new text is not taken for the one that was forwarded.
THEOREM NewTextIsNewer == Spec => NewTextNewRevision
  <1>1. Init => Revisions
    BY Zenon DEF Init, Revisions
  <1>2. Inv /\ Revisions /\ [Next]_vars => Revisions'
    BY StepRevisions, Zenon
  <1>3. Inv /\ Revisions /\ [Next]_vars =>
           [\A m \in messages, n \in messages' :
               m.group = n.group /\ m.group # 0 /\ m.content # n.content
               => n.revision > m.revision]_vars
    BY StepRevisions, Zenon
  <1> QED BY <1>1, <1>2, <1>3, InvHolds, PTL DEF Spec, NewTextNewRevision
===============================================================================
