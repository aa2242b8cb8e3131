--------------------------- MODULE DarknetProofs ---------------------------
(***************************************************************************)
(* What TLAPS proves of Darknet, for every set of servers and passwords,   *)
(* port capacity and bound: the coordinator keeps the file up to date and  *)
(* publishes nothing its own poll contradicts, whatever is reported to it. *)
(***************************************************************************)
EXTENDS Darknet, FoldTheorems, SequenceTheorems

---------------------------------------------------------------------------
(* What a tick makes of the reports *)

MaybeEntry == Entry \cup {NoEntry}
Knowledge == [cell : Cell, entry : MaybeEntry, changed : BOOLEAN]

\* What may be said of h in the course of a tick: an entry that differs from the one
\* the tick found marks the vault for saving, and an entry that the tick put there or
\* found in order is in order, which is to say made for the server the cell describes.
Honest(h, k) ==
    /\ k \in Knowledge
    /\ ~k.changed => k.entry = vault[h]
    /\ k.entry # NoEntry
         /\ (k.entry # vault[h] \/ vault[h].fingerprint = cells[h].fingerprint)
       => k.entry.fingerprint = k.cell.fingerprint

Models == {m \in [Host -> Knowledge] : \A h \in Host : Honest(h, m[h])}

LEMMA EntryTyped ==
    /\ NoEntry.fingerprint = None /\ NoEntry.password = None /\ NoEntry \notin Entry
    /\ \A e \in Entry : e.fingerprint \in Fingerprint /\ e.fingerprint # None
                        /\ e.password \in Password /\ e # NoEntry
<1>1. None \notin Password /\ None \notin Fingerprint
  BY PasswordAssumption
<1> QED BY <1>1 DEF Entry, NoEntry

LEMMA DropHonest ==
    ASSUME NEW h \in Host, NEW k, Honest(h, k) PROVE Honest(h, Drop(k)) /\ Drop(k).cell = k.cell
<1>1. /\ Drop(k) \in Knowledge /\ Drop(k).cell = k.cell /\ Drop(k).entry = NoEntry
      /\ Drop(k).changed <=> (k.changed \/ k.entry # NoEntry)
  BY DEF Honest, Knowledge, MaybeEntry, Drop
<1> QED BY <1>1 DEF Honest

LEMMA PutHonest ==
    ASSUME NEW h \in Host, NEW k, Honest(h, k), NEW p \in Password, NEW fp \in Fingerprint
    PROVE  /\ Put(k, p, fp) \in Knowledge /\ Put(k, p, fp).changed
           /\ Put(k, p, fp).cell = k.cell /\ Put(k, p, fp).entry.fingerprint = fp
<1> DEFINE e == [password |-> p, fingerprint |-> fp]
<1>1. e \in Entry /\ e.fingerprint = fp
  BY DEF Entry
<1> HIDE DEF e
<1>2. k \in [cell : Cell, entry : MaybeEntry, changed : BOOLEAN] /\ e \in MaybeEntry
  BY <1>1 DEF Honest, Knowledge, MaybeEntry
<1>3. LET put == [k EXCEPT !.entry = e, !.changed = TRUE]
      IN  /\ put \in [cell : Cell, entry : MaybeEntry, changed : BOOLEAN]
          /\ put.changed /\ put.cell = k.cell /\ put.entry = e
  BY <1>2
<1> QED BY <1>1, <1>3 DEF Put, Knowledge, e

LEMMA NoteFields ==
    ASSUME NEW k \in Knowledge, NEW fp \in Fingerprint
    PROVE  /\ Note(k, fp) \in Knowledge /\ Note(k, fp).entry = k.entry
           /\ Note(k, fp).changed = k.changed /\ Note(k, fp).cell.fingerprint = fp
BY DEF Knowledge, Cell, Note

\* A description that fits, or comes once the entry of a recycled server is gone.
LEMMA NoteHonest ==
    ASSUME NEW h \in Host, NEW k, Honest(h, k), NEW fp \in Fingerprint
    PROVE  Honest(h, Note(IF IsRecycled(k, fp) THEN Drop(k) ELSE k, fp))
<1>1. CASE IsRecycled(k, fp)
  <2>1. Honest(h, Drop(k)) /\ Drop(k).entry = NoEntry
    BY DropHonest DEF Drop, Honest, Knowledge
  <2>2. /\ Note(Drop(k), fp) \in Knowledge /\ Note(Drop(k), fp).entry = Drop(k).entry
        /\ Note(Drop(k), fp).changed = Drop(k).changed
    BY <2>1, NoteFields DEF Honest
  <2> QED BY <1>1, <2>1, <2>2 DEF Honest
<1>2. CASE ~IsRecycled(k, fp)
  <2>1. /\ Note(k, fp) \in Knowledge /\ Note(k, fp).entry = k.entry
        /\ Note(k, fp).changed = k.changed /\ Note(k, fp).cell.fingerprint = fp
    BY NoteFields DEF Honest
  <2>2. k.cell.fingerprint \in {None, fp} /\ k.entry \in MaybeEntry
    BY <1>2 DEF IsRecycled, Honest, Knowledge
  <2>3. k.entry # NoEntry => k.entry.fingerprint # None
    BY <2>2, EntryTyped DEF MaybeEntry
  <2> QED BY <1>2, <2>1, <2>2, <2>3 DEF Honest
<1> QED BY <1>1, <1>2

LEMMA SeenHonest ==
    ASSUME NEW h \in Host, NEW k, Honest(h, k), NEW e, e.fingerprint \in Fingerprint
    PROVE  Honest(h, ApplySeen(k, e))
BY NoteHonest DEF ApplySeen

LEMMA CrackedHonest ==
    ASSUME NEW h \in Host, NEW k, Honest(h, k), NEW e,
           e.fingerprint \in Fingerprint, e.password \in Password
    PROVE  Honest(h, ApplyCracked(k, e))
<1> DEFINE put == Put(k, e.password, e.fingerprint)
<1>1. put \in Knowledge /\ put.changed /\ put.entry.fingerprint = e.fingerprint
  BY PutHonest
<1> HIDE DEF put
<1>2. /\ Note(put, e.fingerprint) \in Knowledge /\ Note(put, e.fingerprint).entry = put.entry
      /\ Note(put, e.fingerprint).changed = put.changed
      /\ Note(put, e.fingerprint).cell.fingerprint = e.fingerprint
  BY <1>1, NoteFields
<1>3. ApplyCracked(k, e) = Note(put, e.fingerprint)
  BY DEF ApplyCracked, put
<1> QED BY <1>1, <1>2, <1>3 DEF Honest

LEMMA StaleHonest ==
    ASSUME NEW h \in Host, NEW k, Honest(h, k), NEW e PROVE Honest(h, ApplyStale(k, e))
BY DropHonest DEF ApplyStale

LEMMA LeakHonest ==
    ASSUME NEW h \in Host, NEW k, Honest(h, k), NEW e, e.password \in Password
    PROVE  Honest(h, ApplyLeak(k, e))
<1>1. CASE k.cell.fingerprint # None /\ k.entry = NoEntry
  <2>1. k.cell.fingerprint \in Fingerprint
    BY <1>1 DEF Honest, Knowledge, Cell
  <2> DEFINE put == Put(k, e.password, k.cell.fingerprint)
  <2>2. /\ put \in Knowledge /\ put.changed /\ put.cell = k.cell
        /\ put.entry.fingerprint = k.cell.fingerprint
    BY <2>1, PutHonest
  <2>3. ApplyLeak(k, e) = put
    BY <1>1 DEF ApplyLeak
  <2> HIDE DEF put
  <2> QED BY <2>2, <2>3 DEF Honest
<1>2. CASE ~(k.cell.fingerprint # None /\ k.entry = NoEntry)
  BY <1>2 DEF ApplyLeak
<1> QED BY <1>1, <1>2

LEMMA EventHonest ==
    ASSUME NEW m \in Models, NEW e \in Event PROVE ApplyEvent(m, e) \in Models
<1> DEFINE k == CASE e.t = "seen" -> ApplySeen(m[e.host], e)
                  [] e.t = "cracked" -> ApplyCracked(m[e.host], e)
                  [] e.t = "stale" -> ApplyStale(m[e.host], e)
                  [] e.t = "leak" -> ApplyLeak(m[e.host], e)
<1>1. e.host \in Host /\ m \in [Host -> Knowledge] /\ Honest(e.host, m[e.host])
  BY DEF Event, Models
<1>2. \/ e.t = "seen" /\ e.fingerprint \in Fingerprint
      \/ e.t = "stale"
      \/ e.t = "cracked" /\ e.fingerprint \in Fingerprint /\ e.password \in Password
      \/ e.t = "leak" /\ e.password \in Password
  BY DEF Event
<1>3. Honest(e.host, k)
  <2>1. CASE e.t = "seen" /\ e.fingerprint \in Fingerprint
    BY <1>1, <2>1, SeenHonest
  <2>2. CASE e.t = "stale"
    BY <1>1, <2>2, StaleHonest
  <2>3. CASE e.t = "cracked" /\ e.fingerprint \in Fingerprint /\ e.password \in Password
    BY <1>1, <2>3, CrackedHonest
  <2>4. CASE e.t = "leak" /\ e.password \in Password
    BY <1>1, <2>4, LeakHonest
  <2> QED BY <1>2, <2>1, <2>2, <2>3, <2>4
<1>4. ApplyEvent(m, e) = [m EXCEPT ![e.host] = k]
  BY DEF ApplyEvent
<1> HIDE DEF k
<1>5. k \in Knowledge
  BY <1>3 DEF Honest
<1> QED BY <1>1, <1>3, <1>4, <1>5 DEF Models

LEMMA AliveFields ==
    ASSUME NEW k \in Knowledge
    PROVE  /\ Alive(k) \in Knowledge /\ Alive(k).entry = k.entry /\ Alive(k).changed = k.changed
           /\ Alive(k).cell.fingerprint = k.cell.fingerprint
<1>1. 0 \in 0..(Patience + 1)
  BY BoundAssumption
<1> QED BY <1>1 DEF Knowledge, Cell, Alive

LEMMA KnownFields ==
    ASSUME NEW k \in Knowledge
    PROVE  LET a == [k EXCEPT !.cell.known = TRUE]
           IN  /\ a \in Knowledge /\ a.entry = k.entry /\ a.changed = k.changed
               /\ a.cell.fingerprint = k.cell.fingerprint
BY DEF Knowledge, Cell

LEMMA HearHonest ==
    ASSUME NEW m \in Models, NEW batch \in Batch PROVE Hear(m, batch) \in Models
<1> DEFINE h == batch.from
           k == IF batch.agent THEN Alive(m[h]) ELSE [m[h] EXCEPT !.cell.known = TRUE]
<1>1. h \in Host /\ m \in [Host -> Knowledge] /\ Honest(h, m[h]) /\ m[h] \in Knowledge
  BY DEF Batch, Models
<1>2. /\ k \in Knowledge /\ k.entry = m[h].entry /\ k.changed = m[h].changed
      /\ k.cell.fingerprint = m[h].cell.fingerprint
  <2>1. 0 \in 0..(Patience + 1)
    BY BoundAssumption
  <2>2. CASE batch.agent
    BY <1>1, <2>1, <2>2, AliveFields
  <2>3. CASE ~batch.agent
    BY <1>1, <2>3, KnownFields
  <2> QED BY <2>2, <2>3
<1>3. Hear(m, batch) = [m EXCEPT ![h] = k]
  BY DEF Hear
<1> HIDE DEF k, h
<1>4. Honest(h, k)
  BY <1>1, <1>2 DEF Honest
<1> QED BY <1>1, <1>2, <1>3, <1>4 DEF Models

\* A batch, event after event.
LEMMA ReportHonest ==
    ASSUME NEW m \in Models, NEW batch \in Batch PROVE ApplyReport(m, batch) \in Models
<1> DEFINE n == Len(batch.events)
           base == Hear(m, batch)
           F == [p \in (1..n) \X Models |-> ApplyEvent(p[2], batch.events[p[1]])]
           Unfold(g) == [i \in 0..n |-> IF i = 0 THEN base
                                        ELSE ApplyEvent(g[i - 1], batch.events[i])]
           after == CHOOSE g : g = Unfold(g)
<1>1. n \in Nat /\ base \in Models /\ \A i \in 1..n : batch.events[i] \in Event
  BY HearHonest DEF Batch
<1>2. F \in [(1..n) \X Models -> Models]
  BY <1>1, EventHonest
<1>3. PICK g \in [0..n -> Models] : Iterates(g, F, base, n)
  <2> HIDE DEF F, n, base, Unfold, after
  <2> QED BY <1>1, <1>2, Recursion, Zenon
<1>4. g = Unfold(g)
  <2>1. ASSUME NEW i \in 0..n, i # 0 PROVE g[i] = ApplyEvent(g[i - 1], batch.events[i])
    <3>1. i \in 1..n /\ i - 1 \in 0..n
      BY <1>1, <2>1
    <3>2. g[i - 1] \in Models /\ g[i] = F[<<i, g[i - 1]>>]
      BY <1>3, <3>1 DEF Iterates
    <3> QED BY <3>1, <3>2
  <2> HIDE DEF F, n, base
  <2> QED BY <1>3, <2>1 DEF Iterates
<1>5. after = Unfold(after)
  BY <1>4
<1>6. ApplyReport(m, batch) = after[n]
  BY DEF ApplyReport
<1> HIDE DEF after, base
<1> DEFINE Good == {i \in Nat : i \in 0..n => after[i] \in Models}
<1>7. ASSUME NEW i \in Nat, \A l \in 0..(i - 1) : l \in Good PROVE i \in Good
  <2>1. CASE i = 0
    BY <1>1, <1>5, <2>1
  <2>2. CASE i # 0 /\ i \in 0..n
    <3>1. i \in 1..n /\ i - 1 \in 0..n /\ i - 1 \in 0..(i - 1)
      BY <1>1, <2>2
    <3>2. after[i - 1] \in Models
      BY <1>7, <3>1
    <3>3. after[i] = ApplyEvent(after[i - 1], batch.events[i])
      BY <1>5, <2>2
    <3> QED BY <1>1, <3>1, <3>2, <3>3, EventHonest
  <2> QED BY <2>1, <2>2
<1>8. Nat \subseteq Good
  <2> HIDE DEF Good
  <2> QED BY <1>7, AllNat
<1>9. n \in Good /\ n \in 0..n
  <2> HIDE DEF Good
  <2> QED BY <1>1, <1>8
<1> QED BY <1>6, <1>9

LEMMA KnownHonest ==
    ASSUME NEW h \in Host, vault[h] \in MaybeEntry, cells[h] \in Cell
    PROVE  Honest(h, Known(h))
<1> DEFINE silent == IF cells[h].silent > Patience THEN cells[h].silent ELSE cells[h].silent + 1
           cell == [cells[h] EXCEPT !.silent = silent]
<1>1. silent \in 0..(Patience + 1)
  BY BoundAssumption DEF Cell
<1> HIDE DEF silent
<1>2. cell \in Cell /\ cell.fingerprint = cells[h].fingerprint
  BY <1>1 DEF Cell
<1>3. Known(h) = [cell |-> cell, entry |-> vault[h], changed |-> FALSE]
  BY DEF Known, silent
<1> HIDE DEF cell
<1> QED BY <1>2, <1>3 DEF Honest, Knowledge

\* All batches of a tick.
LEMMA BatchesHonest ==
    ASSUME NEW batches \in Seq(Batch), vault \in [Host -> MaybeEntry], cells \in [Host -> Cell]
    PROVE  Heard(batches) \in Models
<1> DEFINE n == Len(batches)
           base == [h \in Host |-> Known(h)]
           F == [p \in (1..n) \X Models |-> ApplyReport(p[2], batches[p[1]])]
           Unfold(g) == [i \in 0..n |-> IF i = 0 THEN base ELSE ApplyReport(g[i - 1], batches[i])]
           after == CHOOSE g : g = Unfold(g)
<1>1. n \in Nat /\ \A i \in 1..n : batches[i] \in Batch
  OBVIOUS
<1>2. base \in Models
  <2>1. \A h \in Host : Honest(h, Known(h))
    BY KnownHonest
  <2> QED BY <2>1 DEF Models, Honest
<1>3. F \in [(1..n) \X Models -> Models]
  BY <1>1, ReportHonest
<1>4. PICK g \in [0..n -> Models] : Iterates(g, F, base, n)
  <2> HIDE DEF F, n, base, Unfold, after
  <2> QED BY <1>1, <1>2, <1>3, Recursion, Zenon
<1>5. g = Unfold(g)
  <2>1. ASSUME NEW i \in 0..n, i # 0 PROVE g[i] = ApplyReport(g[i - 1], batches[i])
    <3>1. i \in 1..n /\ i - 1 \in 0..n
      BY <1>1, <2>1
    <3>2. g[i - 1] \in Models /\ g[i] = F[<<i, g[i - 1]>>]
      BY <1>4, <3>1 DEF Iterates
    <3> QED BY <3>1, <3>2
  <2> HIDE DEF F, n, base
  <2> QED BY <1>4, <2>1 DEF Iterates
<1>6. after = Unfold(after)
  BY <1>5
<1>7. Heard(batches) = after[n]
  BY DEF Heard
<1> HIDE DEF after, base
<1> DEFINE Good == {i \in Nat : i \in 0..n => after[i] \in Models}
<1>8. ASSUME NEW i \in Nat, \A l \in 0..(i - 1) : l \in Good PROVE i \in Good
  <2>1. CASE i = 0
    BY <1>2, <1>6, <2>1
  <2>2. CASE i # 0 /\ i \in 0..n
    <3>1. i \in 1..n /\ i - 1 \in 0..n /\ i - 1 \in 0..(i - 1)
      BY <1>1, <2>2
    <3>2. after[i - 1] \in Models
      BY <1>8, <3>1
    <3>3. after[i] = ApplyReport(after[i - 1], batches[i])
      BY <1>6, <2>2
    <3> QED BY <1>1, <3>1, <3>2, <3>3, ReportHonest
  <2> QED BY <2>1, <2>2
<1>9. Nat \subseteq Good
  <2> HIDE DEF Good
  <2> QED BY <1>8, AllNat
<1>10. n \in Good /\ n \in 0..n
  <2> HIDE DEF Good
  <2> QED BY <1>1, <1>9
<1> QED BY <1>7, <1>10

\* The poll: what it leaves of an honest knowledge fits the server that is there.
Polled(h, k) ==
    /\ k \in Knowledge
    /\ ~k.changed => k.entry = vault[h]
    /\ k.cell.known /\ Online(h) /\ k.entry # NoEntry
         /\ (k.entry # vault[h] \/ vault[h].fingerprint = cells[h].fingerprint)
       => k.entry.fingerprint = fingerprint(h)

LEMMA OfflineFields ==
    ASSUME NEW k \in Knowledge
    PROVE  LET a == [k EXCEPT !.cell.offline = TRUE, !.cell.resident = FALSE]
           IN  a \in Knowledge /\ a.entry = k.entry /\ a.changed = k.changed
BY DEF Knowledge, Cell

LEMMA ResidentFields ==
    ASSUME NEW k \in Knowledge, NEW b \in BOOLEAN
    PROVE  LET a == [k EXCEPT !.cell.resident = b]
           IN  /\ a \in Knowledge /\ a.entry = k.entry /\ a.changed = k.changed
               /\ a.cell.fingerprint = k.cell.fingerprint
BY DEF Knowledge, Cell

LEMMA RefreshPolls ==
    ASSUME NEW h \in Host, NEW k, Honest(h, k), secret[h] \in Password \cup {None}
    PROVE  Polled(h, Refresh(k, h))
<1>1. k \in Knowledge /\ k.cell \in Cell /\ k.entry \in MaybeEntry
  BY DEF Honest, Knowledge
<1>2. Online(h) => fingerprint(h) \in Fingerprint
  BY DEF Online, fingerprint, Fingerprint
<1>3. CASE ~k.cell.known
  BY <1>3 DEF Refresh, Polled, Honest
<1>4. CASE k.cell.known /\ ~Online(h)
  BY <1>1, <1>4, OfflineFields DEF Refresh, Polled, Honest
<1>5. CASE k.cell.known /\ Online(h) /\ IsRecycled(k, fingerprint(h))
  <2> DEFINE d == Drop(k)
             n == Note(d, fingerprint(h))
  <2>1. Honest(h, d) /\ d \in Knowledge /\ d.entry = NoEntry
    BY <1>1, DropHonest DEF Honest, Drop, Knowledge
  <2>2. n \in Knowledge /\ n.entry = NoEntry /\ n.changed = d.changed
    <3> HIDE DEF d
    <3> QED BY <1>2, <1>5, <2>1, NoteFields
  <2>3. Refresh(k, h) = [n EXCEPT !.cell.resident = FALSE]
    BY <1>5 DEF Refresh
  <2> HIDE DEF d, n
  <2> DEFINE r == [n EXCEPT !.cell.resident = FALSE]
  <2>4. r \in Knowledge /\ r.entry = NoEntry /\ r.changed = d.changed
    BY <2>2, ResidentFields
  <2> HIDE DEF r
  <2> QED BY <2>1, <2>3, <2>4 DEF Polled, Honest, r
<1>6. CASE k.cell.known /\ Online(h) /\ ~IsRecycled(k, fingerprint(h))
  <2> DEFINE n == Note(k, fingerprint(h))
             stays == n.cell.resident /\ k.cell.silent <= Patience
             r == [n EXCEPT !.cell.resident = stays]
  <2>1. n \in Knowledge /\ n.entry = k.entry /\ n.changed = k.changed
    BY <1>1, <1>2, <1>6, NoteFields
  <2>2. Refresh(k, h) = r
    BY <1>6 DEF Refresh
  <2> HIDE DEF n
  <2>3. stays \in BOOLEAN
    OBVIOUS
  <2> HIDE DEF stays
  <2>4. r \in Knowledge /\ r.entry = k.entry /\ r.changed = k.changed
    BY <2>1, <2>3, ResidentFields
  <2> HIDE DEF r
  <2>5. k.cell.fingerprint \in {None, fingerprint(h)}
    BY <1>6 DEF IsRecycled
  <2>6. k.entry # NoEntry => k.entry.fingerprint # None
    BY <1>1, EntryTyped DEF MaybeEntry
  <2> QED BY <2>2, <2>4, <2>5, <2>6 DEF Polled, Honest
<1> QED BY <1>3, <1>4, <1>5, <1>6

\* What a tick knows once it has read the reports and polled.
LEMMA PollHonest ==
    ASSUME NEW batches \in Seq(Batch), vault \in [Host -> MaybeEntry], cells \in [Host -> Cell],
           secret \in [Host -> Password \cup {None}]
    PROVE  /\ Poll(Heard(batches)) \in [Host -> Knowledge]
           /\ \A h \in Host : Polled(h, Poll(Heard(batches))[h])
<1> DEFINE m == Heard(batches)
<1>1. m \in Models /\ Poll(m) = [h \in Host |-> Refresh(m[h], h)]
  BY BatchesHonest DEF Poll
<1> HIDE DEF m
<1>2. \A h \in Host : Honest(h, m[h])
  BY <1>1 DEF Models
<1>3. \A h \in Host : Polled(h, Refresh(m[h], h))
  BY <1>2, RefreshPolls
<1> QED BY <1>1, <1>3 DEF Polled, m

---------------------------------------------------------------------------
(* The agents *)

\* An agent that waits for a call on a server has that server's description.
Worker == {a \in Agent : /\ Len(a.backlog) <= MaxBacklog
                         /\ a.pc \in {"restoring", "cracking"} => a.fingerprint \in Fingerprint}

LEMMA IdleWorkers == NoAgent \in Worker /\ NewAgent \in Worker
<1>1. NoVault \in [Host -> Entry \cup {NoEntry}]
  BY DEF NoVault
<1>2. <<>> \in Seq(Event) /\ Len(<<>>) = 0 /\ MaxBacklog \in Nat /\ Darkweb \in Host
  BY EmptySeq, BoundAssumption, HostAssumption
<1>3. NoAgent \in Worker /\ Len(NoAgent.backlog) = 0
  BY <1>1, <1>2 DEF NoAgent, Worker, Agent
<1> QED BY <1>2, <1>3 DEF NewAgent, Worker, Agent

LEMMA LogTyped ==
    ASSUME NEW a \in Worker, NEW e \in Event
    PROVE  /\ Log(a, e) \in Worker /\ Log(a, e).pc = a.pc /\ Log(a, e).host = a.host
           /\ Log(a, e).fingerprint = a.fingerprint
<1>1. Append(a.events, e) \in Seq(Event)
  BY AppendProperties DEF Worker, Agent
<1> QED BY <1>1 DEF Log, Worker, Agent

LEMMA NextNeighbourTyped ==
    ASSUME NEW a \in Worker, NEW n \in Host PROVE NextNeighbour(a, n) \in Worker
<1>1. Darkweb \in Host
  BY HostAssumption
<1>2. [a.vault EXCEPT ![n] = NoEntry] \in [Host -> Entry \cup {NoEntry}]
  BY DEF Worker, Agent
<1> QED BY <1>1, <1>2 DEF NextNeighbour, Worker, Agent

LEMMA AwaitTyped ==
    ASSUME NEW a \in Worker, NEW n \in Host, NEW pc \in {"restoring", "cracking"},
           fingerprint(n) \in Fingerprint
    PROVE  Await(a, pc, n) \in Worker
BY DEF Await, Worker, Agent

LEMMA ReplicateTyped ==
    ASSUME NEW agents \in [Host -> Worker], NEW n \in Host
    PROVE  Replicate(agents, n) \in [Host -> Worker]
BY IdleWorkers DEF Replicate

\* The newest that fit.
LEMMA CapBacklogTyped ==
    ASSUME NEW all \in Seq(Event)
    PROVE  CapBacklog(all) \in Seq(Event) /\ Len(CapBacklog(all)) <= MaxBacklog
<1> DEFINE m == IF Len(all) > MaxBacklog THEN Len(all) - MaxBacklog + 1 ELSE 1
<1>1. /\ m \in 1..(Len(all) + 1) /\ Len(all) \in Nat /\ MaxBacklog \in Nat
      /\ Len(all) - m + 1 <= MaxBacklog
  BY BoundAssumption
<1>2. \A i \in m..Len(all) : all[i] \in Event
  BY <1>1
<1>3. /\ SubSeq(all, m, Len(all)) \in Seq(Event)
      /\ Len(SubSeq(all, m, Len(all))) = IF m <= Len(all) THEN Len(all) - m + 1 ELSE 0
  <2> HIDE DEF m
  <2>1. m \in Int /\ Len(all) \in Int
    BY <1>1
  <2> QED BY <1>2, <2>1, SubSeqProperties
<1>4. CapBacklog(all) = SubSeq(all, m, Len(all))
  BY DEF CapBacklog
<1> HIDE DEF m
<1> QED BY <1>1, <1>3, <1>4

---------------------------------------------------------------------------
(* The inductive invariant *)

\* What TypeOK says of everything but the agents.
Kept ==
    /\ secret \in [Host -> Password \cup {None}] /\ secret[Darkweb] # None
    /\ room \subseteq Host /\ linked \subseteq Host \ {Darkweb}
    /\ sessions \subseteq Host \X Host
    /\ policy \in [Host -> MaybeEntry] \cup {NoPolicy}
    /\ reports \in Seq(Batch) /\ Len(reports) <= PortCapacity
    /\ disk \in [Host -> MaybeEntry] /\ vault \in [Host -> MaybeEntry]
    /\ cells \in [Host -> Cell] /\ up \in BOOLEAN /\ force \in BOOLEAN
    /\ cooldown \in [Host -> 0..SeedThrottle]

DarkInv == Kept /\ agent \in [Host -> Worker] /\ VaultSaved

LEMMA InvTyped == DarkInv => TypeOK
BY DEF DarkInv, Kept, TypeOK, Worker, MaybeEntry

LEMMA Descriptions ==
    ASSUME DarkInv, NEW n \in Host
    PROVE  (Online(n) => secret[n] \in Password) /\ fingerprint(n) \in Fingerprint
BY DEF DarkInv, Kept, Online, fingerprint, Fingerprint

LEMMA NoCellTyped == NoCell \in Cell
BY BoundAssumption DEF NoCell, Cell

LEMMA InitInv == Init => DarkInv
<1> SUFFICES ASSUME Init PROVE DarkInv
  OBVIOUS
<1> USE DEF Init
<1>1. (CHOOSE p \in Password : TRUE) \in Password
  BY PasswordAssumption
<1>2. secret \in [Host -> Password \cup {None}] /\ secret[Darkweb] # None
  BY <1>1, PasswordAssumption, HostAssumption
<1>3. room \subseteq Host /\ linked \subseteq Host \ {Darkweb} /\ sessions \subseteq Host \X Host
  OBVIOUS
<1>4. <<>> \in Seq(Batch) /\ Len(<<>>) = 0
  BY EmptySeq
<1>5. NoVault \in [Host -> MaybeEntry]
  BY DEF NoVault, MaybeEntry
<1>6. reports \in Seq(Batch) /\ Len(reports) <= PortCapacity /\ cooldown \in [Host -> 0..SeedThrottle]
  BY <1>4, BoundAssumption
<1>7. cells \in [Host -> Cell] /\ disk \in [Host -> MaybeEntry] /\ vault \in [Host -> MaybeEntry]
  BY <1>5, NoCellTyped
<1>8. Kept
  BY <1>2, <1>3, <1>6, <1>7 DEF Kept
<1> QED BY <1>8, IdleWorkers DEF DarkInv, VaultSaved

\* A step that leaves all but agent and sessions alone.
LEMMA OnlyAgents ==
    ASSUME DarkInv, agent' \in [Host -> Worker], sessions' \subseteq Host \X Host,
           UNCHANGED <<game, policy, reports, disk, coordinator>>
    PROVE  DarkInv'
<1>1. Kept'
  BY DEF DarkInv, Kept, game, coordinator
<1>2. VaultSaved'
  BY DEF DarkInv, VaultSaved, coordinator
<1> QED BY <1>1, <1>2 DEF DarkInv

LEMMA WakeInv == ASSUME DarkInv, NEW h \in Host, WakeAgent(h) PROVE DarkInv'
<1> DEFINE found == {n \in Neighbours[h] : Online(n)}
           seen == [n \in Host |-> IF n \in found THEN policy[n] ELSE NoEntry]
           woken == [agent[h] EXCEPT !.pc = "visiting", !.todo = found, !.vault = seen]
<1>1. found \subseteq Host
  BY HostAssumption
<1>2. policy \in [Host -> MaybeEntry]
  BY DEF WakeAgent, DarkInv, Kept
<1>3. seen \in [Host -> Entry \cup {NoEntry}]
  BY <1>1, <1>2 DEF MaybeEntry
<1>4. agent[h] \in Worker /\ agent \in [Host -> Worker]
  BY DEF DarkInv
<1>5. woken \in Worker
  <2> HIDE DEF found, seen
  <2> QED BY <1>1, <1>3, <1>4 DEF Worker, Agent
<1>6. agent' = [agent EXCEPT ![h] = woken]
  BY DEF WakeAgent
<1> HIDE DEF woken
<1>7. agent' \in [Host -> Worker]
  BY <1>4, <1>5, <1>6
<1>8. sessions' \subseteq Host \X Host /\ UNCHANGED <<game, policy, reports, disk, coordinator>>
  BY DEF WakeAgent, DarkInv, Kept
<1> QED BY <1>7, <1>8, OnlyAgents

\* An agent goes on, and one may be started on a neighbour.
LEMMA MovedAgents ==
    ASSUME DarkInv, NEW h \in Host, NEW n \in Host, NEW a \in Worker
    PROVE  /\ [agent EXCEPT ![h] = a] \in [Host -> Worker]
           /\ Replicate([agent EXCEPT ![h] = a], n) \in [Host -> Worker]
<1>1. [agent EXCEPT ![h] = a] \in [Host -> Worker]
  BY DEF DarkInv
<1> QED BY <1>1, ReplicateTyped

LEMMA VisitInv ==
    ASSUME DarkInv, NEW h \in Host, NEW n \in Host, Visit(h, n) PROVE DarkInv'
<1> DEFINE a == Log(agent[h], Seen(n))
<1>1. agent[h] \in Worker /\ sessions \subseteq Host \X Host /\ <<h, n>> \in Host \X Host
  BY DEF DarkInv, Kept
<1>2. UNCHANGED <<game, policy, reports, disk, coordinator>>
  BY DEF Visit
<1>3. fingerprint(n) \in Fingerprint
  BY Descriptions
<1>4. a \in Worker
  BY <1>1, <1>3, LogTyped DEF Seen, Event
<1>5. /\ NextNeighbour(a, n) \in Worker
      /\ Await(a, "restoring", n) \in Worker /\ Await(a, "cracking", n) \in Worker
  <2> HIDE DEF a
  <2> QED BY <1>3, <1>4, NextNeighbourTyped, AwaitTyped
<1>6. /\ \/ agent' = [agent EXCEPT ![h] = NextNeighbour(a, n)]
         \/ agent' = Replicate([agent EXCEPT ![h] = NextNeighbour(a, n)], n)
         \/ agent' = [agent EXCEPT ![h] = Await(a, "restoring", n)]
         \/ agent' = [agent EXCEPT ![h] = Await(a, "cracking", n)]
      /\ sessions' = sessions \/ sessions' = sessions \cup {<<h, n>>}
  BY Zenon DEF Visit
<1> HIDE DEF a
<1>7. agent' \in [Host -> Worker]
  <2>1. /\ [agent EXCEPT ![h] = NextNeighbour(a, n)] \in [Host -> Worker]
        /\ Replicate([agent EXCEPT ![h] = NextNeighbour(a, n)], n) \in [Host -> Worker]
    BY <1>5, MovedAgents
  <2>2. /\ [agent EXCEPT ![h] = Await(a, "restoring", n)] \in [Host -> Worker]
        /\ [agent EXCEPT ![h] = Await(a, "cracking", n)] \in [Host -> Worker]
    BY <1>5, MovedAgents
  <2> QED BY <1>6, <2>1, <2>2
<1> QED BY <1>1, <1>2, <1>6, <1>7, OnlyAgents

LEMMA RestoredInv == ASSUME DarkInv, NEW h \in Host, Restored(h) PROVE DarkInv'
<1> DEFINE a == agent[h]
           n == a.host
           b == Log(a, Stale(n, a.fingerprint))
           refused == [b EXCEPT !.pc = "cracking"]
<1>1. /\ a \in Worker /\ a.pc = "restoring" /\ n \in Host /\ <<h, n>> \in Host \X Host
      /\ sessions \subseteq Host \X Host
  BY DEF DarkInv, Kept, Restored, Worker, Agent
<1>2. UNCHANGED <<game, policy, reports, disk, coordinator>>
  BY DEF Restored
<1>3. a.fingerprint \in Fingerprint
  BY <1>1 DEF Worker
<1>4. b \in Worker /\ b.fingerprint = a.fingerprint
  <2>1. Stale(n, a.fingerprint) \in Event
    BY <1>1, <1>3 DEF Stale, Event
  <2> HIDE DEF a, n
  <2> QED BY <1>1, <2>1, LogTyped
<1>5. refused \in Worker
  <2> HIDE DEF b
  <2> QED BY <1>3, <1>4 DEF Worker, Agent
<1>6. NextNeighbour(a, n) \in Worker
  BY <1>1, NextNeighbourTyped
<1>7. /\ \/ agent' = Replicate([agent EXCEPT ![h] = NextNeighbour(a, n)], n)
         \/ agent' = [agent EXCEPT ![h] = refused]
      /\ sessions' = sessions \/ sessions' = sessions \cup {<<h, n>>}
  BY Zenon DEF Restored
<1> HIDE DEF a, n, b, refused
<1>8. agent' \in [Host -> Worker]
  <2>1. Replicate([agent EXCEPT ![h] = NextNeighbour(a, n)], n) \in [Host -> Worker]
    BY <1>1, <1>6, MovedAgents
  <2>2. [agent EXCEPT ![h] = refused] \in [Host -> Worker]
    BY <1>5 DEF DarkInv
  <2> QED BY <1>7, <2>1, <2>2
<1> QED BY <1>1, <1>2, <1>7, <1>8, OnlyAgents

LEMMA CrackInv == ASSUME DarkInv, NEW h \in Host, Crack(h) PROVE DarkInv'
<1> DEFINE a == agent[h]
           n == a.host
           b == Log(a, Cracked(n, a.fingerprint))
<1>1. /\ a \in Worker /\ a.pc = "cracking" /\ n \in Host /\ <<h, n>> \in Host \X Host
      /\ sessions \subseteq Host \X Host /\ Online(n)
  BY DEF DarkInv, Kept, Crack, Worker, Agent
<1>2. UNCHANGED <<game, policy, reports, disk, coordinator>>
  BY DEF Crack
<1>3. a.fingerprint \in Fingerprint /\ secret[n] \in Password
  BY <1>1, Descriptions DEF Worker
<1>4. b \in Worker
  <2>1. Cracked(n, a.fingerprint) \in Event
    BY <1>1, <1>3 DEF Cracked, Event
  <2> HIDE DEF a, n
  <2> QED BY <1>1, <2>1, LogTyped
<1>5. /\ agent' = Replicate([agent EXCEPT ![h] = NextNeighbour(b, n)], n)
      /\ sessions' = sessions \cup {<<h, n>>}
  BY DEF Crack
<1> HIDE DEF a, n, b
<1>6. NextNeighbour(b, n) \in Worker
  BY <1>1, <1>4, NextNeighbourTyped
<1>7. agent' \in [Host -> Worker]
  BY <1>1, <1>5, <1>6, MovedAgents
<1> QED BY <1>1, <1>2, <1>5, <1>7, OnlyAgents

LEMMA LeavesInv ==
    ASSUME DarkInv, NEW h \in Host, Vanished(h) \/ GiveUp(h) PROVE DarkInv'
<1> DEFINE a == agent[h]
           n == a.host
<1>1. a \in Worker /\ n \in Host /\ sessions \subseteq Host \X Host
  BY DEF DarkInv, Kept, Worker, Agent
<1>2. UNCHANGED <<game, policy, reports, disk, coordinator>> /\ sessions' = sessions
  BY DEF Vanished, GiveUp
<1>3. ASSUME NEW x \in Host, NEW p \in Leaked
      PROVE  Log(a, Leak(x, p)) \in Worker
  <2>1. Leak(x, p) \in Event
    BY <1>3, PasswordAssumption DEF Leak, Event
  <2> HIDE DEF a
  <2> QED BY <1>1, <2>1, LogTyped
<1>4. \/ agent' = [agent EXCEPT ![h] = NextNeighbour(a, n)]
      \/ \E x \in Host, p \in Leaked :
            agent' = [agent EXCEPT ![h] = NextNeighbour(Log(a, Leak(x, p)), n)]
  BY Zenon DEF Vanished, GiveUp
<1> HIDE DEF a, n
<1>5. agent' \in [Host -> Worker]
  <2>1. CASE agent' = [agent EXCEPT ![h] = NextNeighbour(a, n)]
    BY <1>1, <2>1, NextNeighbourTyped, MovedAgents
  <2>2. CASE \E x \in Host, p \in Leaked :
                agent' = [agent EXCEPT ![h] = NextNeighbour(Log(a, Leak(x, p)), n)]
    <3>1. PICK x \in Host, p \in Leaked :
                agent' = [agent EXCEPT ![h] = NextNeighbour(Log(a, Leak(x, p)), n)]
      BY <2>2
    <3>2. NextNeighbour(Log(a, Leak(x, p)), n) \in Worker
      BY <1>1, <1>3, NextNeighbourTyped
    <3> QED BY <1>1, <3>1, <3>2, MovedAgents
  <2> QED BY <1>4, <2>1, <2>2
<1> QED BY <1>1, <1>2, <1>5, OnlyAgents

\* A batch is put into the port only while there is room for it.
LEMMA SentReports ==
    ASSUME reports \in Seq(Batch), Len(reports) < PortCapacity, NEW batch \in Batch
    PROVE  Append(reports, batch) \in Seq(Batch) /\ Len(Append(reports, batch)) <= PortCapacity
<1>1. /\ Append(reports, batch) \in Seq(Batch)
      /\ Len(Append(reports, batch)) = Len(reports) + 1
  BY AppendProperties
<1> QED BY <1>1, BoundAssumption

LEMMA ReportInv == ASSUME DarkInv, NEW h \in Host, Report(h) PROVE DarkInv'
<1> DEFINE combined == CapBacklog(agent[h].backlog \o agent[h].events)
           sent == Len(reports) < PortCapacity
           batch == [from |-> h, agent |-> TRUE, events |-> combined]
           rest == [NewAgent EXCEPT !.backlog = IF sent THEN <<>> ELSE combined]
<1>1. /\ reports' = IF sent THEN Append(reports, batch) ELSE reports
      /\ agent' = [agent EXCEPT ![h] = rest]
      /\ UNCHANGED <<game, sessions, policy, disk, coordinator>>
  BY DEF Report
<1>2. agent[h].backlog \o agent[h].events \in Seq(Event)
  BY ConcatProperties DEF DarkInv, Worker, Agent
<1>3. combined \in Seq(Event) /\ Len(combined) <= MaxBacklog
  BY <1>2, CapBacklogTyped
<1>4. <<>> \in Seq(Event) /\ Len(<<>>) <= MaxBacklog
  BY BoundAssumption, EmptySeq
<1> HIDE DEF combined
<1>5. batch \in Batch
  BY <1>3 DEF Batch
<1>6. rest \in Worker
  BY <1>3, <1>4, IdleWorkers DEF Worker, Agent, NewAgent, NoAgent
<1> HIDE DEF batch, rest
<1>7. reports' \in Seq(Batch) /\ Len(reports') <= PortCapacity
  BY <1>1, <1>5, SentReports DEF DarkInv, Kept
<1>8. agent' \in [Host -> Worker]
  BY <1>1, <1>6 DEF DarkInv
<1>9. Kept'
  BY <1>1, <1>7 DEF DarkInv, Kept, game, coordinator
<1> QED BY <1>1, <1>8, <1>9 DEF DarkInv, VaultSaved, coordinator

LEMMA WorkerReportInv == ASSUME DarkInv, NEW h \in Host, WorkerReport(h) PROVE DarkInv'
<1> DEFINE batch == [from |-> h, agent |-> FALSE, events |-> <<>>]
<1>1. batch \in Batch
  BY EmptySeq DEF Batch
<1>2. Len(reports) < PortCapacity /\ reports' = Append(reports, batch)
  BY DEF WorkerReport
<1> HIDE DEF batch
<1>3. reports' \in Seq(Batch) /\ Len(reports') <= PortCapacity
  BY <1>1, <1>2, SentReports DEF DarkInv, Kept
<1>4. Kept'
  BY <1>3 DEF WorkerReport, DarkInv, Kept, game, coordinator
<1> QED BY <1>4 DEF WorkerReport, DarkInv, VaultSaved, coordinator

\* A tick saves what it changed, and publishes what the poll left.
LEMMA TickInv == ASSUME DarkInv, Tick PROVE DarkInv'
<1> DEFINE model == Poll(Heard(reports))
           policed == [h \in Host |-> model[h].entry]
           tried == SeedAttempts(model)
<1>1. /\ cells' = [h \in Host |-> model[h].cell]
      /\ vault' = policed /\ policy' = policed
      /\ agent' = [h \in Host |->
            IF h \in tried /\ ~Running(h) /\ CanSeed(model, h) THEN NewAgent ELSE agent[h]]
      /\ cooldown' = [h \in Host |-> IF h \in tried THEN SeedThrottle
                          ELSE IF cooldown[h] = 0 THEN 0 ELSE cooldown[h] - 1]
      /\ disk' = IF \E h \in Host : model[h].changed THEN policed ELSE disk
      /\ reports' = <<>> /\ force' = FALSE /\ UNCHANGED <<game, sessions, up, events>> /\ up
  BY DEF Tick
<1>2. model \in [Host -> Knowledge] /\ \A h \in Host : Polled(h, model[h])
  BY PollHonest DEF DarkInv, Kept
<1> HIDE DEF model, tried
<1>3. /\ policed \in [Host -> MaybeEntry] /\ cells' \in [Host -> Cell]
      /\ \A h \in Host : model[h].changed \in BOOLEAN
  BY <1>1, <1>2 DEF Knowledge
<1>4. disk' = vault' /\ disk' \in [Host -> MaybeEntry]
  <2>1. CASE \E h \in Host : model[h].changed
    BY <1>1, <1>3, <2>1
  <2>2. CASE ~\E h \in Host : model[h].changed
    <3>1. disk = vault /\ vault \in [Host -> MaybeEntry] /\ disk' = disk
      BY <1>1, <2>2 DEF DarkInv, Kept, VaultSaved
    <3>2. \A h \in Host : model[h].entry = vault[h]
      BY <1>2, <2>2 DEF Polled
    <3>3. policed = vault
      BY <3>1, <3>2
    <3> QED BY <1>1, <3>1, <3>3
  <2> QED BY <2>1, <2>2
<1>5. agent' \in [Host -> Worker]
  BY <1>1, IdleWorkers DEF DarkInv
<1>6. cooldown' \in [Host -> 0..SeedThrottle]
  BY <1>1, BoundAssumption DEF DarkInv, Kept
<1>7. reports' \in Seq(Batch) /\ Len(reports') <= PortCapacity
  <2>1. <<>> \in Seq(Batch) /\ Len(<<>>) = 0
    BY EmptySeq
  <2> QED BY <1>1, <2>1, BoundAssumption
<1> HIDE DEF policed
<1>8. Kept'
  BY <1>1, <1>3, <1>4, <1>6, <1>7 DEF DarkInv, Kept, game
<1> QED BY <1>4, <1>5, <1>8 DEF DarkInv, VaultSaved

LEMMA KillInv ==
    ASSUME DarkInv, NEW h \in Host, RestartServer(h) \/ DeleteServer(h) \/ AgentStops(h)
    PROVE  DarkInv'
<1>1. agent' = [agent EXCEPT ![h] = NoAgent] /\ sessions' \subseteq sessions
  BY DEF RestartServer, DeleteServer, AgentStops, Kill, SessionsWithout
<1>2. agent' \in [Host -> Worker]
  BY <1>1, IdleWorkers DEF DarkInv
<1>3. secret' \in [Host -> Password \cup {None}] /\ secret'[Darkweb] # None
  <2>1. secret' = secret \/ (h # Darkweb /\ secret' = [secret EXCEPT ![h] = None])
    BY DEF RestartServer, DeleteServer, AgentStops, game, Mutable
  <2>2. secret \in [Host -> Password \cup {None}] /\ secret[Darkweb] # None /\ Darkweb \in Host
    BY HostAssumption DEF DarkInv, Kept
  <2> QED BY <2>1, <2>2
<1>4. UNCHANGED <<room, linked, policy, reports, disk, up, vault, cells, cooldown, force>>
  BY DEF RestartServer, DeleteServer, AgentStops, game, coordinator
<1>5. Kept'
  BY <1>1, <1>3, <1>4 DEF DarkInv, Kept
<1> QED BY <1>2, <1>4, <1>5 DEF DarkInv, VaultSaved

LEMMA GameInv ==
    ASSUME DarkInv, NEW h \in Host,
           \/ ReleaseRam(h) \/ SetStasisLink(h) \/ ReseedCommand
           \/ \E p \in Password : RecycleName(h, p)
    PROVE  DarkInv'
<1>1. UNCHANGED <<sessions, agent, policy, reports, disk, up, vault, cells, cooldown>>
  BY DEF ReleaseRam, SetStasisLink, ReseedCommand, RecycleName, coordinator
<1>2. secret' \in [Host -> Password \cup {None}] /\ secret'[Darkweb] # None
  <2>1. secret' = secret \/ \E p \in Password : secret' = [secret EXCEPT ![h] = p]
    BY DEF ReleaseRam, SetStasisLink, ReseedCommand, RecycleName, game
  <2>2. secret \in [Host -> Password \cup {None}] /\ secret[Darkweb] # None /\ Darkweb \in Host
    BY HostAssumption DEF DarkInv, Kept
  <2> QED BY <2>1, <2>2, PasswordAssumption
<1>3. room' \subseteq Host /\ linked' \subseteq Host \ {Darkweb} /\ force' \in BOOLEAN
  BY DEF ReleaseRam, SetStasisLink, ReseedCommand, RecycleName, game, coordinator, DarkInv, Kept
<1>4. Kept'
  BY <1>1, <1>2, <1>3 DEF DarkInv, Kept
<1> QED BY <1>1, <1>4 DEF DarkInv, VaultSaved

LEMMA DaemonInv == ASSUME DarkInv, StopCoordinator \/ StartCoordinator PROVE DarkInv'
<1>1. /\ UNCHANGED <<game, sessions, agent, policy, reports, disk, force>>
      /\ up' => vault' = disk
      /\ vault' \in {NoVault, disk} /\ cells' = [h \in Host |-> NoCell]
      /\ cooldown' = [h \in Host |-> 0]
  BY DEF StopCoordinator, StartCoordinator
<1>2. NoVault \in [Host -> MaybeEntry]
  BY DEF NoVault, MaybeEntry
<1>3. vault' \in [Host -> MaybeEntry] /\ cells' \in [Host -> Cell]
  BY <1>1, <1>2, NoCellTyped DEF DarkInv, Kept
<1>4. cooldown' \in [Host -> 0..SeedThrottle]
  BY <1>1, BoundAssumption
<1>5. up' \in BOOLEAN /\ UNCHANGED <<secret, room, linked, sessions, policy, reports, disk, force>>
  BY DEF StopCoordinator, StartCoordinator, game
<1>6. Kept'
  BY <1>3, <1>4, <1>5 DEF DarkInv, Kept
<1> QED BY <1>1, <1>6 DEF DarkInv, VaultSaved

LEMMA NextInv == ASSUME DarkInv, [Next]_vars PROVE DarkInv'
<1>1. CASE UNCHANGED vars
  BY <1>1 DEF vars, game, coordinator, DarkInv, Kept, VaultSaved
<1>2. CASE Tick
  BY <1>2, TickInv
<1>3. CASE \E h \in Host : AgentStep(h)
  BY <1>3, WakeInv, VisitInv, RestoredInv, CrackInv, LeavesInv, ReportInv DEF AgentStep
<1>4. CASE Environment
  <2>1. ASSUME NEW h \in Host, \/ GiveUp(h) \/ RestartServer(h) \/ DeleteServer(h)
                               \/ AgentStops(h) \/ ReleaseRam(h) \/ SetStasisLink(h)
                               \/ WorkerReport(h) \/ \E p \in Password : RecycleName(h, p)
        PROVE  DarkInv'
    BY <2>1, LeavesInv, KillInv, GameInv, WorkerReportInv
  <2>2. CASE ReseedCommand
    BY <2>2, GameInv, HostAssumption
  <2>3. CASE StopCoordinator \/ StartCoordinator
    BY <2>3, DaemonInv
  <2> QED BY <1>4, <2>1, <2>2, <2>3 DEF Environment
<1> QED BY <1>1, <1>2, <1>3, <1>4 DEF Next

LEMMA InvAlways == Spec => []DarkInv
<1>1. DarkInv /\ [Next]_vars => DarkInv'
  BY NextInv
<1> QED BY <1>1, InitInv, PTL DEF Spec

---------------------------------------------------------------------------
(* Results *)

\* Every variable holds a value of its kind, and no agent's backlog outgrows its cap.
THEOREM DarknetTypeCorrect == Spec => []TypeOK
BY InvAlways, InvTyped, PTL

\* At the coordinator's only await the file holds the vault: killing it loses nothing.
THEOREM VaultAlwaysSaved == Spec => []VaultSaved
<1>1. DarkInv => VaultSaved
  BY DEF DarkInv
<1> QED BY <1>1, InvAlways, PTL

\* Reports that are late, repeated or out of order never make the coordinator publish
\* what its own poll contradicts.
THEOREM NewsAlwaysFresh == Spec => NewsFresh
<1> DEFINE Step == \A h \in Host :
        policy' # policy /\ cells'[h].known /\ Online(h) /\ vault'[h] # NoEntry
        /\ (vault'[h] # vault[h] \/ vault[h].fingerprint = cells[h].fingerprint)
            => vault'[h].fingerprint = fingerprint(h)
<1>1. ASSUME DarkInv, Tick PROVE Step
  <2> DEFINE model == Poll(Heard(reports))
  <2>1. \A h \in Host : Polled(h, model[h])
    BY <1>1, PollHonest DEF DarkInv, Kept
  <2>2. \A h \in Host : vault'[h] = model[h].entry /\ cells'[h] = model[h].cell
    BY <1>1 DEF Tick
  <2> HIDE DEF model
  <2> QED BY <2>1, <2>2 DEF Polled
<1>2. ASSUME [Next]_vars, ~Tick PROVE policy' = policy
  BY <1>2 DEF Next, vars, AgentStep, WakeAgent, Visit, Restored, Crack, Vanished, Report,
     Environment, GiveUp, RestartServer, DeleteServer, AgentStops, ReleaseRam, SetStasisLink,
     WorkerReport, RecycleName, ReseedCommand, StopCoordinator, StartCoordinator
<1>3. DarkInv /\ [Next]_vars => [Step]_<<policy, vault>>
  BY <1>1, <1>2
<1> QED BY <1>3, InvAlways, PTL DEF Spec, NewsFresh

=============================================================================
