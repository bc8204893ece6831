-------------------------- MODULE ArxivFetchProofs --------------------------
(***************************************************************************)
(* Theorems about ArxivFetch, for any papers, versions, callers and bounds.*)
(***************************************************************************)
EXTENDS ArxivFetch, FiniteSetTheorems, TLAPS

\* What a fetch found to be new is in the table in the version of its entry, and is no more
\* than it has saved of its feed.
FetchInv(c) ==
    /\ Len(fetch[c].feed) <= MaxFeed
    /\ Len(fetch[c].newEntries) <= fetch[c].saved
    /\ fetch[c].pc = "upstream" => fetch[c].saved = 0 /\ fetch[c].newEntries = <<>>
    /\ \A i \in 1..Len(fetch[c].newEntries) :
         fetch[c].newEntries[i].version = catalogue[fetch[c].newEntries[i].paper]

\* A paper in the table is in exactly one place: a request, a fetch or the orphans.
Once(p) ==
    IF catalogue[p] = NoVersion
    THEN Requests(p) = {} /\ Waiting(p) = {} /\ p \notin orphans
    ELSE \/ (\E r : Requests(p) = {r}) /\ Waiting(p) = {} /\ p \notin orphans
         \/ Requests(p) = {} /\ (\E w : Waiting(p) = {w}) /\ p \notin orphans
         \/ Requests(p) = {} /\ Waiting(p) = {} /\ p \in orphans

\* No request list is longer than a feed, so Requests looks at every position there is.
ListsFit == \A n \in DOMAIN jobs : Len(jobs[n]) <= MaxFeed

\* The inductive invariant.
IInv ==
    /\ \A c \in Callers : FetchInv(c)
    /\ ListsFit
    /\ RequestedVersionIsKept
    /\ \A p \in Papers : Once(p)


-----------------------------------------------------------------------------
(* Typing.                                                                 *)

\* A feed is a list of entries within the bound.
LEMMA FeedType == \A feed \in Feeds : feed \in Seq(Entry) /\ Len(feed) <= MaxFeed
  <1>. SUFFICES ASSUME NEW n \in 0..MaxFeed, NEW feed \in [1..n -> Entry]
                PROVE  feed \in Seq(Entry) /\ Len(feed) <= MaxFeed
    BY DEF Feeds
  <1>1. n \in Nat /\ n <= MaxFeed
    BY MaxFeedNat
  <1>2. feed \in Seq(Entry)
    BY <1>1
  <1>3. Len(feed) = n
    BY <1>1, <1>2
  <1>. QED
    BY <1>1, <1>2, <1>3

\* The entry a fetch saves next.
LEMMA NextEntryType ==
  ASSUME TypeOK, NEW c \in Callers, ~AllSaved(c)
  PROVE  /\ NextEntry(c) \in Entry /\ NextEntry(c).paper \in Papers
         /\ NextEntry(c).version \in Versions
         /\ fetch[c].saved + 1 <= Len(fetch[c].feed)
  <1>1. fetch[c] \in FetchState /\ fetch[c].saved <= Len(fetch[c].feed)
    BY DEF TypeOK
  <1>2. fetch[c].feed \in Seq(Entry) /\ fetch[c].saved \in Nat
    BY <1>1 DEF FetchState
  <1>. PICK feed \in Seq(Entry), n \in Nat : feed = fetch[c].feed /\ n = fetch[c].saved
    BY <1>2
  <1>3. n <= Len(feed) /\ n # Len(feed) /\ Len(feed) \in Nat
    BY <1>1 DEF AllSaved
  <1>4. feed[n + 1] \in Entry
    BY <1>3
  <1>. QED
    BY <1>3, <1>4 DEF NextEntry, Entry

\* What Advance makes of a fetch.
LEMMA Advances ==
  ASSUME TypeOK, NEW c \in Callers, ~AllSaved(c), NEW isNew \in BOOLEAN, Advance(c, isNew)
  PROVE  \E s \in FetchState :
           /\ fetch' = [fetch EXCEPT ![c] = s]
           /\ s.pc = fetch[c].pc /\ s.feed = fetch[c].feed /\ s.saved = fetch[c].saved + 1
           /\ s.newEntries = IF isNew THEN Append(fetch[c].newEntries, NextEntry(c))
                             ELSE fetch[c].newEntries
  <1>. DEFINE list == IF isNew THEN Append(fetch[c].newEntries, NextEntry(c)) ELSE fetch[c].newEntries
              s == [fetch[c] EXCEPT !.saved = fetch[c].saved + 1, !.newEntries = list]
  <1>1. fetch[c] \in FetchState /\ fetch \in [Callers -> FetchState]
    BY DEF TypeOK
  <1>2. list \in Seq(Entry)
    BY <1>1, NextEntryType DEF FetchState
  <1>3. fetch[c].saved + 1 \in Nat
    BY <1>1 DEF FetchState
  <1>4. fetch' = [fetch EXCEPT ![c] = s]
    BY <1>1 DEF Advance
  <1>. HIDE DEF list
  <1>5. /\ s \in FetchState /\ s.pc = fetch[c].pc /\ s.feed = fetch[c].feed
        /\ s.saved = fetch[c].saved + 1 /\ s.newEntries = list
    BY <1>1, <1>2, <1>3 DEF FetchState
  <1>. HIDE DEF s
  <1>. QED
    BY <1>4, <1>5 DEF list

\* Every step keeps the types.
LEMMA NextType == TypeOK /\ IInv /\ [Next]_vars => TypeOK'
  <1>. SUFFICES ASSUME TypeOK, IInv, [Next]_vars PROVE TypeOK'
    OBVIOUS
  <1>0. /\ catalogue \in [Papers -> Versions \cup {NoVersion}] /\ fetch \in [Callers -> FetchState]
        /\ \A c \in Callers : fetch[c].saved <= Len(fetch[c].feed)
        /\ jobs \in Seq(Seq(Entry) \ {<<>>}) /\ orphans \in SUBSET Papers
        /\ issued \in Nat /\ exits \in Nat /\ faults \in Nat
    BY DEF TypeOK
  <1>1. ASSUME NEW c \in Callers, NEW s \in FetchState, s.saved <= Len(s.feed),
               fetch' = [fetch EXCEPT ![c] = s]
        PROVE  fetch' \in [Callers -> FetchState] /\ \A d \in Callers : fetch'[d].saved <= Len(fetch'[d].feed)
    BY <1>0, <1>1
  <1>2. NoFetch \in FetchState /\ NoFetch.saved = 0 /\ NoFetch.feed = <<>>
    BY DEF NoFetch, FetchState
  <1>3. ASSUME NEW c \in Callers PROVE NewPapers(c) \subseteq Papers
    <2>1. fetch[c].newEntries \in Seq(Entry)
      BY <1>0 DEF FetchState
    <2>. PICK list \in Seq(Entry) : list = fetch[c].newEntries
      BY <2>1
    <2>2. ASSUME NEW i \in DOMAIN list PROVE list[i].paper \in Papers
      <3>1. list[i] \in Entry
        OBVIOUS
      <3>. QED
        BY <3>1 DEF Entry
    <2>. QED
      BY <2>2 DEF NewPapers
  <1>4. ASSUME NEW c \in Callers, FetchArrives(c) PROVE TypeOK'
    <2>. DEFINE s == [NoFetch EXCEPT !.pc = "upstream"]
    <2>1. s \in FetchState /\ s.saved <= Len(s.feed)
      <3>1. s \in FetchState /\ s.saved = 0 /\ s.feed = <<>>
        <4>. HIDE DEF NoFetch
        <4>. QED
          BY <1>2 DEF FetchState
      <3>. HIDE DEF s
      <3>2. Len(<<>>) = 0
        OBVIOUS
      <3>. QED
        BY <3>1, <3>2
    <2>2. /\ fetch' = [fetch EXCEPT ![c] = s] /\ issued' = issued + 1
          /\ UNCHANGED <<catalogue, jobs, orphans, exits, faults>>
      BY <1>4 DEF FetchArrives
    <2>3. issued' \in Nat
      BY <1>0, <2>2
    <2>. HIDE DEF s
    <2>4. fetch' \in [Callers -> FetchState] /\ \A d \in Callers : fetch'[d].saved <= Len(fetch'[d].feed)
      BY <1>1, <2>1, <2>2
    <2>. QED
      BY <1>0, <2>2, <2>3, <2>4 DEF TypeOK
  <1>5. ASSUME NEW c \in Callers, FetchUpstream(c) PROVE TypeOK'
    <2>1. CASE fetch' = [fetch EXCEPT ![c].pc = "failed"]
      <3>. DEFINE s == [fetch[c] EXCEPT !.pc = "failed"]
      <3>1. s \in FetchState /\ s.saved <= Len(s.feed)
        BY <1>0 DEF FetchState
      <3>2. fetch' = [fetch EXCEPT ![c] = s]
        BY <1>0, <2>1
      <3>. HIDE DEF s
      <3>. QED
        BY <1>0, <1>1, <1>5, <3>1, <3>2 DEF FetchUpstream, TypeOK
    <2>2. ASSUME NEW feed \in Feeds, fetch' = [fetch EXCEPT ![c].pc = "save", ![c].feed = feed]
          PROVE  TypeOK'
      <3>. DEFINE s == [fetch[c] EXCEPT !.pc = "save", !.feed = feed]
      <3>1. feed \in Seq(Entry) /\ Len(feed) \in Nat
        BY FeedType
      <3>2. fetch[c].saved = 0
        BY <1>5 DEF FetchUpstream, IInv, FetchInv
      <3>3. s \in FetchState /\ s.saved = 0 /\ s.feed = feed
        BY <1>0, <3>1, <3>2 DEF FetchState
      <3>4. fetch' = [fetch EXCEPT ![c] = s]
        BY <1>0, <2>2
      <3>. HIDE DEF s
      <3>5. s.saved <= Len(s.feed)
        BY <3>1, <3>3
      <3>6. fetch' \in [Callers -> FetchState] /\ \A d \in Callers : fetch'[d].saved <= Len(fetch'[d].feed)
        BY <1>1, <3>3, <3>4, <3>5
      <3>. QED
        BY <1>0, <1>5, <3>6 DEF FetchUpstream, TypeOK
    <2>. QED
      BY <1>5, <2>1, <2>2 DEF FetchUpstream
  <1>6. ASSUME NEW c \in Callers, Save(c) PROVE TypeOK'
    <2>0. /\ ~AllSaved(c) /\ UNCHANGED <<jobs, orphans, issued, exits, faults>>
          /\ Advance(c, catalogue[NextEntry(c).paper] = NoVersion)
      BY <1>6 DEF Save
    <2>1. PICK s \in FetchState : /\ fetch' = [fetch EXCEPT ![c] = s] /\ s.feed = fetch[c].feed
                                  /\ s.saved = fetch[c].saved + 1
      BY <2>0, Advances
    <2>2. s.saved <= Len(s.feed)
      BY <2>0, <2>1, NextEntryType
    <2>3. catalogue' \in [Papers -> Versions \cup {NoVersion}]
      BY <1>0, <1>6, <2>0, NextEntryType DEF Save
    <2>. QED
      BY <1>0, <1>1, <2>0, <2>1, <2>2, <2>3 DEF TypeOK
  <1>7. ASSUME NEW c \in Callers, NEW pc \in {"failed", "schedule", "answered"},
               fetch' = [fetch EXCEPT ![c].pc = pc]
        PROVE  fetch' \in [Callers -> FetchState] /\ \A d \in Callers : fetch'[d].saved <= Len(fetch'[d].feed)
    <2>. DEFINE s == [fetch[c] EXCEPT !.pc = pc]
    <2>1. s \in FetchState /\ s.saved <= Len(s.feed)
      BY <1>0 DEF FetchState
    <2>2. fetch' = [fetch EXCEPT ![c] = s]
      BY <1>0, <1>7
    <2>. HIDE DEF s
    <2>. QED
      BY <1>1, <2>1, <2>2
  <1>8. ASSUME NEW c \in Callers, SaveFails(c) PROVE TypeOK'
    <2>1. /\ fetch' = [fetch EXCEPT ![c].pc = "failed"] /\ faults' = faults + 1
          /\ orphans' = orphans \cup NewPapers(c) /\ UNCHANGED <<catalogue, jobs, issued, exits>>
      BY <1>8 DEF SaveFails
    <2>2. fetch' \in [Callers -> FetchState] /\ \A d \in Callers : fetch'[d].saved <= Len(fetch'[d].feed)
      BY <1>7, <2>1
    <2>3. orphans' \in SUBSET Papers
      BY <1>0, <1>3, <2>1
    <2>4. faults' \in Nat
      BY <1>0, <2>1
    <2>. QED
      BY <1>0, <2>1, <2>2, <2>3, <2>4 DEF TypeOK
  <1>9. ASSUME NEW c \in Callers, SavesDone(c) PROVE TypeOK'
    BY <1>0, <1>7, <1>9 DEF SavesDone, TypeOK
  <1>10. ASSUME NEW c \in Callers, Schedule(c) PROVE TypeOK'
    <2>1. fetch[c].newEntries \in Seq(Entry)
      BY <1>0 DEF FetchState
    <2>2. jobs' \in Seq(Seq(Entry) \ {<<>>})
      BY <1>0, <1>10, <2>1 DEF Schedule, RequestsFromEntries
    <2>. QED
      BY <1>0, <1>7, <1>10, <2>2 DEF Schedule, TypeOK
  <1>11. CASE Exit
    <2>1. fetch' \in [Callers -> FetchState] /\ \A d \in Callers : fetch'[d].saved <= Len(fetch'[d].feed)
      BY <1>2, <1>11 DEF Exit
    <2>2. orphans' \in SUBSET Papers
      BY <1>0, <1>3, <1>11 DEF Exit, InFlight
    <2>. QED
      BY <1>0, <1>11, <2>1, <2>2 DEF Exit, TypeOK
  <1>12. CASE UNCHANGED vars
    BY <1>12 DEF vars, TypeOK
  <1>. QED
    BY <1>4, <1>5, <1>6, <1>8, <1>9, <1>10, <1>11, <1>12 DEF Next, Step


-----------------------------------------------------------------------------
(* Versions.                                                               *)

\* The papers a fetch found to be new, and those that were requested, are in the table.
LEMMA ListedEntries ==
  ASSUME NEW list \in Seq(Entry), NEW i \in 1..Len(list)
  PROVE  list[i] \in Entry /\ list[i].paper \in Papers /\ list[i].version \in Versions
  <1>1. list[i] \in Entry
    OBVIOUS
  <1>. QED
    BY <1>1 DEF Entry

\* No step changes the version of a paper that is in the table: the unique index keeps the row.
LEMMA CatalogueGrows ==
  ASSUME TypeOK, [Next]_vars, NEW p \in Papers, catalogue[p] # NoVersion
  PROVE  catalogue'[p] = catalogue[p]
  <1>1. CASE UNCHANGED catalogue
    BY <1>1
  <1>2. ASSUME NEW c \in Callers, Save(c) PROVE catalogue'[p] = catalogue[p]
    BY <1>2 DEF Save, TypeOK
  <1>. QED
    BY <1>1, <1>2 DEF Next, Step, FetchArrives, FetchUpstream, SaveFails, SavesDone, Schedule, Exit, vars

\* A step of one fetch keeps the invariant of every fetch if it keeps that of its own.
LEMMA OtherFetchesKept ==
  ASSUME TypeOK, IInv, [Next]_vars, NEW c \in Callers, NEW s \in FetchState,
         fetch' = [fetch EXCEPT ![c] = s],
         Len(s.feed) <= MaxFeed, Len(s.newEntries) <= s.saved,
         s.pc = "upstream" => s.saved = 0 /\ s.newEntries = <<>>,
         \A i \in 1..Len(s.newEntries) :
           s.newEntries[i].version = catalogue'[s.newEntries[i].paper]
  PROVE  \A d \in Callers : FetchInv(d)'
  <1>. SUFFICES ASSUME NEW d \in Callers PROVE FetchInv(d)'
    OBVIOUS
  <1>1. CASE d = c
    <2>1. fetch'[d] = s
      BY <1>1 DEF TypeOK
    <2>. QED
      BY <2>1 DEF FetchInv
  <1>2. CASE d # c
    <2>1. fetch'[d] = fetch[d] /\ FetchInv(d)
      BY <1>2 DEF TypeOK, IInv
    <2>2. fetch[d].newEntries \in Seq(Entry)
      BY DEF TypeOK, FetchState
    <2>. PICK list \in Seq(Entry) : list = fetch[d].newEntries
      BY <2>2
    <2>3. ASSUME NEW i \in 1..Len(list) PROVE list[i].version = catalogue'[list[i].paper]
      <3>1. list[i].version = catalogue[list[i].paper]
        BY <2>1 DEF FetchInv
      <3>2. list[i].paper \in Papers /\ list[i].version \in Versions
        BY ListedEntries
      <3>3. catalogue[list[i].paper] # NoVersion
        BY <3>1, <3>2, NoVersionIsNoVersion
      <3>. QED
        BY <3>1, <3>2, <3>3, CatalogueGrows
    <2>. QED
      BY <2>1, <2>3 DEF FetchInv
  <1>. QED
    BY <1>1, <1>2

\* A step that leaves the entries a fetch found new alone keeps the invariant of every fetch.
LEMMA SameEntriesKept ==
  ASSUME TypeOK, IInv, [Next]_vars, NEW c \in Callers, NEW s \in FetchState,
         fetch' = [fetch EXCEPT ![c] = s],
         Len(s.feed) <= MaxFeed, fetch[c].saved <= s.saved, s.newEntries = fetch[c].newEntries,
         s.pc # "upstream"
  PROVE  \A d \in Callers : FetchInv(d)'
  <1>1. FetchInv(c) /\ fetch[c] \in FetchState
    BY DEF TypeOK, IInv
  <1>2. s.newEntries \in Seq(Entry) /\ s.saved \in Nat /\ fetch[c].saved \in Nat
    BY <1>1 DEF FetchState
  <1>. PICK list \in Seq(Entry) : list = s.newEntries
    BY <1>2
  <1>3. ASSUME NEW i \in 1..Len(list) PROVE list[i].version = catalogue'[list[i].paper]
    <2>1. list[i].version = catalogue[list[i].paper]
      BY <1>1 DEF FetchInv
    <2>2. list[i].paper \in Papers /\ list[i].version \in Versions
      BY ListedEntries
    <2>3. catalogue[list[i].paper] # NoVersion
      BY <2>1, <2>2, NoVersionIsNoVersion
    <2>. QED
      BY <2>1, <2>2, <2>3, CatalogueGrows
  <1>4. Len(list) <= fetch[c].saved
    BY <1>1 DEF FetchInv
  <1>5. Len(list) <= s.saved
    BY <1>2, <1>4
  <1>. QED
    BY <1>3, <1>5, OtherFetchesKept

\* What a step does to a fetch that only changes its pc.
LEMMA PcStep ==
  ASSUME TypeOK, NEW c \in Callers, NEW pc \in {"failed", "schedule", "answered"},
         fetch' = [fetch EXCEPT ![c].pc = pc]
  PROVE  \E s \in FetchState : /\ fetch' = [fetch EXCEPT ![c] = s] /\ s.pc = pc
                               /\ s.feed = fetch[c].feed /\ s.saved = fetch[c].saved
                               /\ s.newEntries = fetch[c].newEntries
  <1>. DEFINE s == [fetch[c] EXCEPT !.pc = pc]
  <1>1. fetch[c] \in FetchState
    BY DEF TypeOK
  <1>2. /\ s \in FetchState /\ s.pc = pc /\ s.feed = fetch[c].feed
        /\ s.saved = fetch[c].saved /\ s.newEntries = fetch[c].newEntries
    BY <1>1 DEF FetchState
  <1>3. fetch' = [fetch EXCEPT ![c] = s]
    BY DEF TypeOK
  <1>. HIDE DEF s
  <1>. QED
    BY <1>2, <1>3

\* A fetch that only changes its pc keeps the invariant of every fetch.
LEMMA PcStepKept ==
  ASSUME TypeOK, IInv, [Next]_vars, NEW c \in Callers, NEW pc \in {"failed", "schedule", "answered"},
         fetch' = [fetch EXCEPT ![c].pc = pc]
  PROVE  \A d \in Callers : FetchInv(d)'
  <1>. PICK s \in FetchState : /\ fetch' = [fetch EXCEPT ![c] = s] /\ s.pc = pc
                               /\ s.feed = fetch[c].feed /\ s.saved = fetch[c].saved
                               /\ s.newEntries = fetch[c].newEntries
    BY PcStep
  <1>1. FetchInv(c) /\ s.saved \in Nat /\ s.pc # "upstream"
    BY DEF IInv, FetchState
  <1>2. Len(s.feed) <= MaxFeed /\ fetch[c].saved <= s.saved
    BY <1>1 DEF FetchInv
  <1>. QED
    BY <1>1, <1>2, SameEntriesKept

\* A request that has just arrived, and an exited process, have found nothing.
LEMMA NoFetchInv ==
  /\ NoFetch \in FetchState /\ NoFetch.pc = "idle" /\ NoFetch.saved = 0
  /\ NoFetch.feed = <<>> /\ NoFetch.newEntries = <<>>
  /\ <<>> \in Seq(Entry) /\ Len(<<>>) = 0 /\ Len(<<>>) <= MaxFeed
  BY MaxFeedNat DEF NoFetch, FetchState

\* What FetchArrives makes of a fetch.
LEMMA Arrives ==
  ASSUME TypeOK, NEW c \in Callers, FetchArrives(c)
  PROVE  \E s \in FetchState : /\ fetch' = [fetch EXCEPT ![c] = s] /\ s.pc = "upstream"
                               /\ s.feed = <<>> /\ s.saved = 0 /\ s.newEntries = <<>>
  <1>. DEFINE s == [NoFetch EXCEPT !.pc = "upstream"]
  <1>1. s \in FetchState /\ s.pc = "upstream" /\ s.feed = <<>> /\ s.saved = 0 /\ s.newEntries = <<>>
    BY NoFetchInv DEF FetchState
  <1>2. fetch' = [fetch EXCEPT ![c] = s]
    BY DEF FetchArrives
  <1>. HIDE DEF s
  <1>. QED
    BY <1>1, <1>2

\* What FetchUpstream makes of a fetch.
LEMMA Answers ==
  ASSUME TypeOK, IInv, NEW c \in Callers, FetchUpstream(c)
  PROVE  \E s \in FetchState : /\ fetch' = [fetch EXCEPT ![c] = s] /\ s.pc \in {"failed", "save"}
                               /\ Len(s.feed) <= MaxFeed /\ s.saved = 0 /\ s.newEntries = <<>>
                               /\ fetch[c].saved = 0 /\ fetch[c].newEntries = <<>>
  <1>1. FetchInv(c) /\ fetch[c].pc = "upstream" /\ fetch[c].saved = 0 /\ fetch[c].newEntries = <<>>
    BY DEF IInv, FetchInv, FetchUpstream
  <1>2. CASE fetch' = [fetch EXCEPT ![c].pc = "failed"]
    <2>. PICK s \in FetchState : /\ fetch' = [fetch EXCEPT ![c] = s] /\ s.pc = "failed"
                                 /\ s.feed = fetch[c].feed /\ s.saved = fetch[c].saved
                                 /\ s.newEntries = fetch[c].newEntries
      BY <1>2, PcStep
    <2>. QED
      BY <1>1 DEF FetchInv
  <1>3. ASSUME NEW feed \in Feeds, fetch' = [fetch EXCEPT ![c].pc = "save", ![c].feed = feed]
        PROVE  \E s \in FetchState : /\ fetch' = [fetch EXCEPT ![c] = s] /\ s.pc = "save"
                                     /\ s.feed = feed /\ s.saved = 0 /\ s.newEntries = <<>>
    <2>. DEFINE s == [fetch[c] EXCEPT !.pc = "save", !.feed = feed]
    <2>1. feed \in Seq(Entry)
      BY FeedType
    <2>2. s \in FetchState /\ s.pc = "save" /\ s.feed = feed /\ s.saved = 0 /\ s.newEntries = <<>>
      BY <1>1, <2>1 DEF TypeOK, FetchState
    <2>3. fetch' = [fetch EXCEPT ![c] = s]
      BY <1>3 DEF TypeOK
    <2>. HIDE DEF s
    <2>. QED
      BY <2>2, <2>3
  <1>. QED
    BY <1>1, <1>2, <1>3, FeedType DEF FetchUpstream

\* Every step keeps the invariant of the fetches.
LEMMA NextFetches ==
  ASSUME TypeOK, IInv, [Next]_vars
  PROVE  \A d \in Callers : FetchInv(d)'
  <1>1. ASSUME NEW c \in Callers, FetchArrives(c) PROVE \A d \in Callers : FetchInv(d)'
    <2>. PICK s \in FetchState : /\ fetch' = [fetch EXCEPT ![c] = s] /\ s.pc = "upstream"
                                 /\ s.feed = <<>> /\ s.saved = 0 /\ s.newEntries = <<>>
      BY <1>1, Arrives
    <2>1. Len(s.feed) <= MaxFeed /\ Len(s.newEntries) <= s.saved /\ 1..Len(s.newEntries) = {}
      BY NoFetchInv
    <2>. QED
      BY <2>1, OtherFetchesKept
  <1>2. ASSUME NEW c \in Callers, FetchUpstream(c) PROVE \A d \in Callers : FetchInv(d)'
    <2>. PICK s \in FetchState : /\ fetch' = [fetch EXCEPT ![c] = s] /\ s.pc \in {"failed", "save"}
                                 /\ Len(s.feed) <= MaxFeed /\ s.saved = 0 /\ s.newEntries = <<>>
      BY <1>2, Answers
    <2>1. Len(s.newEntries) <= s.saved /\ 1..Len(s.newEntries) = {} /\ s.pc # "upstream"
      BY NoFetchInv
    <2>. QED
      BY <2>1, OtherFetchesKept
  <1>3. ASSUME NEW c \in Callers, Save(c) PROVE \A d \in Callers : FetchInv(d)'
    <2>. PICK e \in Entry : e = NextEntry(c)
      BY <1>3, NextEntryType DEF Save
    <2>. PICK isNew \in BOOLEAN : isNew <=> catalogue[e.paper] = NoVersion
      OBVIOUS
    <2>0. /\ Advance(c, isNew) /\ ~AllSaved(c) /\ fetch[c].pc = "save"
          /\ catalogue' = IF isNew THEN [catalogue EXCEPT ![e.paper] = e.version] ELSE catalogue
      BY <1>3 DEF Save, Advance
    <2>. PICK s \in FetchState :
           /\ fetch' = [fetch EXCEPT ![c] = s]
           /\ s.pc = fetch[c].pc /\ s.feed = fetch[c].feed /\ s.saved = fetch[c].saved + 1
           /\ s.newEntries = IF isNew THEN Append(fetch[c].newEntries, NextEntry(c))
                             ELSE fetch[c].newEntries
      BY <2>0, Advances
    <2>1. FetchInv(c) /\ fetch[c].saved \in Nat /\ fetch[c].newEntries \in Seq(Entry)
      BY DEF IInv, TypeOK, FetchState
    <2>2. Len(s.feed) <= MaxFeed /\ s.pc # "upstream" /\ fetch[c].saved <= s.saved
      BY <2>0, <2>1 DEF FetchInv
    <2>3. CASE ~isNew
      BY <2>2, <2>3, SameEntriesKept
    <2>4. CASE isNew
      <3>. PICK old \in Seq(Entry), n \in Nat : old = fetch[c].newEntries /\ n = fetch[c].saved
        BY <2>1
      <3>1. s.newEntries = Append(old, e) /\ s.saved = n + 1 /\ Len(old) <= n
        BY <2>1, <2>4 DEF FetchInv
      <3>2. /\ Len(Append(old, e)) = Len(old) + 1 /\ Append(old, e)[Len(old) + 1] = e
            /\ \A i \in 1..Len(old) : Append(old, e)[i] = old[i]
        OBVIOUS
      <3>3. ASSUME NEW i \in 1..Len(old) PROVE old[i].version = catalogue'[old[i].paper]
        <4>1. old[i].version = catalogue[old[i].paper]
          BY <2>1 DEF FetchInv
        <4>2. old[i].paper \in Papers /\ old[i].version \in Versions
          BY ListedEntries
        <4>3. catalogue[old[i].paper] # NoVersion
          BY <4>1, <4>2, NoVersionIsNoVersion
        <4>. QED
          BY <4>1, <4>2, <4>3, CatalogueGrows
      <3>4. e.version = catalogue'[e.paper]
        BY <2>0, <2>4, NextEntryType DEF TypeOK
      <3>5. Len(s.newEntries) <= s.saved
        BY <3>1, <3>2
      <3>6. \A i \in 1..Len(s.newEntries) : s.newEntries[i].version = catalogue'[s.newEntries[i].paper]
        BY <3>1, <3>2, <3>3, <3>4
      <3>. QED
        BY <2>2, <3>5, <3>6, OtherFetchesKept
    <2>. QED
      BY <2>3, <2>4
  <1>4. ASSUME NEW c \in Callers, SaveFails(c) \/ SavesDone(c) \/ Schedule(c)
        PROVE  \A d \in Callers : FetchInv(d)'
    <2>1. PICK pc \in {"failed", "schedule", "answered"} : fetch' = [fetch EXCEPT ![c].pc = pc]
      BY <1>4 DEF SaveFails, SavesDone, Schedule
    <2>. QED
      BY <2>1, PcStepKept
  <1>5. CASE Exit
    <2>. SUFFICES ASSUME NEW d \in Callers PROVE FetchInv(d)'
      OBVIOUS
    <2>1. fetch'[d] = NoFetch
      BY <1>5 DEF Exit
    <2>2. 1..Len(<<>>) = {}
      BY NoFetchInv
    <2>. QED
      BY <2>1, <2>2, NoFetchInv DEF FetchInv
  <1>6. CASE UNCHANGED vars
    BY <1>6 DEF vars, IInv, FetchInv
  <1>. QED
    BY <1>1, <1>2, <1>3, <1>4, <1>5, <1>6 DEF Next, Step


\* Every step keeps the versions of the requests.
LEMMA NextVersions ==
  ASSUME TypeOK, IInv, [Next]_vars
  PROVE  RequestedVersionIsKept'
  <1>0. RequestedVersionIsKept /\ jobs \in Seq(Seq(Entry) \ {<<>>})
    BY DEF IInv, TypeOK
  <1>. SUFFICES ASSUME NEW n \in DOMAIN jobs', NEW i \in DOMAIN jobs'[n]
                PROVE  jobs'[n][i].version = catalogue'[jobs'[n][i].paper]
    BY DEF RequestedVersionIsKept
  <1>1. ASSUME n \in DOMAIN jobs, jobs'[n] = jobs[n]
        PROVE  jobs'[n][i].version = catalogue'[jobs'[n][i].paper]
    <2>1. jobs[n] \in Seq(Entry)
      BY <1>0, <1>1
    <2>. PICK list \in Seq(Entry) : list = jobs[n]
      BY <2>1
    <2>2. i \in 1..Len(list) /\ list[i].version = catalogue[list[i].paper]
      BY <1>0, <1>1 DEF RequestedVersionIsKept
    <2>3. list[i].paper \in Papers /\ list[i].version \in Versions
      BY <2>2, ListedEntries
    <2>4. catalogue[list[i].paper] # NoVersion
      BY <2>2, <2>3, NoVersionIsNoVersion
    <2>. QED
      BY <1>1, <2>2, <2>3, <2>4, CatalogueGrows
  <1>2. CASE UNCHANGED jobs
    BY <1>1, <1>2
  <1>3. ASSUME NEW c \in Callers, Schedule(c)
        PROVE  jobs'[n][i].version = catalogue'[jobs'[n][i].paper]
    <2>1. fetch[c].newEntries \in Seq(Entry) /\ FetchInv(c)
      BY DEF TypeOK, FetchState, IInv
    <2>. PICK list \in Seq(Entry) : list = fetch[c].newEntries
      BY <2>1
    <2>2. /\ jobs' = IF list = <<>> THEN jobs ELSE Append(jobs, list)
          /\ UNCHANGED catalogue
      BY <1>3 DEF Schedule, RequestsFromEntries
    <2>3. CASE list = <<>>
      BY <1>2, <2>2, <2>3
    <2>4. CASE list # <<>>
      <3>1. DOMAIN jobs' = 1..(Len(jobs) + 1) /\ jobs'[Len(jobs) + 1] = list
            /\ \A m \in DOMAIN jobs : jobs'[m] = jobs[m]
        BY <1>0, <2>1, <2>2, <2>4
      <3>2. CASE n \in DOMAIN jobs
        BY <1>1, <3>1, <3>2
      <3>3. CASE n = Len(jobs) + 1
        <4>1. jobs'[n] = list /\ i \in 1..Len(list)
          BY <3>1, <3>3
        <4>2. list[i].version = catalogue[list[i].paper]
          BY <2>1, <4>1 DEF FetchInv
        <4>. QED
          BY <2>2, <4>1, <4>2
      <3>. QED
        BY <1>0, <3>1, <3>2, <3>3
    <2>. QED
      BY <2>3, <2>4
  <1>. QED
    BY <1>2, <1>3 DEF Next, Step, FetchArrives, FetchUpstream, Save, SaveFails, SavesDone, Exit, vars


\* Every step keeps the length of the request lists within that of a feed.
LEMMA NextLists ==
  ASSUME TypeOK, IInv, [Next]_vars
  PROVE  ListsFit'
  <1>0. ListsFit /\ jobs \in Seq(Seq(Entry) \ {<<>>})
    BY DEF IInv, TypeOK
  <1>1. CASE UNCHANGED jobs
    BY <1>0, <1>1 DEF ListsFit
  <1>2. ASSUME NEW c \in Callers, Schedule(c) PROVE ListsFit'
    <2>1. /\ fetch[c].newEntries \in Seq(Entry) /\ fetch[c].feed \in Seq(Entry)
          /\ fetch[c].saved \in Nat /\ fetch[c].saved <= Len(fetch[c].feed) /\ FetchInv(c)
      BY DEF TypeOK, FetchState, IInv
    <2>. PICK list \in Seq(Entry), feed \in Seq(Entry), n \in Nat :
           list = fetch[c].newEntries /\ feed = fetch[c].feed /\ n = fetch[c].saved
      BY <2>1
    <2>2. jobs' = IF list = <<>> THEN jobs ELSE Append(jobs, list)
      BY <1>2 DEF Schedule, RequestsFromEntries
    <2>3. Len(list) <= n /\ n <= Len(feed) /\ Len(feed) <= MaxFeed
      BY <2>1 DEF FetchInv
    <2>4. Len(list) <= MaxFeed
      BY <2>3, MaxFeedNat
    <2>5. CASE list = <<>>
      BY <1>1, <2>2, <2>5
    <2>6. CASE list # <<>>
      <3>1. DOMAIN jobs' = 1..(Len(jobs) + 1) /\ jobs'[Len(jobs) + 1] = list
            /\ \A m \in DOMAIN jobs : jobs'[m] = jobs[m]
        BY <1>0, <2>2, <2>6
      <3>2. ASSUME NEW m \in DOMAIN jobs' PROVE m \in DOMAIN jobs \/ m = Len(jobs) + 1
        BY <1>0, <3>1
      <3>. QED
        BY <1>0, <2>4, <3>1, <3>2 DEF ListsFit
    <2>. QED
      BY <2>5, <2>6
  <1>. QED
    BY <1>1, <1>2 DEF Next, Step, FetchArrives, FetchUpstream, Save, SaveFails, SavesDone, Exit, vars


-----------------------------------------------------------------------------
(* One place for each paper.                                               *)

\* The fetch s is about to request p with the i-th entry it found to be new.
Awaits(s, i, p) ==
    /\ s.pc \in {"upstream", "save", "schedule"}
    /\ i <= Len(s.newEntries) /\ s.newEntries[i].paper = p

\* Where a paper is about to be requested, fetch by fetch.
LEMMA WaitingIs ==
  ASSUME NEW p \in Papers
  PROVE  Waiting(p) = {r \in Callers \X (1..MaxFeed) : Awaits(fetch[r[1]], r[2], p)}
  BY DEF Waiting, InFlight, Awaits

\* The same after a step.
LEMMA WaitingIsPrime ==
  ASSUME NEW p \in Papers
  PROVE  Waiting(p)' = {r \in Callers \X (1..MaxFeed) : Awaits(fetch'[r[1]], r[2], p)}
  BY DEF Waiting, InFlight, Awaits

\* A step of a fetch that does not change what it awaits changes nothing else.
LEMMA WaitingKept ==
  ASSUME TypeOK, NEW p \in Papers, NEW c \in Callers, NEW s \in FetchState,
         fetch' = [fetch EXCEPT ![c] = s],
         \A i \in 1..MaxFeed : Awaits(s, i, p) <=> Awaits(fetch[c], i, p)
  PROVE  Waiting(p)' = Waiting(p)
  <1>1. ASSUME NEW r \in Callers \X (1..MaxFeed)
        PROVE  Awaits(fetch'[r[1]], r[2], p) <=> Awaits(fetch[r[1]], r[2], p)
    <2>1. CASE r[1] = c
      <3>1. fetch'[r[1]] = s /\ r[2] \in 1..MaxFeed
        BY <2>1 DEF TypeOK
      <3>. QED
        BY <2>1, <3>1
    <2>2. CASE r[1] # c
      BY <2>2 DEF TypeOK
    <2>. QED
      BY <2>1, <2>2
  <1>. QED
    BY <1>1, WaitingIs, WaitingIsPrime

\* A fetch that ends takes with it the one entry that awaited a paper.
LEMMA WaitingEnds ==
  ASSUME TypeOK, NEW p \in Papers, NEW c \in Callers, NEW s \in FetchState,
         fetch' = [fetch EXCEPT ![c] = s], s.pc \in {"failed", "answered"},
         NEW i \in 1..MaxFeed, Awaits(fetch[c], i, p), \E w : Waiting(p) = {w}
  PROVE  Waiting(p) = {<<c, i>>} /\ Waiting(p)' = {}
  <1>1. <<c, i>> \in Waiting(p)
    BY WaitingIs
  <1>2. Waiting(p) = {<<c, i>>}
    BY <1>1
  <1>3. ASSUME NEW r \in Callers \X (1..MaxFeed) PROVE ~Awaits(fetch'[r[1]], r[2], p)
    <2>1. CASE r[1] = c
      <3>1. fetch'[r[1]] = s
        BY <2>1 DEF TypeOK
      <3>. QED
        BY <3>1 DEF Awaits
    <2>2. CASE r[1] # c
      <3>1. fetch'[r[1]] = fetch[r[1]] /\ r # <<c, i>>
        BY <2>2 DEF TypeOK
      <3>. QED
        BY <1>2, <3>1, WaitingIs
    <2>. QED
      BY <2>1, <2>2
  <1>. QED
    BY <1>2, <1>3, WaitingIsPrime

\* A paper stays in its one place if no place changes.
LEMMA OnceKept ==
  ASSUME NEW p \in Papers, Once(p), Requests(p)' = Requests(p), Waiting(p)' = Waiting(p),
         (p \in orphans)' <=> p \in orphans,
         (catalogue[p] = NoVersion)' <=> catalogue[p] = NoVersion
  PROVE  Once(p)'
  BY DEF Once

\* Requests depend on the jobs only.
LEMMA RequestsKept ==
  ASSUME UNCHANGED jobs, NEW p \in Papers
  PROVE  Requests(p)' = Requests(p)
  BY DEF Requests

\* The papers a fetch has added to the table are those it awaits.
LEMMA NewPapersAwait ==
  ASSUME TypeOK, IInv, NEW c \in Callers, NEW p \in Papers,
         fetch[c].pc \in {"upstream", "save", "schedule"}
  PROVE  p \in NewPapers(c) <=> \E i \in 1..MaxFeed : Awaits(fetch[c], i, p)
  <1>1. /\ fetch[c].newEntries \in Seq(Entry) /\ FetchInv(c) /\ fetch[c].saved \in Nat
        /\ fetch[c].feed \in Seq(Entry) /\ fetch[c].saved <= Len(fetch[c].feed)
    BY DEF TypeOK, FetchState, IInv
  <1>. PICK list \in Seq(Entry), feed \in Seq(Entry), n \in Nat :
         list = fetch[c].newEntries /\ feed = fetch[c].feed /\ n = fetch[c].saved
    BY <1>1
  <1>2. Len(list) <= n /\ n <= Len(feed) /\ Len(feed) <= MaxFeed
    BY <1>1 DEF FetchInv
  <1>3. Len(list) \in Nat /\ Len(list) <= MaxFeed /\ DOMAIN list = 1..Len(list)
    BY <1>2, MaxFeedNat
  <1>4. p \in NewPapers(c) <=> \E i \in 1..Len(list) : list[i].paper = p
    BY <1>3 DEF NewPapers
  <1>5. \A i : i \in 1..MaxFeed /\ i <= Len(list) <=> i \in 1..Len(list)
    BY <1>3, MaxFeedNat
  <1>. QED
    BY <1>4, <1>5 DEF Awaits


\* A fetch that arrives, hears from upstream or goes on to schedule moves no paper.
LEMMA QuietStepsOnce ==
  ASSUME TypeOK, IInv, NEW p \in Papers, NEW c \in Callers,
         FetchArrives(c) \/ FetchUpstream(c) \/ SavesDone(c)
  PROVE  Once(p)'
  <1>1. PICK s \in FetchState : /\ fetch' = [fetch EXCEPT ![c] = s]
                                /\ \A i \in 1..MaxFeed : Awaits(s, i, p) <=> Awaits(fetch[c], i, p)
    <2>1. CASE FetchArrives(c)
      <3>. PICK s \in FetchState : fetch' = [fetch EXCEPT ![c] = s] /\ s.newEntries = <<>>
        BY <2>1, Arrives
      <3>1. fetch[c].pc \in {"idle", "answered", "failed"}
        BY <2>1 DEF FetchArrives
      <3>2. \A i \in 1..MaxFeed : ~Awaits(s, i, p) /\ ~Awaits(fetch[c], i, p)
        BY <3>1, MaxFeedNat, NoFetchInv DEF Awaits
      <3>. QED
        BY <3>2
    <2>2. CASE FetchUpstream(c)
      <3>. PICK s \in FetchState : /\ fetch' = [fetch EXCEPT ![c] = s]
                                   /\ s.newEntries = <<>> /\ fetch[c].newEntries = <<>>
        BY <2>2, Answers
      <3>1. \A i \in 1..MaxFeed : ~Awaits(s, i, p) /\ ~Awaits(fetch[c], i, p)
        BY MaxFeedNat, NoFetchInv DEF Awaits
      <3>. QED
        BY <3>1
    <2>3. CASE SavesDone(c)
      <3>1. fetch' = [fetch EXCEPT ![c].pc = "schedule"] /\ fetch[c].pc = "save"
        BY <2>3 DEF SavesDone
      <3>. PICK s \in FetchState : /\ fetch' = [fetch EXCEPT ![c] = s] /\ s.pc = "schedule"
                                   /\ s.newEntries = fetch[c].newEntries
        BY <3>1, PcStep
      <3>2. \A i \in 1..MaxFeed : Awaits(s, i, p) <=> Awaits(fetch[c], i, p)
        BY <3>1 DEF Awaits
      <3>. QED
        BY <3>2
    <2>. QED
      BY <2>1, <2>2, <2>3
  <1>2. UNCHANGED <<catalogue, jobs, orphans>>
    BY DEF FetchArrives, FetchUpstream, SavesDone
  <1>3. Waiting(p)' = Waiting(p) /\ Requests(p)' = Requests(p)
    BY <1>1, <1>2, WaitingKept, RequestsKept
  <1>4. Once(p)
    BY DEF IInv
  <1>. QED
    BY <1>2, <1>3, <1>4, OnceKept

\* A position is in a list, the next one, or beyond.
LEMMA UpToNextOrBeyond == \A n, i \in Nat : i <= n \/ i = n + 1 \/ i > n + 1
  OBVIOUS

\* A saved entry moves its paper, if the table did not know it, to the fetch that saved it.
LEMMA SaveOnce ==
  ASSUME TypeOK, IInv, NEW p \in Papers, NEW c \in Callers, Save(c)
  PROVE  Once(p)'
  <1>. PICK e \in Entry : e = NextEntry(c)
    BY NextEntryType DEF Save
  <1>. PICK isNew \in BOOLEAN : isNew <=> catalogue[e.paper] = NoVersion
    OBVIOUS
  <1>1. /\ Advance(c, isNew) /\ ~AllSaved(c) /\ fetch[c].pc = "save"
        /\ catalogue' = IF isNew THEN [catalogue EXCEPT ![e.paper] = e.version] ELSE catalogue
        /\ UNCHANGED <<jobs, orphans>>
    BY DEF Save, Advance
  <1>. PICK s \in FetchState :
         /\ fetch' = [fetch EXCEPT ![c] = s]
         /\ s.pc = fetch[c].pc /\ s.feed = fetch[c].feed /\ s.saved = fetch[c].saved + 1
         /\ s.newEntries = IF isNew THEN Append(fetch[c].newEntries, NextEntry(c))
                           ELSE fetch[c].newEntries
    BY <1>1, Advances
  <1>2. /\ fetch[c].newEntries \in Seq(Entry) /\ FetchInv(c) /\ fetch[c].saved \in Nat
        /\ fetch[c].feed \in Seq(Entry)
    BY DEF TypeOK, FetchState, IInv
  <1>. PICK old \in Seq(Entry), feed \in Seq(Entry), n \in Nat :
         old = fetch[c].newEntries /\ feed = fetch[c].feed /\ n = fetch[c].saved
    BY <1>2
  <1>3. Len(old) <= n /\ n + 1 <= Len(feed) /\ Len(feed) <= MaxFeed
    BY <1>1, <1>2, NextEntryType DEF FetchInv
  <1>4. Len(old) + 1 \in 1..MaxFeed
    BY <1>3, MaxFeedNat
  <1>5. /\ Len(Append(old, e)) = Len(old) + 1 /\ Append(old, e)[Len(old) + 1] = e
        /\ \A i \in 1..Len(old) : Append(old, e)[i] = old[i]
    OBVIOUS
  <1>6. Requests(p)' = Requests(p) /\ Once(p)
    BY <1>1, RequestsKept DEF IInv
  <1>7. CASE ~isNew \/ e.paper # p
    <2>1. ASSUME NEW i \in 1..MaxFeed PROVE Awaits(s, i, p) <=> Awaits(fetch[c], i, p)
      <3>1. CASE ~isNew
        BY <3>1 DEF Awaits
      <3>2. CASE isNew /\ e.paper # p
        <4>1. s.newEntries = Append(old, e)
          BY <3>2
        <4>2. CASE i <= Len(old)
          BY <1>5, <4>1, <4>2, MaxFeedNat DEF Awaits
        <4>3. CASE i = Len(old) + 1
          BY <1>5, <3>2, <4>1, <4>3 DEF Awaits
        <4>4. CASE i > Len(old) + 1
          BY <1>5, <4>1, <4>4, MaxFeedNat DEF Awaits
        <4>5. Len(old) \in Nat /\ i \in Nat
          BY MaxFeedNat
        <4>6. i <= Len(old) \/ i = Len(old) + 1 \/ i > Len(old) + 1
          BY <4>5, UpToNextOrBeyond
        <4>. QED
          BY <4>2, <4>3, <4>4, <4>6
      <3>. QED
        BY <1>7, <3>1, <3>2
    <2>2. Waiting(p)' = Waiting(p)
      BY <2>1, WaitingKept
    <2>3. catalogue'[p] = catalogue[p]
      BY <1>1, <1>7 DEF TypeOK
    <2>. QED
      BY <1>1, <1>6, <2>2, <2>3, OnceKept
  <1>8. CASE isNew /\ e.paper = p
    <2>1. Requests(p) = {} /\ Waiting(p) = {} /\ p \notin orphans
      BY <1>6, <1>8 DEF Once
    <2>2. catalogue'[p] # NoVersion
      BY <1>1, <1>8, NextEntryType, NoVersionIsNoVersion DEF TypeOK
    <2>3. s.newEntries = Append(old, e)
      BY <1>8
    <2>4. Awaits(s, Len(old) + 1, p)
      BY <1>1, <1>5, <1>8, <2>3 DEF Awaits
    <2>5. ASSUME NEW r \in Callers \X (1..MaxFeed), Awaits(fetch'[r[1]], r[2], p)
          PROVE  r = <<c, Len(old) + 1>>
      <3>1. ~Awaits(fetch[r[1]], r[2], p)
        BY <2>1, WaitingIs
      <3>2. r[1] = c
        BY <2>5, <3>1 DEF TypeOK
      <3>3. fetch'[r[1]] = s
        BY <3>2 DEF TypeOK
      <3>4. r[2] \in 1..MaxFeed /\ r[2] <= Len(old) + 1
        BY <1>5, <2>3, <2>5, <3>3 DEF Awaits
      <3>5. ASSUME r[2] <= Len(old) PROVE FALSE
        <4>1. r[2] \in 1..Len(old)
          BY <3>4, <3>5, MaxFeedNat
        <4>2. old[r[2]].paper = p
          BY <1>5, <2>3, <2>5, <3>3, <4>1 DEF Awaits
        <4>. QED
          BY <1>1, <3>1, <3>2, <3>5, <4>2 DEF Awaits
      <3>. QED
        BY <3>2, <3>4, <3>5, MaxFeedNat
    <2>6. <<c, Len(old) + 1>> \in Waiting(p)'
      <3>1. fetch'[c] = s
        BY DEF TypeOK
      <3>. QED
        BY <1>4, <2>4, <3>1, WaitingIsPrime
    <2>7. Waiting(p)' = {<<c, Len(old) + 1>>}
      BY <2>5, <2>6, WaitingIsPrime
    <2>. QED
      BY <1>1, <1>6, <2>1, <2>2, <2>7 DEF Once
  <1>. QED
    BY <1>7, <1>8


\* A failed save makes an orphan of every paper its fetch had added.
LEMMA SaveFailsOnce ==
  ASSUME TypeOK, IInv, NEW p \in Papers, NEW c \in Callers, SaveFails(c)
  PROVE  Once(p)'
  <1>1. /\ fetch' = [fetch EXCEPT ![c].pc = "failed"] /\ fetch[c].pc = "save"
        /\ orphans' = orphans \cup NewPapers(c) /\ UNCHANGED <<catalogue, jobs>>
    BY DEF SaveFails
  <1>. PICK s \in FetchState : /\ fetch' = [fetch EXCEPT ![c] = s] /\ s.pc = "failed"
                               /\ s.newEntries = fetch[c].newEntries
    BY <1>1, PcStep
  <1>2. Requests(p)' = Requests(p) /\ Once(p)
    BY <1>1, RequestsKept DEF IInv
  <1>3. CASE \A i \in 1..MaxFeed : ~Awaits(fetch[c], i, p)
    <2>1. p \notin NewPapers(c)
      BY <1>1, <1>3, NewPapersAwait
    <2>2. \A i \in 1..MaxFeed : Awaits(s, i, p) <=> Awaits(fetch[c], i, p)
      BY <1>3 DEF Awaits
    <2>3. Waiting(p)' = Waiting(p)
      BY <2>2, WaitingKept
    <2>. QED
      BY <1>1, <1>2, <2>1, <2>3, OnceKept
  <1>4. ASSUME NEW i \in 1..MaxFeed, Awaits(fetch[c], i, p) PROVE Once(p)'
    <2>1. p \in NewPapers(c)
      BY <1>1, <1>4, NewPapersAwait
    <2>2. <<c, i>> \in Waiting(p)
      BY <1>4, WaitingIs
    <2>3. catalogue[p] # NoVersion /\ Requests(p) = {} /\ \E w : Waiting(p) = {w}
      BY <1>2, <2>2 DEF Once
    <2>4. Waiting(p)' = {}
      BY <1>4, <2>3, WaitingEnds
    <2>. QED
      BY <1>1, <1>2, <2>1, <2>3, <2>4 DEF Once
  <1>. QED
    BY <1>3, <1>4

\* A scheduled list moves its papers from their fetch to the requests of one job.
LEMMA ScheduleOnce ==
  ASSUME TypeOK, IInv, NEW p \in Papers, NEW c \in Callers, Schedule(c)
  PROVE  Once(p)'
  <1>1. /\ fetch[c].newEntries \in Seq(Entry) /\ jobs \in Seq(Seq(Entry) \ {<<>>})
        /\ FetchInv(c) /\ Once(p)
    BY DEF TypeOK, FetchState, IInv
  <1>. PICK list \in Seq(Entry) : list = fetch[c].newEntries
    BY <1>1
  <1>2. /\ fetch' = [fetch EXCEPT ![c].pc = "answered"] /\ fetch[c].pc = "schedule"
        /\ jobs' = IF list = <<>> THEN jobs ELSE Append(jobs, list)
        /\ UNCHANGED <<catalogue, orphans>>
    BY DEF Schedule, RequestsFromEntries
  <1>. PICK s \in FetchState : /\ fetch' = [fetch EXCEPT ![c] = s] /\ s.pc = "answered"
                               /\ s.newEntries = fetch[c].newEntries
    BY <1>2, PcStep
  <1>3. /\ list # <<>> => /\ DOMAIN jobs' = (DOMAIN jobs) \cup {Len(jobs) + 1}
                          /\ Len(jobs) + 1 \notin DOMAIN jobs
                          /\ jobs'[Len(jobs) + 1] = list
                          /\ \A m \in DOMAIN jobs : jobs'[m] = jobs[m]
        /\ list = <<>> => jobs' = jobs
    BY <1>1, <1>2
  <1>4. CASE \A i \in 1..MaxFeed : ~Awaits(fetch[c], i, p)
    <2>1. \A i \in 1..MaxFeed : Awaits(s, i, p) <=> Awaits(fetch[c], i, p)
      BY <1>4 DEF Awaits
    <2>2. Waiting(p)' = Waiting(p)
      BY <2>1, WaitingKept
    <2>3. \A i \in 1..MaxFeed : ~(i <= Len(list) /\ list[i].paper = p)
      BY <1>2, <1>4 DEF Awaits
    <2>4. Requests(p)' = Requests(p)
      <3>1. CASE list = <<>>
        BY <1>3, <3>1, RequestsKept
      <3>2. CASE list # <<>>
        BY <1>3, <2>3, <3>2 DEF Requests
      <3>. QED
        BY <3>1, <3>2
    <2>. QED
      BY <1>1, <1>2, <2>2, <2>4, OnceKept
  <1>5. ASSUME NEW i \in 1..MaxFeed, Awaits(fetch[c], i, p) PROVE Once(p)'
    <2>1. <<c, i>> \in Waiting(p)
      BY <1>5, WaitingIs
    <2>2. catalogue[p] # NoVersion /\ p \notin orphans /\ Requests(p) = {} /\ \E w : Waiting(p) = {w}
      BY <1>1, <2>1 DEF Once
    <2>3. Waiting(p) = {<<c, i>>} /\ Waiting(p)' = {}
      BY <1>5, <2>2, WaitingEnds
    <2>4. ASSUME NEW j \in 1..MaxFeed, j <= Len(list), list[j].paper = p PROVE j = i
      <3>1. <<c, j>> \in Waiting(p)
        BY <1>2, <2>4, WaitingIs DEF Awaits
      <3>. QED
        BY <2>3, <3>1
    <2>5. i <= Len(list) /\ list[i].paper = p
      BY <1>5 DEF Awaits
    <2>6. list # <<>>
      BY <2>5, MaxFeedNat, NoFetchInv
    <2>7. \A m \in DOMAIN jobs : \A j \in 1..MaxFeed : ~(j <= Len(jobs[m]) /\ jobs[m][j].paper = p)
      <3>. SUFFICES ASSUME NEW m \in DOMAIN jobs, NEW j \in 1..MaxFeed,
                           j <= Len(jobs[m]), jobs[m][j].paper = p
                    PROVE  FALSE
        OBVIOUS
      <3>1. <<m, j>> \in Requests(p)
        BY DEF Requests
      <3>. QED
        BY <2>2, <3>1
    <2>8. Requests(p)' = {r \in (DOMAIN jobs') \X (1..MaxFeed) :
                            r[2] <= Len(jobs'[r[1]]) /\ jobs'[r[1]][r[2]].paper = p}
      BY DEF Requests
    <2>9. <<Len(jobs) + 1, i>> \in Requests(p)'
      BY <1>3, <2>5, <2>6, <2>8
    <2>10. ASSUME NEW r \in Requests(p)' PROVE r = <<Len(jobs) + 1, i>>
      <3>1. /\ r \in (DOMAIN jobs') \X (1..MaxFeed)
            /\ r[2] <= Len(jobs'[r[1]]) /\ jobs'[r[1]][r[2]].paper = p
        BY <2>8
      <3>2. r[1] \notin DOMAIN jobs
        BY <1>3, <2>6, <2>7, <3>1
      <3>3. r[1] = Len(jobs) + 1
        BY <1>3, <2>6, <3>1, <3>2
      <3>4. r[2] = i
        BY <1>3, <2>4, <2>6, <3>1, <3>3
      <3>. QED
        BY <3>1, <3>3, <3>4
    <2>11. Requests(p)' = {<<Len(jobs) + 1, i>>}
      BY <2>9, <2>10
    <2>. QED
      BY <1>2, <2>2, <2>3, <2>11 DEF Once
  <1>. QED
    BY <1>4, <1>5

\* An exit makes an orphan of every paper that was about to be requested.
LEMMA ExitOnce ==
  ASSUME TypeOK, IInv, NEW p \in Papers, Exit
  PROVE  Once(p)'
  <1>1. /\ fetch' = [c \in Callers |-> NoFetch] /\ UNCHANGED <<catalogue, jobs>>
        /\ orphans' = orphans \cup UNION {NewPapers(c) : c \in InFlight}
    BY DEF Exit
  <1>2. Requests(p)' = Requests(p) /\ Once(p)
    BY <1>1, RequestsKept DEF IInv
  <1>3. Waiting(p)' = {}
    <2>1. \A r \in Callers \X (1..MaxFeed) : ~Awaits(fetch'[r[1]], r[2], p)
      BY <1>1, NoFetchInv DEF Awaits
    <2>. QED
      BY <2>1, WaitingIsPrime
  <1>4. p \in UNION {NewPapers(c) : c \in InFlight} <=> Waiting(p) # {}
    <2>1. ASSUME NEW c \in InFlight, p \in NewPapers(c) PROVE Waiting(p) # {}
      <3>1. c \in Callers /\ fetch[c].pc \in {"upstream", "save", "schedule"}
        BY DEF InFlight
      <3>2. PICK i \in 1..MaxFeed : Awaits(fetch[c], i, p)
        BY <2>1, <3>1, NewPapersAwait
      <3>3. <<c, i>> \in Waiting(p)
        BY <3>1, <3>2, WaitingIs
      <3>. QED
        BY <3>3
    <2>2. ASSUME NEW r \in Waiting(p) PROVE r[1] \in InFlight /\ p \in NewPapers(r[1])
      <3>1. r[1] \in Callers /\ r[2] \in 1..MaxFeed /\ Awaits(fetch[r[1]], r[2], p)
        BY WaitingIs
      <3>2. fetch[r[1]].pc \in {"upstream", "save", "schedule"}
        BY <3>1 DEF Awaits
      <3>. QED
        BY <3>1, <3>2, NewPapersAwait DEF InFlight
    <2>. QED
      BY <2>1, <2>2
  <1>5. CASE Waiting(p) = {}
    BY <1>1, <1>2, <1>3, <1>4, <1>5, OnceKept
  <1>6. CASE Waiting(p) # {}
    <2>1. catalogue[p] # NoVersion /\ Requests(p) = {}
      BY <1>2, <1>6 DEF Once
    <2>. QED
      BY <1>1, <1>2, <1>3, <1>4, <1>6, <2>1 DEF Once
  <1>. QED
    BY <1>5, <1>6

\* Every step keeps every paper in its one place.
LEMMA NextOnce ==
  ASSUME TypeOK, IInv, [Next]_vars, NEW p \in Papers
  PROVE  Once(p)'
  <1>1. CASE UNCHANGED vars
    <2>1. UNCHANGED <<catalogue, fetch, jobs, orphans>>
      BY <1>1 DEF vars
    <2>2. Waiting(p)' = Waiting(p)
      BY <2>1 DEF Waiting, InFlight
    <2>. QED
      BY <2>1, <2>2, RequestsKept, OnceKept DEF IInv
  <1>. QED
    BY <1>1, QuietStepsOnce, SaveOnce, SaveFailsOnce, ScheduleOnce, ExitOnce DEF Next, Step

-----------------------------------------------------------------------------
(* The theorems.                                                           *)

\* Nothing is fetched yet, and no paper is anywhere.
LEMMA InitInv == Init => TypeOK /\ IInv
  <1>. SUFFICES ASSUME Init PROVE TypeOK /\ IInv
    OBVIOUS
  <1>1. \A c \in Callers : fetch[c] = NoFetch
    BY DEF Init
  <1>2. TypeOK
    <2>1. \A c \in Callers : fetch[c].saved <= Len(fetch[c].feed)
      BY <1>1, NoFetchInv
    <2>2. fetch \in [Callers -> FetchState] /\ jobs \in Seq(Seq(Entry) \ {<<>>})
      BY NoFetchInv DEF Init
    <2>. QED
      BY <2>1, <2>2 DEF Init, TypeOK
  <1>3. ASSUME NEW c \in Callers PROVE FetchInv(c)
    <2>1. 1..Len(<<>>) = {}
      BY NoFetchInv
    <2>. QED
      BY <1>1, <2>1, NoFetchInv DEF FetchInv
  <1>4. DOMAIN jobs = {}
    BY DEF Init
  <1>5. RequestedVersionIsKept
    BY <1>4 DEF RequestedVersionIsKept
  <1>7. ListsFit
    BY <1>4 DEF ListsFit
  <1>6. ASSUME NEW p \in Papers PROVE Once(p)
    <2>1. Requests(p) = {}
      BY <1>4 DEF Requests
    <2>2. Waiting(p) = {}
      BY <1>1, NoFetchInv DEF Waiting, InFlight
    <2>. QED
      BY <2>1, <2>2 DEF Init, Once
  <1>. QED
    BY <1>2, <1>3, <1>5, <1>6, <1>7 DEF IInv

\* The inductive invariant holds.
THEOREM Invariant == Spec => [](TypeOK /\ IInv)
  <1>1. TypeOK /\ IInv /\ [Next]_vars => (TypeOK /\ IInv)'
    BY NextType, NextFetches, NextVersions, NextLists, NextOnce DEF IInv
  <1>. QED
    BY <1>1, InitInv, PTL DEF Spec

\* Every fetch, request and row has its type; a fetch saves no more than its feed holds.
THEOREM TypeCorrect == Spec => []TypeOK
  BY Invariant, PTL

\* The PDF that is requested is that of the version the papers table keeps, for any number
\* of overlapping fetches, feeds, failures and exits.
THEOREM RequestedVersionIsKeptHolds == Spec => []RequestedVersionIsKept
  <1>1. IInv => RequestedVersionIsKept
    BY DEF IInv
  <1>. QED
    BY <1>1, Invariant, PTL

\* A paper is requested at most once, ever, and it is requested, about to be, or an orphan
\* exactly when the table has it.
THEOREM OneDownloadPerPaperHolds == Spec => []OneDownloadPerPaper
  <1>1. TypeOK /\ IInv => OneDownloadPerPaper
    <2>. SUFFICES ASSUME IInv, NEW p \in Papers
                  PROVE  Cardinality(Requests(p)) + Cardinality(Waiting(p)) + Cardinality({p} \cap orphans)
                           = IF catalogue[p] = NoVersion THEN 0 ELSE 1
      BY DEF OneDownloadPerPaper
    <2>1. Once(p)
      BY DEF IInv
    <2>2. Cardinality({}) = 0 /\ \A x : Cardinality({x}) = 1
      BY FS_EmptySet, FS_Singleton
    <2>3. p \in orphans => {p} \cap orphans = {p}
      OBVIOUS
    <2>4. p \notin orphans => {p} \cap orphans = {}
      OBVIOUS
    <2>. PICK r : r = Requests(p)
      OBVIOUS
    <2>. PICK w : w = Waiting(p)
      OBVIOUS
    <2>5. /\ Cardinality(r) = 0 \/ Cardinality(r) = 1
          /\ Cardinality(w) = 0 \/ Cardinality(w) = 1
          /\ Cardinality(r) + Cardinality(w) + (IF p \in orphans THEN 1 ELSE 0)
               = IF catalogue[p] = NoVersion THEN 0 ELSE 1
      <3>1. CASE catalogue[p] = NoVersion
        <4>1. Cardinality(r) = 0 /\ Cardinality(w) = 0 /\ p \notin orphans
          BY <2>1, <2>2, <3>1 DEF Once
        <4>. QED
          BY <3>1, <4>1
      <3>2. CASE catalogue[p] # NoVersion
        <4>1. \/ Cardinality(r) = 1 /\ Cardinality(w) = 0 /\ p \notin orphans
              \/ Cardinality(r) = 0 /\ Cardinality(w) = 1 /\ p \notin orphans
              \/ Cardinality(r) = 0 /\ Cardinality(w) = 0 /\ p \in orphans
          BY <2>1, <2>2, <3>2 DEF Once
        <4>. QED
          BY <3>2, <4>1
      <3>. QED
        BY <3>1, <3>2
    <2>6. Cardinality({p} \cap orphans) = IF p \in orphans THEN 1 ELSE 0
      BY <2>2, <2>3, <2>4
    <2>. QED
      BY <2>5, <2>6
  <1>. QED
    BY <1>1, Invariant, PTL

=============================================================================
