---------------------------- MODULE SourcesProofs ----------------------------
(***************************************************************************)
(* Theorems about Sources, for any clients, requests, seeds and bounds.    *)
(***************************************************************************)
EXTENDS Sources, TLAPS

\* The call holds a copy of a row that it will write.
Holds(c) == call[c].pc \in {"update", "insert"}

\* What each place of a call says about what it carries.
CallInv(c) ==
    /\ (call[c].pc = "find" \/ Holds(c)) => call[c].row \in Row
    /\ call[c].pc = "find" => call[c].op = "create"
    /\ call[c].pc = "load" => call[c].op = "update" /\ call[c].id \in Ids
    /\ call[c].pc \in {"find", "load"} => ~call[c].overtaken
    /\ Holds(c) => call[c].id \in 1..issued
    /\ call[c].pc # "idle" /\ call[c].op = "create" => call[c].row.active = "on"

\* Ids are given out once: a row and a call that will write one have an id that was issued,
\* and whoever writes an id writes the same URL under it.
IdInv ==
    /\ \A id \in Ids : rows[id] # NoRow => id \in 1..issued
    /\ \A c \in Callers : Holds(c) /\ rows[call[c].id] # NoRow => rows[call[c].id].url = call[c].row.url
    /\ \A c, d \in Callers : Holds(c) /\ Holds(d) /\ call[c].id = call[d].id =>
         call[c].row.url = call[d].row.url

\* What the call will write is what its request asks for, given what is in the table now.
Current(c) ==
    IF call[c].op = "create" THEN rows[call[c].id] = NoRow
    ELSE /\ call[c].pc = "update" /\ rows[call[c].id] # NoRow
         /\ call[c].row = Changed(rows[call[c].id], call[c].name, call[c].active)

\* A copy nobody overtook is current.
CopyInv == \A c \in Callers : Holds(c) /\ ~call[c].overtaken => Current(c)

\* A source the current seed run need not add any more.
Settled(url) == UrlTaken(url) \/ url \in removed

\* The run is past what is settled; the create it is in is that of the source it is at, and
\* another row with that URL is a client's.
SeedInv ==
    /\ seed.at \in Nat \ {0}
    /\ seed.pc \in {"next", "create", "done"} =>
         \A i \in 1..Len(Seeds) : i < seed.at => Settled(Seeds[i].url)
    /\ seed.pc = "done" => seed.at > Len(Seeds)
    /\ seed.pc = "failed" => seed.faulted \/ Seeds[seed.at].url \in contested
    /\ seed.pc # "create" => call[Seeder].pc = "idle"
    /\ seed.pc = "create" =>
         /\ seed.at \in 1..Len(Seeds)
         /\ call[Seeder].pc # "load"
         /\ call[Seeder].pc # "idle" =>
              call[Seeder].op = "create" /\ call[Seeder].row.url = Seeds[seed.at].url
         /\ call[Seeder].pc = "idle" =>
              \/ Skips(call[Seeder].outcome) /\ Settled(Seeds[seed.at].url)
              \/ call[Seeder].outcome = "error" /\ (seed.faulted \/ Seeds[seed.at].url \in contested)
         /\ Holds(Seeder) =>
              \A id \in Ids : rows[id] # NoRow /\ rows[id].url = Seeds[seed.at].url =>
                id = call[Seeder].id \/ Seeds[seed.at].url \in contested

\* The inductive invariant.
IInv ==
    /\ \A c \in Callers : CallInv(c)
    /\ IdInv
    /\ OneSourcePerUrl
    /\ CopyInv
    /\ SeedInv


-----------------------------------------------------------------------------
(* Typing.                                                                 *)

\* The records a call goes through are well typed.
LEMMA CallTypes ==
  /\ NoCall \in CallState
  /\ \A outcome \in {"none", "ok", "invalid", "conflict", "notfound", "error"} :
       Ended(outcome) \in CallState /\ Ended(outcome).pc = "idle" /\ Ended(outcome).outcome = outcome
  /\ \A url \in Urls, name \in Names :
       /\ Creating(url, name) \in CallState
       /\ Creating(url, name).pc = "find" /\ Creating(url, name).op = "create"
       /\ ~Creating(url, name).overtaken
       /\ Creating(url, name).row.url = url /\ Creating(url, name).row.active = "on"
       /\ Creating(url, name).row \in Row
  /\ \A row \in Row, name \in NameWanted, active \in ActiveWanted :
       Changed(row, name, active) \in Row /\ Changed(row, name, active).url = row.url
  /\ \A row \in Row : Inserted(row) \in Row /\ Inserted(row).url = row.url
  <1>1. NoCall \in CallState
    BY DEF NoCall, CallState, NameWanted, ActiveWanted
  <1>2. ASSUME NEW outcome \in {"none", "ok", "invalid", "conflict", "notfound", "error"}
        PROVE  Ended(outcome) \in CallState /\ Ended(outcome).pc = "idle"
               /\ Ended(outcome).outcome = outcome
    BY DEF Ended, NoCall, CallState, NameWanted, ActiveWanted
  <1>3. ASSUME NEW url \in Urls, NEW name \in Names
        PROVE  /\ Creating(url, name) \in CallState
               /\ Creating(url, name).pc = "find" /\ Creating(url, name).op = "create"
               /\ ~Creating(url, name).overtaken
               /\ Creating(url, name).row.url = url /\ Creating(url, name).row.active = "on"
               /\ Creating(url, name).row \in Row
    BY DEF Creating, NoCall, CallState, Row, NameWanted, ActiveWanted
  <1>4. ASSUME NEW row \in Row, NEW name \in NameWanted, NEW active \in ActiveWanted
        PROVE  Changed(row, name, active) \in Row /\ Changed(row, name, active).url = row.url
    BY DEF Changed, Row, NameWanted, ActiveWanted
  <1>5. ASSUME NEW row \in Row PROVE Inserted(row) \in Row /\ Inserted(row).url = row.url
    BY DEF Inserted, Row
  <1>. QED
    BY <1>1, <1>2, <1>3, <1>4, <1>5

\* Every request of the seed is one that Create accepts.
LEMMA SeedTypes == \A i \in 1..Len(Seeds) : Seeds[i].url \in Urls /\ Seeds[i].name \in Names
  <1>. DEFINE Asked == [url : Urls, name : Names]
  <1>1. Seeds \in Seq(Asked)
    BY SeedsAreRequests
  <1>2. \A request \in Asked : request.url \in Urls /\ request.name \in Names
    OBVIOUS
  <1>. HIDE DEF Asked
  <1>. QED
    BY <1>1, <1>2

\* What Mark does, field by field.
LEMMA Marked ==
  ASSUME call \in [Callers -> CallState], NEW c \in Callers, NEW id, NEW s,
         call' = Mark(c, id, s)
  PROVE  /\ DOMAIN call' = Callers /\ call'[c] = s
         /\ \A d \in Callers : d # c =>
              /\ call'[d] \in CallState
              /\ call'[d].pc = call[d].pc /\ call'[d].op = call[d].op /\ call'[d].id = call[d].id
              /\ call'[d].row = call[d].row /\ call'[d].name = call[d].name
              /\ call'[d].active = call[d].active /\ call'[d].outcome = call[d].outcome
              /\ call'[d].overtaken = (call[d].overtaken \/ (Holds(d) /\ call[d].id = id))
  <1>1. DOMAIN call' = Callers /\ call'[c] = s
    BY DEF Mark
  <1>2. ASSUME NEW d \in Callers, d # c
        PROVE  /\ call'[d] \in CallState
               /\ call'[d].pc = call[d].pc /\ call'[d].op = call[d].op /\ call'[d].id = call[d].id
               /\ call'[d].row = call[d].row /\ call'[d].name = call[d].name
               /\ call'[d].active = call[d].active /\ call'[d].outcome = call[d].outcome
               /\ call'[d].overtaken = (call[d].overtaken \/ (Holds(d) /\ call[d].id = id))
    <2>1. call[d] \in CallState
      OBVIOUS
    <2>2. CASE d \in Overtaken(c, id)
      <3>1. call'[d] = [call[d] EXCEPT !.overtaken = TRUE] /\ Holds(d) /\ call[d].id = id
        BY <1>2, <2>2 DEF Mark, Overtaken, Holds
      <3>. QED
        BY <2>1, <3>1 DEF CallState
    <2>3. CASE d \notin Overtaken(c, id)
      <3>1. call'[d] = call[d] /\ ~(Holds(d) /\ call[d].id = id)
        BY <1>2, <2>3 DEF Mark, Overtaken, Holds
      <3>. QED
        BY <2>1, <3>1 DEF CallState
    <2>. QED
      BY <2>2, <2>3
  <1>. QED
    BY <1>1, <1>2

\* Marking keeps the calls well typed.
LEMMA MarkedType ==
  ASSUME call \in [Callers -> CallState], NEW c \in Callers, NEW id, NEW s \in CallState,
         call' = Mark(c, id, s)
  PROVE  call' \in [Callers -> CallState]
  <1>1. \A d \in Callers : call'[d] \in CallState
    BY Marked
  <1>. QED
    BY <1>1 DEF Mark

LEMMA InitType == Init => TypeOK /\ IInv
  <1>. SUFFICES ASSUME Init PROVE TypeOK /\ IInv
    OBVIOUS
  <1>1. TypeOK
    BY CallTypes, BoundsAreNaturals DEF Init, TypeOK, SeedState
  <1>2. \A c \in Callers : call[c].pc = "idle"
    BY DEF Init, NoCall
  <1>3. \A id \in Ids : ~Present(id)
    BY DEF Init, Present
  <1>4. seed.pc = "off" /\ seed.at = 1 /\ Seeder \in Callers
    BY DEF Init, Callers
  <1>5. SeedInv
    BY <1>2, <1>4 DEF SeedInv
  <1>. QED
    BY <1>1, <1>2, <1>3, <1>5 DEF IInv, CallInv, IdInv, OneSourcePerUrl, CopyInv, Holds, Present

\* What a call in progress carries.
LEMMA CallerTypes ==
  ASSUME TypeOK, IInv, NEW c \in Callers
  PROVE  /\ call[c] \in CallState /\ call \in [Callers -> CallState]
         /\ rows \in [Ids -> Row \cup {NoRow}] /\ issued \in Nat /\ issued <= MaxIds
         /\ Holds(c) => call[c].id \in Ids /\ call[c].row \in Row
         /\ call[c].pc = "find" => call[c].row \in Row
         /\ call[c].pc = "load" => call[c].id \in Ids
  BY BoundsAreNaturals DEF TypeOK, IInv, CallInv, Ids

\* Every step keeps the types.
LEMMA NextType == TypeOK /\ IInv /\ [Next]_vars => TypeOK'
  <1>. SUFFICES ASSUME TypeOK, IInv, [Next]_vars PROVE TypeOK'
    OBVIOUS
  <1>0. /\ rows \in [Ids -> Row \cup {NoRow}] /\ call \in [Callers -> CallState]
        /\ seed \in SeedState /\ issued \in 0..MaxIds /\ MaxIds \in Nat
        /\ calls \in [client : Nat, seed : Nat, fault : Nat]
        /\ contested \in SUBSET Urls /\ removed \in SUBSET Urls
        /\ Seeder \in Callers /\ Clients \subseteq Callers
    BY BoundsAreNaturals DEF TypeOK, Callers
  <1>1. ASSUME NEW c \in Clients, Requests(c) PROVE TypeOK'
    <2>0. ASSUME Arrives(c) PROVE calls' \in [client : Nat, seed : Nat, fault : Nat]
      BY <1>0, <2>0 DEF Arrives
    <2>1. ASSUME NEW url \in Urls, NEW name \in Names \cup {"blank"}, CreateArrives(c, url, name)
          PROVE  TypeOK'
      <3>1. call' \in [Callers -> CallState]
        <4>1. CASE name = "blank"
          BY <1>0, <2>1, <4>1, CallTypes DEF CreateArrives
        <4>2. CASE name # "blank"
          BY <1>0, <2>1, <4>2, CallTypes DEF CreateArrives
        <4>. QED
          BY <4>1, <4>2
      <3>. QED
        BY <1>0, <2>0, <2>1, <3>1 DEF CreateArrives, CallOnly, TypeOK
    <2>2. ASSUME NEW id \in Ids, NEW name \in NameWanted \cup {"blank"}, NEW active \in ActiveWanted,
                 UpdateArrives(c, id, name, active)
          PROVE  TypeOK'
      <3>1. CASE name = "blank"
        <4>1. call' \in [Callers -> CallState]
          BY <1>0, <2>2, <3>1, CallTypes DEF UpdateArrives
        <4>. QED
          BY <1>0, <2>0, <2>2, <4>1 DEF UpdateArrives, CallOnly, TypeOK
      <3>2. CASE name # "blank"
        <4>1. [NoCall EXCEPT !.pc = "load", !.op = "update", !.id = id,
                             !.name = name, !.active = active] \in CallState
          <5>1. id \in Nat /\ name \in NameWanted /\ active \in ActiveWanted
            BY <2>2, <3>2 DEF Ids
          <5>. QED
            BY <5>1, CallTypes DEF CallState
        <4>2. call' \in [Callers -> CallState]
          BY <1>0, <2>2, <3>2, <4>1 DEF UpdateArrives
        <4>. QED
          BY <1>0, <2>0, <2>2, <4>2 DEF UpdateArrives, CallOnly, TypeOK
      <3>. QED
        BY <3>1, <3>2
    <2>3. ASSUME NEW id \in Ids, Delete(c, id) PROVE TypeOK'
      <3>1. rows' \in [Ids -> Row \cup {NoRow}] /\ removed' \in SUBSET Urls
        <4>1. Present(id) => rows[id].url \in Urls
          BY <1>0 DEF Present, Row
        <4>. QED
          BY <1>0, <2>3, <4>1 DEF Delete
      <3>2. call' \in [Callers -> CallState]
        <4>1. CASE Present(id)
          <5>1. call' = Mark(c, id, Ended("ok")) /\ Ended("ok") \in CallState
            BY <2>3, <4>1, CallTypes DEF Delete
          <5>. QED
            BY <1>0, <5>1, MarkedType
        <4>2. CASE ~Present(id)
          BY <1>0, <2>3, <4>2, CallTypes DEF Delete
        <4>. QED
          BY <4>1, <4>2
      <3>. QED
        BY <1>0, <2>0, <2>3, <3>1, <3>2 DEF Delete, TypeOK
    <2>. QED
      BY <1>1, <2>1, <2>2, <2>3 DEF Requests
  <1>2. ASSUME NEW c \in Callers, FindByURL(c) PROVE TypeOK'
    <2>1. [call[c] EXCEPT !.pc = "update", !.id = issued + 1] \in CallState
      <3>1. call[c] \in CallState /\ issued + 1 \in Nat
        BY <1>0
      <3>. QED
        BY <3>1 DEF CallState
    <2>2. [call EXCEPT ![c].pc = "update", ![c].id = issued + 1]
            = [call EXCEPT ![c] = [call[c] EXCEPT !.pc = "update", !.id = issued + 1]]
      BY <1>0
    <2>3. call' \in [Callers -> CallState]
      BY <1>0, <1>2, <2>1, <2>2, CallTypes DEF FindByURL
    <2>4. issued' \in 0..MaxIds
      BY <1>0, <1>2 DEF FindByURL
    <2>. QED
      BY <1>0, <1>2, <2>3, <2>4 DEF FindByURL, TypeOK
  <1>3. ASSUME NEW c \in Callers, Load(c) PROVE TypeOK'
    <2>1. call[c].id \in Ids
      BY <1>3, CallerTypes DEF Load
    <2>2. ASSUME Present(call[c].id)
          PROVE  [call[c] EXCEPT !.pc = "update",
                    !.row = Changed(rows[call[c].id], call[c].name, call[c].active)] \in CallState
      <3>1. rows[call[c].id] \in Row
        BY <1>0, <2>1, <2>2 DEF Present
      <3>2. call[c].name \in NameWanted /\ call[c].active \in ActiveWanted
        BY <1>0 DEF CallState
      <3>. PICK row \in Row : row = Changed(rows[call[c].id], call[c].name, call[c].active)
        BY <3>1, <3>2, CallTypes
      <3>3. call[c] \in CallState
        BY <1>0
      <3>4. [call[c] EXCEPT !.pc = "update", !.row = row] \in CallState
        BY <3>3 DEF CallState
      <3>. QED
        BY <3>4
    <2>3. call' \in [Callers -> CallState]
      BY <1>0, <1>3, <2>2, CallTypes DEF Load
    <2>. QED
      BY <1>0, <1>3, <2>3 DEF Load, CallOnly, TypeOK
  <1>4. ASSUME NEW c \in Callers, SaveUpdate(c) PROVE TypeOK'
    <2>1. call[c].id \in Ids /\ call[c].row \in Row
      BY <1>4, CallerTypes DEF SaveUpdate, Holds
    <2>2. [call EXCEPT ![c].pc = "insert"] \in [Callers -> CallState]
      BY <1>0 DEF CallState
    <2>3. call' \in [Callers -> CallState]
      BY <1>0, <1>4, <2>2, CallTypes, MarkedType DEF SaveUpdate
    <2>. QED
      BY <1>0, <1>4, <2>1, <2>3 DEF SaveUpdate, TypeOK
  <1>5. ASSUME NEW c \in Callers, SaveInsert(c) PROVE TypeOK'
    <2>1. call[c].id \in Ids /\ Inserted(call[c].row) \in Row
      BY <1>5, CallerTypes, CallTypes DEF SaveInsert, Holds
    <2>2. call' \in [Callers -> CallState]
      BY <1>0, <1>5, CallTypes, MarkedType DEF SaveInsert
    <2>3. Inserted(call[c].row).url \in Urls
      BY <2>1 DEF Row
    <2>. QED
      BY <1>0, <1>5, <2>1, <2>2, <2>3 DEF SaveInsert, TypeOK
  <1>20. /\ seed.pc \in {"off", "next", "create", "done", "failed"} /\ seed.at \in Nat
         /\ seed.faulted \in BOOLEAN
         /\ seed = [pc |-> seed.pc, at |-> seed.at, faulted |-> seed.faulted]
    BY <1>0 DEF SeedState
  <1>6. ASSUME NEW c \in Callers, StatementFails(c) PROVE TypeOK'
    <2>1. seed' \in SeedState
      BY <1>0, <1>6, <1>20 DEF StatementFails, SeedState
    <2>2. call' \in [Callers -> CallState]
      BY <1>0, <1>6, CallTypes DEF StatementFails
    <2>. QED
      BY <1>0, <1>6, <2>1, <2>2 DEF StatementFails, TypeOK
  <1>7. CASE SeedStarts
    <2>1. seed' \in SeedState
      BY <1>7 DEF SeedStarts, SeedState
    <2>. QED
      BY <1>0, <1>7, <2>1 DEF SeedStarts, TypeOK
  <1>8. CASE SeedCreates
    <2>1. seed.at \in 1..Len(Seeds)
      BY <1>8, <1>20, SeedsAreRequests DEF SeedCreates, IInv, SeedInv
    <2>2. Creating(Seeds[seed.at].url, Seeds[seed.at].name) \in CallState
      BY <2>1, SeedTypes, CallTypes
    <2>3. seed' \in SeedState
      BY <1>8, <1>20 DEF SeedCreates, SeedState
    <2>4. call' \in [Callers -> CallState]
      BY <1>0, <1>8, <2>2 DEF SeedCreates
    <2>. QED
      BY <1>0, <1>8, <2>3, <2>4 DEF SeedCreates, TypeOK
  <1>9. CASE SeedHandles \/ SeedCompletes
    <2>1. seed' \in SeedState
      <3>1. seed.at + 1 \in Nat
        BY <1>20
      <3>2. CASE SeedHandles
        BY <1>20, <3>1, <3>2 DEF SeedHandles, SeedState
      <3>3. CASE SeedCompletes
        BY <1>20, <3>3 DEF SeedCompletes, SeedState
      <3>. QED
        BY <1>9, <3>2, <3>3
    <2>. QED
      BY <1>0, <1>9, <2>1 DEF SeedHandles, SeedCompletes, TypeOK
  <1>10. CASE SeedKilled
    <2>1. seed' \in SeedState
      BY <1>10, <1>20 DEF SeedKilled, SeedState
    <2>2. call' \in [Callers -> CallState]
      BY <1>0, <1>10, CallTypes DEF SeedKilled
    <2>. QED
      BY <1>0, <1>10, <2>1, <2>2 DEF SeedKilled, TypeOK
  <1>11. CASE UNCHANGED vars
    BY <1>11 DEF vars, TypeOK
  <1>. QED
    BY <1>1, <1>2, <1>3, <1>4, <1>5, <1>6, <1>7, <1>8, <1>9, <1>10, <1>11 DEF Next, Step


-----------------------------------------------------------------------------
(* Calls and the rows they write.                                          *)

\* A call that another caller's step only marked, if at all, stays in order.
LEMMA CallKept ==
  ASSUME TypeOK, IInv, NEW d \in Callers, issued' \in Nat, issued' >= issued,
         call'[d].pc = call[d].pc, call'[d].op = call[d].op, call'[d].id = call[d].id,
         call'[d].row = call[d].row,
         call'[d].overtaken => call[d].overtaken \/ Holds(d)
  PROVE  CallInv(d)'
  <1>1. CallInv(d) /\ issued \in Nat
    BY CallerTypes DEF IInv
  <1>2. Holds(d)' = Holds(d)
    BY DEF Holds
  <1>3. Holds(d) => call'[d].id \in 1..issued'
    BY <1>1 DEF CallInv
  <1>. QED
    BY <1>1, <1>2, <1>3 DEF CallInv, Holds

\* A call that has just ended is in order.
LEMMA CallEnds ==
  ASSUME NEW c \in Callers, call'[c].pc = "idle"
  PROVE  CallInv(c)'
  BY DEF CallInv, Holds

\* Each call stays in order through its own steps and those of others.
LEMMA NextCall == TypeOK /\ IInv /\ [Next]_vars => \A d \in Callers : CallInv(d)'
  <1>. SUFFICES ASSUME TypeOK, IInv, [Next]_vars, NEW d \in Callers PROVE CallInv(d)'
    OBVIOUS
  <1>0. /\ call \in [Callers -> CallState] /\ issued \in Nat
        /\ Seeder \in Callers /\ Clients \subseteq Callers
    BY CallerTypes DEF Callers
  <1>1. ASSUME issued' \in Nat, issued' >= issued, call'[d] = call[d] PROVE CallInv(d)'
    BY <1>1, CallKept
  <1>2. ASSUME issued' = issued, NEW c \in Callers, NEW s, s.pc = "idle",
               call' = [call EXCEPT ![c] = s]
        PROVE  CallInv(d)'
    BY <1>0, <1>1, <1>2, CallEnds
  <1>3. ASSUME issued' = issued, NEW c \in Callers, NEW id, NEW s, s.pc = "idle",
               call' = Mark(c, id, s)
        PROVE  CallInv(d)'
    <2>1. CASE d = c
      BY <1>0, <1>3, <2>1, Marked, CallEnds
    <2>2. CASE d # c
      <3>1. /\ call'[d].pc = call[d].pc /\ call'[d].op = call[d].op /\ call'[d].id = call[d].id
            /\ call'[d].row = call[d].row
            /\ call'[d].overtaken = (call[d].overtaken \/ (Holds(d) /\ call[d].id = id))
        BY <1>0, <1>3, <2>2, Marked
      <3>. QED
        <4>1. issued' \in Nat /\ issued' >= issued
          BY <1>0, <1>3
        <4>2. call'[d].overtaken => call[d].overtaken \/ Holds(d)
          BY <3>1
        <4>. QED
          BY <3>1, <4>1, <4>2, CallKept
    <2>. QED
      BY <2>1, <2>2
  <1>4. ASSUME NEW c \in Clients, Requests(c) PROVE CallInv(d)'
    <2>1. ASSUME NEW url \in Urls, NEW name \in Names \cup {"blank"}, CreateArrives(c, url, name)
          PROVE  CallInv(d)'
      <3>1. CASE name = "blank"
        <4>1. call' = [call EXCEPT ![c] = Ended("invalid")] /\ issued' = issued
          BY <2>1, <3>1 DEF CreateArrives, CallOnly
        <4>2. Ended("invalid").pc = "idle"
          BY CallTypes
        <4>. QED
          BY <1>0, <1>2, <4>1, <4>2
      <3>2. CASE name # "blank"
        <4>1. name \in Names /\ call' = [call EXCEPT ![c] = Creating(url, name)] /\ issued' = issued
          BY <2>1, <3>2 DEF CreateArrives, CallOnly
        <4>. DEFINE s == Creating(url, name)
        <4>3. s.pc = "find" /\ s.op = "create" /\ ~s.overtaken /\ s.row \in Row /\ s.row.active = "on"
              /\ call' = [call EXCEPT ![c] = s]
          BY <4>1, CallTypes
        <4>. HIDE DEF s
        <4>2. d = c => CallInv(d)'
          BY <1>0, <4>3 DEF CallInv, Holds
        <4>. QED
          BY <1>0, <1>1, <4>1, <4>2
      <3>. QED
        BY <3>1, <3>2
    <2>2. ASSUME NEW id \in Ids, NEW name \in NameWanted \cup {"blank"}, NEW active \in ActiveWanted,
                 UpdateArrives(c, id, name, active)
          PROVE  CallInv(d)'
      <3>1. CASE name = "blank"
        <4>1. call' = [call EXCEPT ![c] = Ended("invalid")] /\ issued' = issued
          BY <2>2, <3>1 DEF UpdateArrives, CallOnly
        <4>2. Ended("invalid").pc = "idle"
          BY CallTypes
        <4>. QED
          BY <1>0, <1>2, <4>1, <4>2
      <3>2. CASE name # "blank"
        <4>. DEFINE s == [NoCall EXCEPT !.pc = "load", !.op = "update", !.id = id,
                                        !.name = name, !.active = active]
        <4>1. call' = [call EXCEPT ![c] = s] /\ issued' = issued
          BY <2>2, <3>2 DEF UpdateArrives, CallOnly
        <4>2. s.pc = "load" /\ s.op = "update" /\ s.id = id /\ ~s.overtaken
          BY DEF NoCall
        <4>. HIDE DEF s
        <4>3. d = c => CallInv(d)'
          BY <1>0, <4>1, <4>2 DEF CallInv, Holds
        <4>. QED
          BY <1>0, <1>1, <4>1, <4>3
      <3>. QED
        BY <3>1, <3>2
    <2>3. ASSUME NEW id \in Ids, Delete(c, id) PROVE CallInv(d)'
      <3>1. CASE Present(id)
        BY <1>0, <1>3, <2>3, <3>1, CallTypes DEF Delete
      <3>2. CASE ~Present(id)
        BY <1>0, <1>2, <2>3, <3>2, CallTypes DEF Delete
      <3>. QED
        BY <3>1, <3>2
    <2>. QED
      BY <1>4, <2>1, <2>2, <2>3 DEF Requests
  <1>5. ASSUME NEW c \in Callers, FindByURL(c) PROVE CallInv(d)'
    <2>1. CASE UrlTaken(call[c].row.url)
      BY <1>0, <1>2, <1>5, <2>1, CallTypes DEF FindByURL
    <2>2. CASE ~UrlTaken(call[c].row.url)
      <3>1. /\ issued' = issued + 1 /\ \A e \in Callers : e # c => call'[e] = call[e]
            /\ call'[c].pc = "update" /\ call'[c].id = issued + 1 /\ call'[c].op = call[c].op
            /\ call'[c].row = call[c].row
        BY <1>0, <1>5, <2>2 DEF FindByURL, CallState
      <3>2. CallInv(c) /\ call[c].pc = "find"
        BY <1>5 DEF IInv, FindByURL
      <3>3. CallInv(c)'
        BY <1>0, <3>1, <3>2 DEF CallInv, Holds
      <3>. QED
        BY <1>0, <1>1, <3>1, <3>3
    <2>. QED
      BY <2>1, <2>2
  <1>6. ASSUME NEW c \in Callers, Load(c) PROVE CallInv(d)'
    <2>1. CASE ~Present(call[c].id)
      BY <1>0, <1>2, <1>6, <2>1, CallTypes DEF Load, CallOnly
    <2>2. CASE Present(call[c].id)
      <3>. DEFINE row == Changed(rows[call[c].id], call[c].name, call[c].active)
      <3>1. /\ issued' = issued /\ \A e \in Callers : e # c => call'[e] = call[e]
            /\ call'[c].pc = "update" /\ call'[c].id = call[c].id /\ call'[c].op = call[c].op
            /\ call'[c].row = row
        BY <1>0, <1>6, <2>2 DEF Load, CallOnly, CallState
      <3>2. CallInv(c) /\ call[c].pc = "load"
        BY <1>6 DEF IInv, Load
      <3>3. call[c].id \in Ids /\ call[c].id \in 1..issued /\ rows[call[c].id] \in Row
        BY <2>2, <3>2, CallerTypes DEF CallInv, IInv, IdInv, Present
      <3>4. row \in Row
        <4>1. call[c].name \in NameWanted /\ call[c].active \in ActiveWanted
          BY <1>0 DEF CallState
        <4>. QED
          BY <3>3, <4>1, CallTypes
      <3>. HIDE DEF row
      <3>5. CallInv(c)'
        BY <1>0, <3>1, <3>2, <3>3, <3>4 DEF CallInv, Holds
      <3>. QED
        BY <1>0, <1>1, <3>1, <3>5
    <2>. QED
      BY <2>1, <2>2
  <1>7. ASSUME NEW c \in Callers, SaveUpdate(c) PROVE CallInv(d)'
    <2>1. CASE Present(call[c].id)
      BY <1>0, <1>3, <1>7, <2>1, CallTypes DEF SaveUpdate
    <2>2. CASE ~Present(call[c].id)
      <3>1. /\ issued' = issued /\ \A e \in Callers : e # c => call'[e] = call[e]
            /\ call'[c].pc = "insert" /\ call'[c].id = call[c].id /\ call'[c].op = call[c].op
            /\ call'[c].row = call[c].row
        BY <1>0, <1>7, <2>2 DEF SaveUpdate, CallState
      <3>2. CallInv(c) /\ call[c].pc = "update"
        BY <1>7 DEF IInv, SaveUpdate
      <3>3. CallInv(c)'
        BY <3>1, <3>2 DEF CallInv, Holds
      <3>. QED
        BY <1>0, <1>1, <3>1, <3>3
    <2>. QED
      BY <2>1, <2>2
  <1>8. ASSUME NEW c \in Callers, SaveInsert(c) PROVE CallInv(d)'
    <2>1. issued' = issued
      BY <1>8 DEF SaveInsert
    <2>2. \/ call' = [call EXCEPT ![c] = Ended("error")]
          \/ call' = Mark(c, call[c].id, Ended("ok"))
      BY <1>8 DEF SaveInsert
    <2>3. Ended("error").pc = "idle" /\ Ended("ok").pc = "idle"
      BY CallTypes
    <2>. QED
      BY <1>2, <1>3, <2>1, <2>2, <2>3
  <1>9. ASSUME NEW c \in Callers, StatementFails(c) PROVE CallInv(d)'
    BY <1>2, <1>9, CallTypes DEF StatementFails
  <1>10. CASE SeedCreates
    <2>. DEFINE s == Creating(Seeds[seed.at].url, Seeds[seed.at].name)
    <2>1. seed.at \in 1..Len(Seeds)
      BY <1>10, SeedsAreRequests DEF SeedCreates, IInv, SeedInv
    <2>2. s.pc = "find" /\ s.op = "create" /\ ~s.overtaken /\ s.row \in Row /\ s.row.active = "on"
      BY <2>1, SeedTypes, CallTypes
    <2>3. call' = [call EXCEPT ![Seeder] = s] /\ issued' = issued
      BY <1>10 DEF SeedCreates
    <2>. HIDE DEF s
    <2>4. d = Seeder => CallInv(d)'
      BY <1>0, <2>2, <2>3 DEF CallInv, Holds
    <2>. QED
      BY <1>0, <1>1, <2>3, <2>4
  <1>11. CASE SeedKilled
    <2>1. NoCall.pc = "idle"
      BY DEF NoCall
    <2>. QED
      BY <1>0, <1>2, <1>11, <2>1 DEF SeedKilled
  <1>12. CASE SeedStarts \/ SeedHandles \/ SeedCompletes \/ UNCHANGED vars
    BY <1>0, <1>1, <1>12 DEF SeedStarts, SeedHandles, SeedCompletes, vars
  <1>. QED
    BY <1>4, <1>5, <1>6, <1>7, <1>8, <1>9, <1>10, <1>11, <1>12 DEF Next, Step


\* A copy that is current stays so while neither the row nor the call changes.
LEMMA CurrentKept ==
  ASSUME IInv, NEW d \in Callers, Holds(d), ~call'[d].overtaken, call'[d] = call[d], rows' = rows
  PROVE  Current(d)'
  <1>1. Current(d)
    BY DEF IInv, CopyInv
  <1>. QED
    BY <1>1 DEF Current, Changed

\* A step that only lets a call go on to a place where it holds no copy.
LEMMA CallLetsGo ==
  ASSUME TypeOK, IInv, NEW c \in Callers, NEW s, s.pc \notin {"update", "insert"},
         call' = [call EXCEPT ![c] = s], rows' = rows, issued' = issued
  PROVE  IdInv' /\ OneSourcePerUrl' /\ CopyInv'
  <1>0. call \in [Callers -> CallState]
    BY CallerTypes
  <1>1. \A d \in Callers : Holds(d)' => Holds(d) /\ call'[d] = call[d]
    BY <1>0 DEF Holds
  <1>4. IdInv'
    BY <1>1 DEF IInv, IdInv
  <1>5. OneSourcePerUrl'
    BY DEF IInv, OneSourcePerUrl, Present
  <1>6. CopyInv'
    <2>1. ASSUME NEW d \in Callers, Holds(d)', ~call'[d].overtaken PROVE Current(d)'
      <3>1. call'[d] = call[d] /\ Holds(d)
        BY <1>1, <2>1
      <3>. QED
        BY <2>1, <3>1, CurrentKept
    <2>. QED
      BY <2>1 DEF CopyInv
  <1>. QED
    BY <1>4, <1>5, <1>6

\* A step that writes or deletes one row, under an id that was issued and a URL that is the
\* one every call holding the row has, and that no other row has.
LEMMA RowWritten ==
  ASSUME TypeOK, IInv, NEW c \in Callers, NEW id \in Ids, NEW w, NEW s, s.pc = "idle",
         call' = Mark(c, id, s), rows' = [rows EXCEPT ![id] = w], issued' = issued,
         w # NoRow => /\ id \in 1..issued
                      /\ \A d \in Callers : Holds(d) /\ call[d].id = id => call[d].row.url = w.url
                      /\ \A other \in Ids \ {id} : rows[other] # NoRow => rows[other].url # w.url
  PROVE  IdInv' /\ OneSourcePerUrl' /\ CopyInv'
  <1>0. call \in [Callers -> CallState] /\ rows \in [Ids -> Row \cup {NoRow}]
    BY CallerTypes
  <1>1. ~Holds(c)' /\ \A d \in Callers : Holds(d)' =>
          /\ d # c /\ Holds(d) /\ call'[d].row = call[d].row /\ call'[d].id = call[d].id
          /\ call'[d].pc = call[d].pc /\ call'[d].op = call[d].op
          /\ call'[d].name = call[d].name /\ call'[d].active = call[d].active
          /\ call'[d].overtaken = (call[d].overtaken \/ call[d].id = id)
    <2>1. ~Holds(c)'
      BY <1>0, Marked DEF Holds
    <2>2. ASSUME NEW d \in Callers, Holds(d)'
          PROVE  /\ d # c /\ Holds(d) /\ call'[d].row = call[d].row /\ call'[d].id = call[d].id
                 /\ call'[d].pc = call[d].pc /\ call'[d].op = call[d].op
                 /\ call'[d].name = call[d].name /\ call'[d].active = call[d].active
                 /\ call'[d].overtaken = (call[d].overtaken \/ call[d].id = id)
      BY <1>0, <2>1, <2>2, Marked DEF Holds
    <2>. QED
      BY <2>1, <2>2
  <1>2. \A d \in Callers : Holds(d) => call[d].id \in Ids
    BY CallerTypes
  <1>3. /\ \A other \in Ids \ {id} : rows'[other] = rows[other]
        /\ rows'[id] = w
    BY <1>0
  <1>4. IdInv'
    <2>1. \A other \in Ids : rows'[other] # NoRow => other \in 1..issued'
      BY <1>3 DEF IInv, IdInv
    <2>2. ASSUME NEW d \in Callers, Holds(d)', rows'[call'[d].id] # NoRow
          PROVE  rows'[call'[d].id].url = call'[d].row.url
      <3>1. CASE call[d].id = id
        BY <1>1, <1>3, <2>2, <3>1
      <3>2. CASE call[d].id # id
        <4>1. rows[call[d].id] # NoRow /\ rows'[call[d].id] = rows[call[d].id]
          BY <1>1, <1>2, <1>3, <2>2, <3>2
        <4>. QED
          BY <1>1, <2>2, <4>1 DEF IInv, IdInv
      <3>. QED
        BY <3>1, <3>2
    <2>3. ASSUME NEW d \in Callers, NEW e \in Callers, Holds(d)', Holds(e)', call'[d].id = call'[e].id
          PROVE  call'[d].row.url = call'[e].row.url
      BY <1>1, <2>3 DEF IInv, IdInv
    <2>. QED
      BY <2>1, <2>2, <2>3 DEF IdInv
  <1>5. OneSourcePerUrl'
    <2>. SUFFICES ASSUME NEW i \in Ids, NEW j \in Ids, rows'[i] # NoRow, rows'[j] # NoRow,
                         rows'[i].url = rows'[j].url
                  PROVE  i = j
      BY DEF OneSourcePerUrl, Present
    <2>1. CASE i # id /\ j # id
      BY <1>3, <2>1 DEF IInv, OneSourcePerUrl, Present
    <2>2. CASE i = id \/ j = id
      BY <1>3, <2>2
    <2>. QED
      BY <2>1, <2>2
  <1>6. CopyInv'
    <2>. SUFFICES ASSUME NEW d \in Callers, Holds(d)', ~call'[d].overtaken
                  PROVE  Current(d)'
      BY DEF CopyInv
    <2>1. call[d].id # id /\ ~call[d].overtaken
      BY <1>1
    <2>2. rows'[call[d].id] = rows[call[d].id]
      BY <1>1, <1>2, <1>3, <2>1
    <2>3. Current(d)
      BY <1>1, <2>1 DEF IInv, CopyInv
    <2>4. /\ call'[d].id = call[d].id /\ call'[d].op = call[d].op /\ call'[d].row = call[d].row
          /\ call'[d].pc = call[d].pc /\ call'[d].name = call[d].name
          /\ call'[d].active = call[d].active
      BY <1>1
    <2>. QED
      BY <2>2, <2>3, <2>4 DEF Current
  <1>. QED
    BY <1>4, <1>5, <1>6

\* Every step keeps ids, URLs and copies in order.
LEMMA NextRows == TypeOK /\ IInv /\ [Next]_vars => IdInv' /\ OneSourcePerUrl' /\ CopyInv'
  <1>. DEFINE Ordered == IdInv /\ OneSourcePerUrl /\ CopyInv
  <1>. SUFFICES ASSUME TypeOK, IInv, [Next]_vars PROVE Ordered'
    OBVIOUS
  <1>0. /\ call \in [Callers -> CallState] /\ issued \in Nat
        /\ rows \in [Ids -> Row \cup {NoRow}] /\ NoRow \notin Row
        /\ Seeder \in Callers /\ Clients \subseteq Callers
    BY CallerTypes, NoRowIsNoRow DEF Callers
  <1>1. ASSUME NEW c \in Callers, NEW s, s.pc \notin {"update", "insert"},
               call' = [call EXCEPT ![c] = s], rows' = rows, issued' = issued
        PROVE  Ordered'
    BY <1>1, CallLetsGo
  <1>2. ASSUME rows' = rows, issued' = issued, call' = call PROVE Ordered'
    <2>1. IdInv'
      BY <1>2 DEF IInv, IdInv, Holds
    <2>2. OneSourcePerUrl'
      BY <1>2 DEF IInv, OneSourcePerUrl, Present
    <2>3. CopyInv'
      BY <1>2, CurrentKept DEF CopyInv, Holds
    <2>. QED
      BY <2>1, <2>2, <2>3
  <1>. HIDE DEF Ordered
  <1>3. \A outcome \in {"ok", "invalid", "conflict", "notfound", "error"} :
          Ended(outcome).pc \notin {"update", "insert"} /\ Ended(outcome).pc = "idle"
    BY CallTypes
  <1>4. ASSUME NEW c \in Clients, Requests(c) PROVE Ordered'
    <2>1. ASSUME NEW url \in Urls, NEW name \in Names \cup {"blank"}, CreateArrives(c, url, name)
          PROVE  Ordered'
      <3>. DEFINE s == IF name = "blank" THEN Ended("invalid") ELSE Creating(url, name)
      <3>1. call' = [call EXCEPT ![c] = s] /\ rows' = rows /\ issued' = issued
        BY <2>1 DEF CreateArrives, CallOnly
      <3>2. s.pc \notin {"update", "insert"}
        BY <1>3, CallTypes
      <3>. HIDE DEF s
      <3>. QED
        BY <1>0, <1>1, <3>1, <3>2
    <2>2. ASSUME NEW id \in Ids, NEW name \in NameWanted \cup {"blank"}, NEW active \in ActiveWanted,
                 UpdateArrives(c, id, name, active)
          PROVE  Ordered'
      <3>. DEFINE s == IF name = "blank" THEN Ended("invalid")
                       ELSE [NoCall EXCEPT !.pc = "load", !.op = "update", !.id = id,
                                           !.name = name, !.active = active]
      <3>1. call' = [call EXCEPT ![c] = s] /\ rows' = rows /\ issued' = issued
        BY <2>2 DEF UpdateArrives, CallOnly
      <3>2. s.pc \notin {"update", "insert"}
        BY <1>3 DEF NoCall
      <3>. HIDE DEF s
      <3>. QED
        BY <1>0, <1>1, <3>1, <3>2
    <2>3. ASSUME NEW id \in Ids, Delete(c, id) PROVE Ordered'
      <3>1. CASE rows[id] # NoRow
        <4>1. rows' = [rows EXCEPT ![id] = NoRow] /\ call' = Mark(c, id, Ended("ok")) /\ issued' = issued
          BY <2>3, <3>1 DEF Delete, Present
        <4>. QED
          BY <1>0, <1>3, <4>1, RowWritten DEF Ordered
      <3>2. CASE rows[id] = NoRow
        BY <1>0, <1>1, <1>3, <2>3, <3>2 DEF Delete, Present
      <3>. QED
        BY <3>1, <3>2
    <2>. QED
      BY <1>4, <2>1, <2>2, <2>3 DEF Requests
  <1>5. ASSUME NEW c \in Callers, FindByURL(c) PROVE Ordered'
    <2>1. CASE UrlTaken(call[c].row.url)
      BY <1>1, <1>3, <1>5, <2>1 DEF FindByURL
    <2>2. CASE ~UrlTaken(call[c].row.url)
      <3>1. /\ issued' = issued + 1 /\ rows' = rows /\ \A e \in Callers : e # c => call'[e] = call[e]
            /\ call'[c].pc = "update" /\ call'[c].id = issued + 1 /\ call'[c].op = call[c].op
            /\ call'[c].row = call[c].row /\ call'[c].overtaken = call[c].overtaken
        BY <1>0, <1>5, <2>2 DEF FindByURL, CallState
      <3>2. call[c].pc = "find" /\ call[c].op = "create" /\ ~call[c].overtaken
        BY <1>5 DEF IInv, CallInv, FindByURL
      <3>3. issued + 1 \in Ids /\ rows[issued + 1] = NoRow
        BY <1>0, <1>5, <2>2, CallerTypes, BoundsAreNaturals DEF FindByURL, Ids, IInv, IdInv
      <3>4. \A e \in Callers : Holds(e) => call[e].id # issued + 1
        BY <1>0 DEF IInv, CallInv
      <3>5. \A e \in Callers : e # c => Holds(e)' = Holds(e)
        BY <3>1 DEF Holds
      <3>7. IdInv'
        <4>1. \A id \in Ids : rows'[id] # NoRow => id \in 1..issued'
          BY <1>0, <3>1 DEF IInv, IdInv
        <4>2. ASSUME NEW e \in Callers, Holds(e)', rows'[call'[e].id] # NoRow
              PROVE  rows'[call'[e].id].url = call'[e].row.url
          <5>1. e # c
            BY <3>1, <3>3, <4>2
          <5>2. Holds(e) /\ rows[call[e].id] # NoRow /\ call'[e] = call[e]
            BY <3>1, <3>5, <4>2, <5>1
          <5>. QED
            BY <3>1, <5>2 DEF IInv, IdInv
        <4>3. ASSUME NEW d \in Callers, NEW e \in Callers, Holds(d)', Holds(e)', call'[d].id = call'[e].id
              PROVE  call'[d].row.url = call'[e].row.url
          <5>1. CASE d # c /\ e # c
            BY <3>1, <3>5, <4>3, <5>1 DEF IInv, IdInv
          <5>2. CASE d = c \/ e = c
            BY <3>1, <3>4, <3>5, <4>3, <5>2
          <5>. QED
            BY <5>1, <5>2
        <4>. QED
          BY <4>1, <4>2, <4>3 DEF IdInv
      <3>8. OneSourcePerUrl'
        BY <3>1 DEF IInv, OneSourcePerUrl, Present
      <3>9. CopyInv'
        <4>0. SUFFICES ASSUME NEW e \in Callers, Holds(e)', ~call'[e].overtaken
                      PROVE  Current(e)'
          BY DEF CopyInv
        <4>1. CASE e = c
          BY <3>1, <3>2, <3>3, <4>1 DEF Current
        <4>2. CASE e # c
          <5>1. Holds(e) /\ call'[e] = call[e] /\ rows' = rows
            BY <3>1, <3>5, <4>0, <4>2
          <5>. QED
            BY <4>0, <5>1, CurrentKept
        <4>. QED
          BY <4>1, <4>2
      <3>. QED
        BY <3>7, <3>8, <3>9 DEF Ordered
    <2>. QED
      BY <2>1, <2>2
  <1>6. ASSUME NEW c \in Callers, Load(c) PROVE Ordered'
    <2>1. CASE rows[call[c].id] = NoRow
      BY <1>1, <1>3, <1>6, <2>1 DEF Load, CallOnly, Present
    <2>2. CASE rows[call[c].id] # NoRow
      <3>. DEFINE id == call[c].id
                  row == Changed(rows[id], call[c].name, call[c].active)
      <3>1. /\ issued' = issued /\ rows' = rows /\ \A e \in Callers : e # c => call'[e] = call[e]
            /\ call'[c].pc = "update" /\ call'[c].id = id /\ call'[c].op = call[c].op
            /\ call'[c].row = row /\ call'[c].name = call[c].name /\ call'[c].active = call[c].active
        BY <1>0, <1>6, <2>2 DEF Load, CallOnly, CallState, Present
      <3>2. call[c].op = "update" /\ id \in Ids
        BY <1>6 DEF IInv, CallInv, Load, Present
      <3>3. row.url = rows[id].url
        <4>1. rows[id] \in Row /\ call[c].name \in NameWanted /\ call[c].active \in ActiveWanted
          BY <1>0, <2>2, <3>2 DEF CallState, Present
        <4>. QED
          BY <4>1, CallTypes
      <3>4. \A e \in Callers : e # c => Holds(e)' = Holds(e)
        BY <3>1 DEF Holds
      <3>6. \A e \in Callers : Holds(e) /\ call[e].id = id => call[e].row.url = rows[id].url
        BY <2>2 DEF IInv, IdInv
      <3>7. Ordered'
        <4>1. call'[c].row = Changed(rows'[call'[c].id], call'[c].name, call'[c].active)
              /\ rows'[call'[c].id] # NoRow
          BY <2>2, <3>1 DEF Changed
        <4>. HIDE DEF row, id
        <4>2. \A i \in Ids : rows'[i] # NoRow => i \in 1..issued'
          BY <3>1 DEF IInv, IdInv
        <4>3. ASSUME NEW e \in Callers, Holds(e)', rows'[call'[e].id] # NoRow
              PROVE  rows'[call'[e].id].url = call'[e].row.url
          <5>1. CASE e = c
            BY <3>1, <3>3, <5>1
          <5>2. CASE e # c
            <6>1. Holds(e) /\ rows[call[e].id] # NoRow /\ call'[e] = call[e]
              BY <3>1, <3>4, <4>3, <5>2
            <6>. QED
              BY <3>1, <6>1 DEF IInv, IdInv
          <5>. QED
            BY <5>1, <5>2
        <4>4. ASSUME NEW d \in Callers, NEW e \in Callers, Holds(d)', Holds(e)', call'[d].id = call'[e].id
              PROVE  call'[d].row.url = call'[e].row.url
          <5>1. CASE d # c /\ e # c
            BY <3>1, <3>4, <4>4, <5>1 DEF IInv, IdInv
          <5>2. CASE d = c \/ e = c
            BY <3>1, <3>3, <3>4, <3>6, <4>4, <5>2
          <5>. QED
            BY <5>1, <5>2
        <4>5. OneSourcePerUrl'
          BY <3>1 DEF IInv, OneSourcePerUrl, Present
        <4>6. CopyInv'
          <5>0. SUFFICES ASSUME NEW e \in Callers, Holds(e)', ~call'[e].overtaken
                        PROVE  Current(e)'
            BY DEF CopyInv
          <5>1. CASE e = c
            BY <3>1, <3>2, <4>1, <5>1 DEF Current
          <5>2. CASE e # c
            <6>1. Holds(e) /\ call'[e] = call[e] /\ rows' = rows
              BY <3>1, <3>4, <5>0, <5>2
            <6>. QED
              BY <5>0, <6>1, CurrentKept
          <5>. QED
            BY <5>1, <5>2
        <4>. QED
          BY <4>2, <4>3, <4>4, <4>5, <4>6 DEF IdInv, Ordered
      <3>. QED
        BY <3>7
    <2>. QED
      BY <2>1, <2>2
  <1>7. ASSUME NEW c \in Callers, SaveUpdate(c) PROVE Ordered'
    <2>0. Holds(c) /\ call[c].id \in Ids /\ call[c].row \in Row /\ call[c].id \in 1..issued
      BY <1>7, CallerTypes DEF SaveUpdate, Holds, IInv, CallInv, Present
    <2>1. CASE rows[call[c].id] # NoRow
      <3>1. /\ rows' = [rows EXCEPT ![call[c].id] = call[c].row]
            /\ call' = Mark(c, call[c].id, Ended("ok")) /\ issued' = issued
        BY <1>7, <2>1 DEF SaveUpdate, Present
      <3>2. \A d \in Callers : Holds(d) /\ call[d].id = call[c].id => call[d].row.url = call[c].row.url
        BY <2>0 DEF IInv, IdInv
      <3>3. rows[call[c].id].url = call[c].row.url
        BY <2>0, <2>1 DEF IInv, IdInv
      <3>4. \A other \in Ids \ {call[c].id} : rows[other] # NoRow => rows[other].url # call[c].row.url
        BY <2>0, <2>1, <3>3 DEF IInv, OneSourcePerUrl, Present
      <3>. QED
        BY <1>3, <2>0, <3>1, <3>2, <3>4, RowWritten DEF Ordered
    <2>2. CASE rows[call[c].id] = NoRow
      <3>1. /\ issued' = issued /\ rows' = rows /\ \A e \in Callers : e # c => call'[e] = call[e]
            /\ call'[c].pc = "insert" /\ call'[c].id = call[c].id /\ call'[c].op = call[c].op
            /\ call'[c].row = call[c].row /\ call'[c].overtaken = call[c].overtaken
        BY <1>0, <1>7, <2>2 DEF SaveUpdate, CallState, Present
      <3>2. \A e \in Callers : Holds(e)' = Holds(e)
        BY <2>0, <3>1 DEF Holds
      <3>3. \A e \in Callers : /\ call'[e].id = call[e].id /\ call'[e].row = call[e].row
                               /\ call'[e].op = call[e].op /\ call'[e].overtaken = call[e].overtaken
        BY <3>1
      <3>5. IdInv' /\ OneSourcePerUrl'
        BY <3>1, <3>2, <3>3 DEF IInv, IdInv, OneSourcePerUrl, Present
      <3>6. CopyInv'
        <4>0. SUFFICES ASSUME NEW e \in Callers, Holds(e)', ~call'[e].overtaken
                      PROVE  Current(e)'
          BY DEF CopyInv
        <4>1. CASE e = c
          <5>1. call[c].op = "create"
            BY <2>0, <2>2, <3>1, <4>0, <4>1 DEF IInv, CopyInv, Current
          <5>. QED
            BY <2>2, <3>1, <4>1, <5>1 DEF Current
        <4>2. CASE e # c
          <5>1. Holds(e) /\ call'[e] = call[e] /\ rows' = rows
            BY <3>1, <3>2, <4>0, <4>2
          <5>. QED
            BY <4>0, <5>1, CurrentKept
        <4>. QED
          BY <4>1, <4>2
      <3>. QED
        BY <3>5, <3>6 DEF Ordered
    <2>. QED
      BY <2>1, <2>2
  <1>8. ASSUME NEW c \in Callers, SaveInsert(c) PROVE Ordered'
    <2>. DEFINE id == call[c].id
                row == Inserted(call[c].row)
    <2>0. /\ Holds(c) /\ id \in Ids /\ call[c].row \in Row /\ id \in 1..issued
          /\ row \in Row /\ row.url = call[c].row.url
      BY <1>8, CallerTypes, CallTypes DEF SaveInsert, Holds, IInv, CallInv
    <2>1. CASE IndexRefuses(id, row.url)
      BY <1>1, <1>3, <1>8, <2>1 DEF SaveInsert
    <2>2. CASE ~IndexRefuses(id, row.url)
      <3>1. rows' = [rows EXCEPT ![id] = row] /\ call' = Mark(c, id, Ended("ok")) /\ issued' = issued
        BY <1>8, <2>2 DEF SaveInsert
      <3>2. \A d \in Callers : Holds(d) /\ call[d].id = id => call[d].row.url = row.url
        BY <2>0 DEF IInv, IdInv
      <3>3. \A other \in Ids \ {id} : rows[other] # NoRow => rows[other].url # row.url
        BY <2>2 DEF IndexRefuses, Present
      <3>. HIDE DEF id, row
      <3>. QED
        BY <1>3, <2>0, <3>1, <3>2, <3>3, RowWritten DEF Ordered
    <2>. QED
      BY <2>1, <2>2
  <1>9. ASSUME NEW c \in Callers, StatementFails(c) PROVE Ordered'
    BY <1>1, <1>3, <1>9 DEF StatementFails
  <1>10. CASE SeedCreates
    <2>. DEFINE s == Creating(Seeds[seed.at].url, Seeds[seed.at].name)
    <2>1. s.pc = "find"
      BY DEF Creating, NoCall
    <2>2. call' = [call EXCEPT ![Seeder] = s] /\ issued' = issued /\ rows' = rows
      BY <1>10 DEF SeedCreates
    <2>. HIDE DEF s
    <2>. QED
      BY <1>0, <1>1, <2>1, <2>2
  <1>11. CASE SeedKilled
    <2>1. NoCall.pc \notin {"update", "insert"}
      BY DEF NoCall
    <2>. QED
      BY <1>0, <1>1, <1>11, <2>1 DEF SeedKilled
  <1>12. CASE SeedStarts \/ SeedHandles \/ SeedCompletes \/ UNCHANGED vars
    BY <1>2, <1>12 DEF SeedStarts, SeedHandles, SeedCompletes, vars
  <1>. QED
    BY <1>4, <1>5, <1>6, <1>7, <1>8, <1>9, <1>10, <1>11, <1>12 DEF Next, Step


-----------------------------------------------------------------------------
(* The seed run.                                                           *)

\* A row's URL is there after a step, or was deleted by it; and a URL that was not there is
\* there only because somebody has inserted it, which is remembered if it was a client.
LEMMA RowsStep ==
  ASSUME TypeOK, IInv, [Next]_vars, ~SeedStarts
  PROVE  /\ removed \subseteq removed' /\ contested \subseteq contested'
         /\ \A id \in Ids : rows[id] # NoRow =>
              \/ rows'[id] # NoRow /\ rows'[id].url = rows[id].url
              \/ seed.pc # "off" => rows[id].url \in removed'
         /\ \A id \in Ids : rows'[id] # NoRow =>
              \/ rows[id] # NoRow /\ rows'[id].url = rows[id].url
              \/ SaveInsert(Seeder)
              \/ SeedRuns => rows'[id].url \in contested'
  <1>. DEFINE Kept(id) == rows'[id] # NoRow /\ rows'[id].url = rows[id].url
              Shown == /\ removed \subseteq removed' /\ contested \subseteq contested'
                       /\ \A id \in Ids : rows[id] # NoRow =>
                            Kept(id) \/ (seed.pc # "off" => rows[id].url \in removed')
                       /\ \A id \in Ids : rows'[id] # NoRow =>
                            \/ rows[id] # NoRow /\ rows'[id].url = rows[id].url
                            \/ SaveInsert(Seeder)
                            \/ SeedRuns => rows'[id].url \in contested'
  <1>. SUFFICES Shown
    OBVIOUS
  <1>0. rows \in [Ids -> Row \cup {NoRow}] /\ NoRow \notin Row
    BY NoRowIsNoRow DEF TypeOK
  <1>1. CASE UNCHANGED <<rows, removed, contested>>
    BY <1>1
  <1>2. ASSUME NEW c \in Clients, NEW id \in Ids, Delete(c, id), rows[id] # NoRow PROVE Shown
    <2>1. /\ rows' = [rows EXCEPT ![id] = NoRow] /\ contested' = contested
          /\ removed' = IF seed.pc = "off" THEN removed ELSE removed \cup {rows[id].url}
      BY <1>2 DEF Delete, Present
    <2>. QED
      BY <1>0, <2>1
  <1>3. ASSUME NEW c \in Callers, SaveUpdate(c), rows[call[c].id] # NoRow PROVE Shown
    <2>1. /\ rows' = [rows EXCEPT ![call[c].id] = call[c].row]
          /\ contested' = contested /\ removed' = removed /\ Holds(c)
      BY <1>3 DEF SaveUpdate, Present, Holds
    <2>2. /\ call[c].id \in Ids /\ call[c].row # NoRow
          /\ call[c].row.url = rows[call[c].id].url
      BY <1>0, <1>3, <2>1, CallerTypes DEF IInv, IdInv
    <2>3. ASSUME NEW id \in Ids
          PROVE  (rows[id] # NoRow <=> rows'[id] # NoRow) /\ rows'[id].url = rows[id].url
      BY <1>0, <1>3, <2>1, <2>2
    <2>. QED
      BY <2>1, <2>3
  <1>4. ASSUME NEW c \in Callers, SaveInsert(c) PROVE Shown
    <2>. DEFINE row == Inserted(call[c].row)
    <2>1. removed' = removed /\ contested \subseteq contested' /\ Holds(c)
      BY <1>4 DEF SaveInsert, Holds
    <2>2. call[c].id \in Ids /\ row # NoRow /\ row.url = call[c].row.url
      BY <1>0, <2>1, CallerTypes, CallTypes
    <2>3. rows[call[c].id] # NoRow => rows[call[c].id].url = row.url
      BY <2>1, <2>2 DEF IInv, IdInv
    <2>4. CASE rows' = rows
      BY <2>1, <2>4
    <2>5. CASE rows' = [rows EXCEPT ![call[c].id] = row] /\ c = Seeder
      BY <1>0, <1>4, <2>1, <2>2, <2>3, <2>5
    <2>6. CASE /\ rows' = [rows EXCEPT ![call[c].id] = row]
               /\ SeedRuns => row.url \in contested'
      BY <1>0, <2>1, <2>2, <2>3, <2>6
    <2>. QED
      BY <1>4, <2>4, <2>5, <2>6 DEF SaveInsert, Callers
  <1>5. ASSUME NEW c \in Clients, Requests(c) PROVE Shown
    BY <1>1, <1>2, <1>5 DEF Requests, CreateArrives, UpdateArrives, CallOnly, Delete, Present
  <1>6. ASSUME NEW c \in Callers, FindByURL(c) \/ Load(c) \/ StatementFails(c) PROVE Shown
    BY <1>1, <1>6 DEF FindByURL, Load, CallOnly, StatementFails
  <1>7. ASSUME NEW c \in Callers, SaveUpdate(c) PROVE Shown
    BY <1>1, <1>3, <1>7 DEF SaveUpdate, Present
  <1>8. CASE SeedCreates \/ SeedHandles \/ SeedCompletes \/ SeedKilled \/ UNCHANGED vars
    BY <1>1, <1>8 DEF SeedCreates, SeedHandles, SeedCompletes, SeedKilled, vars
  <1>. HIDE DEF Shown
  <1>. QED
    BY <1>4, <1>5, <1>6, <1>7, <1>8 DEF Next, Step

\* What is settled stays settled for the rest of the run.
LEMMA SettledStays ==
  ASSUME TypeOK, IInv, [Next]_vars, ~SeedStarts, seed.pc # "off", NEW url, Settled(url)
  PROVE  Settled(url)'
  <1>1. CASE url \in removed
    BY <1>1, RowsStep DEF Settled
  <1>2. CASE UrlTaken(url)
    <2>1. PICK id \in Ids : rows[id] # NoRow /\ rows[id].url = url
      BY <1>2 DEF UrlTaken, Present
    <2>2. \/ rows'[id] # NoRow /\ rows'[id].url = url
          \/ url \in removed'
      BY <2>1, RowsStep
    <2>. QED
      BY <2>2 DEF Settled, UrlTaken, Present
  <1>. QED
    BY <1>1, <1>2 DEF Settled

\* A step of somebody else leaves the run where it is.
LEMMA OthersStep ==
  ASSUME TypeOK, IInv, [Next]_vars, seed' = seed,
         call'[Seeder].pc = call[Seeder].pc, call'[Seeder].op = call[Seeder].op,
         call'[Seeder].id = call[Seeder].id, call'[Seeder].row = call[Seeder].row,
         call'[Seeder].outcome = call[Seeder].outcome
  PROVE  SeedInv'
  <1>0. ~SeedStarts /\ ~SaveInsert(Seeder)
    <2>1. ~SeedStarts
      BY DEF SeedStarts
    <2>2. SaveInsert(Seeder) => call[Seeder].pc = "insert" /\ call'[Seeder].pc = "idle"
      <3>1. Seeder \in Callers /\ call \in [Callers -> CallState]
        BY DEF Callers, TypeOK
      <3>2. SaveInsert(Seeder) => /\ call[Seeder].pc = "insert"
                                  /\ \/ call' = [call EXCEPT ![Seeder] = Ended("error")]
                                     \/ call' = Mark(Seeder, call[Seeder].id, Ended("ok"))
        BY DEF SaveInsert
      <3>. QED
        BY <3>1, <3>2, Marked, CallTypes
    <2>. QED
      BY <2>1, <2>2
  <1>1. SeedInv /\ contested \subseteq contested'
    BY <1>0, RowsStep DEF IInv
  <1>2. \A url : seed.pc # "off" /\ Settled(url) => Settled(url)'
    BY <1>0, SettledStays
  <1>3. ASSUME seed.pc = "create", Holds(Seeder)', NEW id \in Ids, rows'[id] # NoRow,
               rows'[id].url = Seeds[seed.at].url
        PROVE  id = call[Seeder].id \/ Seeds[seed.at].url \in contested'
    <2>1. Holds(Seeder)
      BY <1>3 DEF Holds
    <2>2. \/ rows[id] # NoRow /\ rows[id].url = Seeds[seed.at].url
          \/ Seeds[seed.at].url \in contested'
      BY <1>0, <1>3, RowsStep DEF SeedRuns
    <2>. QED
      BY <1>1, <1>3, <2>1, <2>2 DEF SeedInv
  <1>. QED
    BY <1>1, <1>2, <1>3 DEF SeedInv

\* A step of the seed's create brings the run to what the source it is at calls for.
LEMMA SeederStep ==
  ASSUME TypeOK, IInv, [Next]_vars,
         FindByURL(Seeder) \/ Load(Seeder) \/ SaveUpdate(Seeder) \/ SaveInsert(Seeder)
           \/ StatementFails(Seeder)
  PROVE  SeedInv'
  <1>u. PICK url : url = Seeds[seed.at].url
    OBVIOUS
  <1>0. /\ call \in [Callers -> CallState] /\ Seeder \in Callers /\ seed \in SeedState
        /\ rows \in [Ids -> Row \cup {NoRow}] /\ NoRow \notin Row
    BY NoRowIsNoRow DEF TypeOK, Callers
  <1>1. SeedInv /\ call[Seeder].pc # "idle"
    BY DEF IInv, FindByURL, Load, SaveUpdate, SaveInsert, StatementFails, InProgress
  <1>2. /\ seed.pc = "create" /\ call[Seeder].pc # "load" /\ seed.at \in Nat \ {0}
        /\ seed.at \in 1..Len(Seeds)
        /\ call[Seeder].op = "create" /\ call[Seeder].row.url = url
        /\ \A i \in 1..Len(Seeds) : i < seed.at => Settled(Seeds[i].url)
    BY <1>1, <1>u DEF SeedInv
  <1>3. ~SeedStarts
    BY <1>2 DEF SeedStarts
  <1>4. contested \subseteq contested' /\ \A u : Settled(u) => Settled(u)'
    BY <1>2, <1>3, RowsStep, SettledStays
  <1>5. ASSUME seed'.pc = "create", seed'.at = seed.at, call'[Seeder].pc = "idle",
               \/ Skips(call'[Seeder].outcome) /\ Settled(url)'
               \/ call'[Seeder].outcome = "error" /\ (seed'.faulted \/ url \in contested')
        PROVE  SeedInv'
    BY <1>2, <1>4, <1>5, <1>u DEF SeedInv, Holds
  <1>6. ASSUME seed' = seed, rows' = rows, Holds(Seeder)', call'[Seeder].op = call[Seeder].op,
               call'[Seeder].row = call[Seeder].row,
               \A id \in Ids : rows[id] # NoRow /\ rows[id].url = url =>
                 id = call'[Seeder].id \/ url \in contested
        PROVE  SeedInv'
    BY <1>2, <1>4, <1>6, <1>u DEF SeedInv, Holds
  <1>7. CASE FindByURL(Seeder)
    <2>1. CASE UrlTaken(url)
      <3>1. call'[Seeder] = Ended("conflict") /\ seed' = seed
        BY <1>0, <1>2, <1>7, <2>1 DEF FindByURL
      <3>2. Ended("conflict").pc = "idle" /\ Ended("conflict").outcome = "conflict"
        BY CallTypes
      <3>3. Settled(url)'
        BY <1>4, <2>1 DEF Settled
      <3>. QED
        BY <1>2, <1>5, <3>1, <3>2, <3>3 DEF Skips
    <2>2. CASE ~UrlTaken(url)
      <3>1. /\ seed' = seed /\ rows' = rows /\ call'[Seeder].pc = "update"
            /\ call'[Seeder].op = call[Seeder].op /\ call'[Seeder].row = call[Seeder].row
        BY <1>0, <1>2, <1>7, <2>2 DEF FindByURL, CallState
      <3>2. \A id \in Ids : ~(rows[id] # NoRow /\ rows[id].url = url)
        BY <2>2 DEF UrlTaken, Present
      <3>. QED
        BY <1>6, <3>1, <3>2 DEF Holds
    <2>. QED
      BY <2>1, <2>2
  <1>8. CASE Load(Seeder)
    BY <1>2, <1>8 DEF Load
  <1>9. CASE SaveUpdate(Seeder)
    <2>1. Holds(Seeder) /\ seed' = seed /\ call[Seeder].id \in Ids /\ call[Seeder].row \in Row
      BY <1>0, <1>9, CallerTypes DEF Holds, SaveUpdate
    <2>2. CASE Present(call[Seeder].id)
      <3>1. /\ rows' = [rows EXCEPT ![call[Seeder].id] = call[Seeder].row]
            /\ call' = Mark(Seeder, call[Seeder].id, Ended("ok"))
        BY <1>9, <2>2 DEF SaveUpdate
      <3>2. call'[Seeder] = Ended("ok") /\ Ended("ok").pc = "idle" /\ Ended("ok").outcome = "ok"
        BY <1>0, <3>1, Marked, CallTypes
      <3>3. Settled(url)'
        BY <1>0, <1>2, <2>1, <3>1 DEF Settled, UrlTaken, Present
      <3>. QED
        BY <1>2, <1>5, <2>1, <3>2, <3>3 DEF Skips
    <2>3. CASE ~Present(call[Seeder].id)
      <3>1. /\ rows' = rows /\ call'[Seeder].pc = "insert" /\ call'[Seeder].id = call[Seeder].id
            /\ call'[Seeder].op = call[Seeder].op /\ call'[Seeder].row = call[Seeder].row
        BY <1>0, <1>9, <2>3 DEF SaveUpdate, CallState
      <3>2. \A id \in Ids : rows[id] # NoRow /\ rows[id].url = url =>
              id = call'[Seeder].id \/ url \in contested
        BY <1>1, <1>2, <1>u, <2>1, <3>1 DEF SeedInv
      <3>3. Holds(Seeder)'
        BY <3>1 DEF Holds
      <3>. QED
        BY <1>6, <2>1, <3>1, <3>2, <3>3
    <2>. QED
      BY <2>2, <2>3
  <1>10. CASE SaveInsert(Seeder)
    <2>. DEFINE id == call[Seeder].id
                row == Inserted(call[Seeder].row)
    <2>1. Holds(Seeder) /\ seed' = seed /\ id \in Ids /\ row \in Row /\ row.url = url
      BY <1>0, <1>2, <1>10, CallerTypes, CallTypes DEF Holds, SaveInsert
    <2>2. CASE IndexRefuses(id, row.url)
      <3>1. call'[Seeder] = Ended("error")
        BY <1>0, <1>10, <2>2 DEF SaveInsert
      <3>2. Ended("error").pc = "idle" /\ Ended("error").outcome = "error"
        BY CallTypes
      <3>3. url \in contested
        BY <1>1, <1>2, <1>u, <2>1, <2>2 DEF SeedInv, IndexRefuses, Present
      <3>. QED
        BY <1>2, <1>4, <1>5, <2>1, <3>1, <3>2, <3>3
    <2>3. CASE ~IndexRefuses(id, row.url)
      <3>1. rows' = [rows EXCEPT ![id] = row] /\ call' = Mark(Seeder, id, Ended("ok"))
        BY <1>10, <2>3 DEF SaveInsert
      <3>. HIDE DEF id, row
      <3>2. call'[Seeder] = Ended("ok") /\ Ended("ok").pc = "idle" /\ Ended("ok").outcome = "ok"
        BY <1>0, <3>1, Marked, CallTypes
      <3>3. Settled(url)'
        BY <1>0, <2>1, <3>1 DEF Settled, UrlTaken, Present
      <3>. QED
        BY <1>2, <1>5, <2>1, <3>2, <3>3 DEF Skips
    <2>. QED
      BY <2>2, <2>3
  <1>11. CASE StatementFails(Seeder)
    <2>1. /\ call'[Seeder] = Ended("error") /\ seed' = [seed EXCEPT !.faulted = TRUE]
          /\ Ended("error").pc = "idle" /\ Ended("error").outcome = "error"
      BY <1>0, <1>11, CallTypes DEF StatementFails
    <2>2. seed'.faulted /\ seed'.pc = seed.pc /\ seed'.at = seed.at
      BY <1>0, <2>1 DEF SeedState
    <2>. QED
      BY <1>2, <1>5, <2>1, <2>2
  <1>. QED
    BY <1>7, <1>8, <1>9, <1>10, <1>11

\* Every step keeps the seed run in order.
LEMMA NextSeed == TypeOK /\ IInv /\ [Next]_vars => SeedInv'
  <1>. SUFFICES ASSUME TypeOK, IInv, [Next]_vars PROVE SeedInv'
    OBVIOUS
  <1>0. /\ call \in [Callers -> CallState] /\ Seeder \in Callers /\ seed \in SeedState
        /\ Clients \subseteq Callers /\ Seeder \notin Clients /\ Len(Seeds) \in Nat /\ SeedInv
    BY SeederIsNoClient, SeedsAreRequests DEF TypeOK, Callers, IInv
  <1>1. ASSUME call'[Seeder] = call[Seeder], seed' = seed PROVE SeedInv'
    BY <1>1, OthersStep
  <1>2. ASSUME NEW c \in Clients, NEW id, NEW s, call' = Mark(c, id, s), seed' = seed PROVE SeedInv'
    <2>1. /\ call'[Seeder].pc = call[Seeder].pc /\ call'[Seeder].op = call[Seeder].op
          /\ call'[Seeder].id = call[Seeder].id /\ call'[Seeder].row = call[Seeder].row
          /\ call'[Seeder].outcome = call[Seeder].outcome
      BY <1>0, <1>2, Marked
    <2>. QED
      BY <1>2, <2>1, OthersStep
  <1>3. ASSUME NEW c \in Clients, Requests(c) PROVE SeedInv'
    <2>1. seed' = seed
      BY <1>3 DEF Requests, CreateArrives, UpdateArrives, CallOnly, Delete
    <2>2. \/ call'[Seeder] = call[Seeder]
          \/ \E id \in Ids : call' = Mark(c, id, Ended("ok"))
      BY <1>0, <1>3 DEF Requests, CreateArrives, UpdateArrives, Delete
    <2>. QED
      BY <1>1, <1>2, <2>1, <2>2
  <1>4. ASSUME NEW c \in Clients, Step(c) \/ StatementFails(c) PROVE SeedInv'
    <2>1. seed' = seed
      BY <1>0, <1>4 DEF Step, FindByURL, Load, CallOnly, SaveUpdate, SaveInsert, StatementFails
    <2>2. \/ call'[Seeder] = call[Seeder]
          \/ call' = Mark(c, call[c].id, Ended("ok"))
      BY <1>0, <1>4 DEF Step, FindByURL, Load, SaveUpdate, SaveInsert, StatementFails
    <2>. QED
      BY <1>1, <1>2, <2>1, <2>2
  <1>5. CASE Step(Seeder) \/ StatementFails(Seeder)
    BY <1>5, SeederStep DEF Step
  <1>6. CASE SeedStarts
    <2>1. seed'.pc = "next" /\ seed'.at = 1 /\ call' = call /\ seed.pc # "create"
      BY <1>6 DEF SeedStarts
    <2>2. \A i \in 1..Len(Seeds) : ~(i < seed'.at)
      BY <2>1
    <2>. QED
      BY <1>0, <2>1, <2>2 DEF SeedInv
  <1>7. ASSUME seed'.pc \in {"next", "create", "done"}, seed.pc \in {"next", "create"},
               rows' = rows, removed' = removed, contested' = contested
        PROVE  \A url : Settled(url)' = Settled(url)
    BY <1>7 DEF Settled, UrlTaken, Present
  <1>8. CASE SeedCreates
    <2>. DEFINE s == Creating(Seeds[seed.at].url, Seeds[seed.at].name)
    <2>1. /\ seed.pc = "next" /\ seed.at \in 1..Len(Seeds)
          /\ seed'.pc = "create" /\ seed'.at = seed.at /\ call'[Seeder] = s
          /\ rows' = rows /\ removed' = removed /\ contested' = contested
      BY <1>0, <1>8 DEF SeedCreates, SeedInv, SeedState
    <2>2. s.pc = "find" /\ s.op = "create" /\ s.row.url = Seeds[seed.at].url
      BY <2>1, SeedTypes, CallTypes
    <2>. HIDE DEF s
    <2>. QED
      BY <1>0, <1>7, <2>1, <2>2 DEF SeedInv, Holds
  <1>9. CASE SeedHandles
    <2>1. /\ seed.pc = "create" /\ call' = call /\ call[Seeder].pc = "idle"
          /\ rows' = rows /\ removed' = removed /\ contested' = contested
      BY <1>9 DEF SeedHandles, InProgress
    <2>2. /\ seed.at \in 1..Len(Seeds)
          /\ \A i \in 1..Len(Seeds) : i < seed.at => Settled(Seeds[i].url)
          /\ \/ Skips(call[Seeder].outcome) /\ Settled(Seeds[seed.at].url)
             \/ call[Seeder].outcome = "error" /\ (seed.faulted \/ Seeds[seed.at].url \in contested)
      BY <1>0, <2>1 DEF SeedInv
    <2>3. CASE Skips(call[Seeder].outcome)
      <3>1. seed'.pc = "next" /\ seed'.at = seed.at + 1
        BY <1>0, <1>9, <2>3 DEF SeedHandles, SeedState
      <3>2. Settled(Seeds[seed.at].url)
        BY <2>2, <2>3 DEF Skips
      <3>3. \A i \in 1..Len(Seeds) : i < seed'.at => Settled(Seeds[i].url)'
        <4>1. \A i \in 1..Len(Seeds) : i < seed'.at => Settled(Seeds[i].url)
          BY <1>0, <2>2, <3>1, <3>2
        <4>. QED
          BY <1>7, <2>1, <3>1, <4>1
      <3>. QED
        BY <1>0, <2>1, <2>2, <3>1, <3>3 DEF SeedInv
    <2>4. CASE ~Skips(call[Seeder].outcome)
      <3>1. seed'.pc = "failed" /\ seed'.at = seed.at /\ seed'.faulted = seed.faulted
        BY <1>0, <1>9, <2>4 DEF SeedHandles, SeedState
      <3>. QED
        BY <1>0, <2>1, <2>2, <2>4, <3>1 DEF SeedInv
    <2>. QED
      BY <2>3, <2>4
  <1>10. CASE SeedCompletes
    <2>1. /\ seed.pc = "next" /\ seed.at > Len(Seeds) /\ seed'.pc = "done" /\ seed'.at = seed.at
          /\ call' = call /\ rows' = rows /\ removed' = removed /\ contested' = contested
      BY <1>0, <1>10 DEF SeedCompletes, SeedState
    <2>. QED
      BY <1>0, <1>7, <2>1 DEF SeedInv
  <1>11. CASE SeedKilled
    <2>1. /\ seed'.pc = "failed" /\ seed'.at = seed.at /\ seed'.faulted /\ call'[Seeder].pc = "idle"
      BY <1>0, <1>11 DEF SeedKilled, SeedState, NoCall
    <2>. QED
      BY <1>0, <2>1 DEF SeedInv
  <1>12. CASE UNCHANGED vars
    BY <1>1, <1>12 DEF vars
  <1>. QED
    BY <1>3, <1>4, <1>5, <1>6, <1>8, <1>9, <1>10, <1>11, <1>12 DEF Next, Callers

-----------------------------------------------------------------------------
(* The theorems.                                                           *)

\* The inductive invariant: what each call carries, ids, URLs, copies and the seed run.
THEOREM Invariant == Spec => [](TypeOK /\ IInv)
  <1>1. TypeOK /\ IInv /\ [Next]_vars => (TypeOK /\ IInv)'
    <2>. SUFFICES ASSUME TypeOK, IInv, [Next]_vars PROVE TypeOK' /\ IInv'
      OBVIOUS
    <2>1. TypeOK'
      BY NextType
    <2>2. \A c \in Callers : CallInv(c)'
      BY NextCall
    <2>3. IdInv' /\ OneSourcePerUrl' /\ CopyInv' /\ SeedInv'
      BY NextRows, NextSeed
    <2>. QED
      BY <2>1, <2>2, <2>3 DEF IInv
  <1>. QED
    BY <1>1, InitType, PTL DEF Spec

\* Rows, calls and the seed run keep their types.
THEOREM TypeCorrect == Spec => []TypeOK
  BY Invariant, PTL

\* However creates, updates that insert a deleted row again, deletes and seed runs interleave,
\* no URL is monitored by two sources.
THEOREM OneSourcePerUrlHolds == Spec => []OneSourcePerUrl
  <1>1. IInv => OneSourcePerUrl
    BY DEF IInv
  <1>. QED
    BY <1>1, Invariant, PTL

\* A seed run that ends well left no source out, and one fails only for a fault or because a
\* client created the same source meanwhile.
THEOREM SeedIsIdempotentHolds == Spec => []SeedIsIdempotent
  <1>1. TypeOK /\ IInv => SeedIsIdempotent
    <2>. SUFFICES ASSUME TypeOK, IInv PROVE SeedIsIdempotent
      OBVIOUS
    <2>1. SeedInv /\ Len(Seeds) \in Nat /\ seed.at \in Nat
      BY SeedsAreRequests DEF IInv, TypeOK, SeedState
    <2>. QED
      BY <2>1 DEF SeedInv, SeedIsIdempotent, Settled
  <1>. QED
    BY <1>1, Invariant, PTL


\* A call that held a copy and has ended well has just written it.
LEMMA SavesStep ==
  ASSUME TypeOK, IInv, Next, NEW c \in Callers, Saves(c)
  PROVE  \/ SaveUpdate(c) /\ rows[call[c].id] # NoRow
         \/ SaveInsert(c) /\ rows' = [rows EXCEPT ![call[c].id] = Inserted(call[c].row)]
  <1>0. /\ call \in [Callers -> CallState] /\ Seeder \in Callers /\ Clients \subseteq Callers
        /\ Holds(c) /\ call'[c].pc = "idle" /\ call'[c].outcome = "ok"
    BY DEF TypeOK, Callers, Saves, Holds
  <1>1. call'[c] # call[c] /\ call'[c].pc # call[c].pc
    BY <1>0 DEF Holds
  <1>2. ASSUME NEW d \in Callers, d # c, NEW s, call' = [call EXCEPT ![d] = s] PROVE FALSE
    BY <1>0, <1>1, <1>2
  <1>3. ASSUME NEW d \in Callers, d # c, NEW id, NEW s, call' = Mark(d, id, s) PROVE FALSE
    <2>1. call'[c].pc = call[c].pc
      BY <1>0, <1>3, Marked
    <2>. QED
      BY <1>1, <2>1
  <1>4. ASSUME NEW d \in Clients, Requests(d) PROVE FALSE
    <2>1. d # c
      BY <1>0, <1>4 DEF Requests, CreateArrives, UpdateArrives, Delete, Arrives, InProgress, Holds
    <2>2. (\E s : call' = [call EXCEPT ![d] = s]) \/ (\E id : call' = Mark(d, id, Ended("ok")))
      BY <1>4 DEF Requests, CreateArrives, UpdateArrives, Delete
    <2>. QED
      BY <1>0, <1>2, <1>3, <2>1, <2>2
  <1>5. ASSUME NEW d \in Callers, d # c, Step(d) \/ StatementFails(d) PROVE FALSE
    <2>1. call' = Mark(d, call[d].id, Ended("ok")) \/ call'[c] = call[c]
      BY <1>0, <1>5 DEF Step, FindByURL, Load, SaveUpdate, SaveInsert, StatementFails
    <2>. QED
      BY <1>1, <1>3, <1>5, <2>1
  <1>6. ~StatementFails(c)
    BY <1>0, CallTypes DEF StatementFails
  <1>7. ~(FindByURL(c) \/ Load(c))
    BY <1>0 DEF FindByURL, Load, Holds
  <1>8. CASE SaveUpdate(c)
    BY <1>0, <1>8 DEF SaveUpdate, Present, CallState
  <1>9. CASE SaveInsert(c)
    <2>1. call' # [call EXCEPT ![c] = Ended("error")]
      BY <1>0, CallTypes
    <2>. QED
      BY <1>9, <2>1 DEF SaveInsert
  <1>10. ~(SeedStarts \/ SeedHandles \/ SeedCompletes)
    BY <1>1 DEF SeedStarts, SeedHandles, SeedCompletes
  <1>11. ~SeedCreates
    <2>1. SeedCreates => call[Seeder].pc = "idle" /\ \E s : call' = [call EXCEPT ![Seeder] = s]
      BY DEF SeedCreates, IInv, SeedInv
    <2>. QED
      BY <1>0, <1>2, <2>1 DEF Holds
  <1>12. ~SeedKilled
    <2>1. SeedKilled => call' = [call EXCEPT ![Seeder] = NoCall] /\ NoCall.outcome = "none"
      BY DEF SeedKilled, NoCall
    <2>. QED
      BY <1>0, <1>2, <2>1
  <1>. QED
    BY <1>4, <1>5, <1>6, <1>7, <1>8, <1>9, <1>10, <1>11, <1>12 DEF Next, Step

\* Saving a whole row undoes nothing of anybody who did not get between the read and the
\* save: a create adds a row, an update changes the fields it was asked to.
THEOREM OnlyOverlapsUndoHolds == Spec => OnlyOverlapsUndo
  <1>. DEFINE Undoes(c) ==
         Saves(c) /\ ~call[c].overtaken =>
           LET id == call[c].id
           IN  IF call[c].op = "create"
               THEN rows[id] = NoRow /\ rows'[id] = call[c].row
               ELSE /\ rows[id] # NoRow
                    /\ rows'[id].url = rows[id].url
                    /\ rows'[id].name = IF call[c].name = "keep" THEN rows[id].name ELSE call[c].name
                    /\ rows'[id].active = IF call[c].active = "keep" THEN rows[id].active
                                          ELSE call[c].active
  <1>1. ASSUME TypeOK, IInv, [Next]_vars, ~UNCHANGED vars, NEW c \in Callers PROVE Undoes(c)
    <2>. SUFFICES ASSUME Saves(c), ~call[c].overtaken PROVE Undoes(c)
      OBVIOUS
    <2>. DEFINE id == call[c].id
    <2>0. /\ rows \in [Ids -> Row \cup {NoRow}] /\ id \in Ids /\ call[c].row \in Row
          /\ call[c].op \in {"create", "update"} /\ Current(c) /\ CallInv(c)
      BY <1>1, CallerTypes DEF Saves, Holds, IInv, CopyInv, CallState
    <2>1. CASE SaveUpdate(c) /\ rows[id] # NoRow
      <3>1. rows' = [rows EXCEPT ![id] = call[c].row]
        BY <2>1 DEF SaveUpdate, Present
      <3>2. call[c].op # "create" /\ call[c].row = Changed(rows[id], call[c].name, call[c].active)
        BY <2>0, <2>1 DEF Current
      <3>3. rows[id] \in Row /\ rows'[id] = Changed(rows[id], call[c].name, call[c].active)
        BY <2>0, <2>1, <3>1, <3>2
      <3>4. /\ rows'[id].url = rows[id].url
            /\ rows'[id].name = IF call[c].name = "keep" THEN rows[id].name ELSE call[c].name
            /\ rows'[id].active = IF call[c].active = "keep" THEN rows[id].active ELSE call[c].active
        BY <3>3 DEF Changed, Row
      <3>. QED
        BY <2>1, <3>2, <3>4
    <2>2. CASE SaveInsert(c) /\ rows' = [rows EXCEPT ![id] = Inserted(call[c].row)]
      <3>1. call[c].op = "create" /\ rows[id] = NoRow /\ call[c].row.active = "on"
        BY <2>0, <2>2 DEF SaveInsert, Current, CallInv
      <3>2. Inserted(call[c].row) = call[c].row
        BY <2>0, <3>1 DEF Inserted, Row
      <3>. QED
        BY <2>0, <2>2, <3>1, <3>2
    <2>. QED
      BY <1>1, <2>1, <2>2, SavesStep
  <1>2. TypeOK /\ IInv /\ [Next]_vars => [\A c \in Callers : Undoes(c)]_vars
    BY <1>1
  <1>. QED
    BY <1>2, Invariant, PTL DEF Spec, OnlyOverlapsUndo

=============================================================================
