--------------------------- MODULE PdfStoreProofs ---------------------------
(***************************************************************************)
(* Theorems about the PDF store, for any keys, goroutines, bodies, faults  *)
(* and bounds.                                                             *)
(***************************************************************************)
EXTENDS PdfStore, TLAPS

\* The key of an idle goroutine is a key.
LEMMA SomeKeyIsKey == SomeKey \in Keys
  BY SomeKeys DEF SomeKey

\* An idle goroutine is well typed.
LEMMA IdleCallType == IdleCall \in CallState
  BY SomeKeyIsKey, MaxEnsuresNat DEF IdleCall, CallState, Names, Places, Publishing

\* Moving a call to another place, its file operation done, keeps it well typed.
LEMMA GotoType ==
  ASSUME NEW c \in Calls, NEW pc \in Places \cup {"idle", "ok", "failed"},
         call \in [Calls -> CallState], Goto(c, pc)
  PROVE  /\ call' \in [Calls -> CallState]
         /\ call'[c].pc = pc
         /\ call'[c].key = call[c].key /\ call'[c].id = call[c].id /\ call'[c].body = call[c].body
         /\ \A d \in Calls : d # c => call'[d] = call[d]
  <1>1. call[c] \in CallState
    OBVIOUS
  <1>2. [call[c] EXCEPT !.pc = pc] \in CallState
    BY <1>1 DEF CallState
  <1>. QED
    BY <1>1, <1>2 DEF Goto, CallState

\* What a file operation of one call leaves alone.
LEMMA EnvType == ASSUME TypeOK, Env PROVE
         /\ cancelled' \in SUBSET Calls /\ issued' \in Names
         /\ crashes' \in Nat /\ abandoned' \in SUBSET Names
  BY DEF TypeOK, Env

\* Whole, partial and empty files are files.
LEMMA FileTypes ==
  /\ NoFile \in File /\ EmptyFile \in File
  /\ \A b \in Bodies : [size |-> "partial", body |-> b] \in File
  /\ \A f \in File : [f EXCEPT !.size = "whole"] \in File
  BY DEF NoFile, EmptyFile, File

-----------------------------------------------------------------------------
(* Typing.                                                                 *)

\* Bodies are in hand from the fetch on.
LEMMA InitType == Init => TypeOK
  <1>. SUFFICES ASSUME Init PROVE TypeOK
    OBVIOUS
  <1>1. call \in [Calls -> CallState] /\ \A c \in Calls : call[c].pc = "idle"
    BY IdleCallType DEF Init, IdleCall
  <1>2. canonical \in [Keys -> File] /\ temp \in [Names -> File]
    BY FileTypes DEF Init
  <1>. QED
    BY <1>1, <1>2, MaxEnsuresNat DEF Init, TypeOK, Names, Publishing

\* A call's record is well typed, and a body is in hand from the fetch on.
Typed(s) == s \in CallState /\ (s.pc \in Publishing => s.body \in Bodies)

\* A step of Ensure moves its own call, keeping its key and number.
LEMMA StepCall ==
  ASSUME TypeOK, NEW c \in Calls, Step(c)
  PROVE  /\ call' \in [Calls -> CallState]
         /\ \A d \in Calls : d # c => call'[d] = call[d]
         /\ Typed(call'[c])
         /\ call'[c].id = call[c].id /\ call'[c].key = call[c].key
  <1>. DEFINE s == call[c]
  <1>0. call \in [Calls -> CallState] /\ s \in CallState /\ (s.pc \in Publishing => s.body \in Bodies)
    BY DEF TypeOK
  <1>1. ASSUME NEW pc \in Places \cup {"ok", "failed"}, Goto(c, pc),
               pc \in Publishing => s.pc \in Publishing
        PROVE  /\ call' \in [Calls -> CallState]
               /\ \A d \in Calls : d # c => call'[d] = call[d]
               /\ Typed(call'[c])
               /\ call'[c].id = s.id /\ call'[c].key = s.key
    <2>1. /\ call' \in [Calls -> CallState]
          /\ call'[c].pc = pc /\ call'[c].key = s.key /\ call'[c].id = s.id /\ call'[c].body = s.body
          /\ \A d \in Calls : d # c => call'[d] = call[d]
      BY <1>0, <1>1, GotoType
    <2>. QED
      BY <2>1, <1>0, <1>1 DEF Typed
  <1>2. ASSUME NEW b \in Bodies, call' = [call EXCEPT ![c].pc = "check", ![c].body = b]
        PROVE  /\ call' \in [Calls -> CallState]
               /\ \A d \in Calls : d # c => call'[d] = call[d]
               /\ Typed(call'[c])
               /\ call'[c].id = s.id /\ call'[c].key = s.key
    <2>1. [s EXCEPT !.pc = "check", !.body = b] \in CallState
      BY <1>0 DEF CallState, Places, Publishing
    <2>2. call'[c] = [s EXCEPT !.pc = "check", !.body = b]
      BY <1>0, <1>2
    <2>3. call' \in [Calls -> CallState] /\ \A d \in Calls : d # c => call'[d] = call[d]
      BY <1>0, <1>2, <2>1
    <2>4. call'[c].body = b /\ call'[c].id = s.id /\ call'[c].key = s.key
      BY <2>2, <1>0 DEF CallState
    <2>. QED
      BY <2>1, <2>2, <2>3, <2>4 DEF Typed
  <1>3. CASE Stat(c)
    BY <1>1, <1>3 DEF Stat, Places, Publishing
  <1>4. CASE MkdirAll(c)
    BY <1>1, <1>4 DEF MkdirAll, Places, Publishing
  <1>5. CASE Fetch(c)
    BY <1>1, <1>2, <1>5 DEF Fetch, Places, Publishing
  <1>6. CASE CheckContext(c)
    BY <1>1, <1>6 DEF CheckContext, Places, Publishing
  <1>7. CASE CreateTemp(c)
    BY <1>1, <1>7 DEF CreateTemp, Places, Publishing
  <1>8. CASE WriteStarts(c)
    BY <1>1, <1>8 DEF WriteStarts, Places, Publishing
  <1>9. CASE WriteEnds(c)
    BY <1>1, <1>9 DEF WriteEnds, Places, Publishing
  <1>10. CASE Close(c)
    BY <1>1, <1>10 DEF Close, Places, Publishing
  <1>11. CASE Rename(c)
    BY <1>1, <1>11 DEF Rename, Places, Publishing
  <1>12. CASE RemoveTemp(c)
    BY <1>1, <1>12 DEF RemoveTemp, Places, Publishing
  <1>. QED
    BY <1>3, <1>4, <1>5, <1>6, <1>7, <1>8, <1>9, <1>10, <1>11, <1>12 DEF Step

\* A step of Ensure leaves files files, and the rest of the state well typed.
LEMMA StepFiles ==
  ASSUME TypeOK, NEW c \in Calls, Step(c)
  PROVE  /\ canonical' \in [Keys -> File] /\ temp' \in [Names -> File]
         /\ cancelled' \in SUBSET Calls /\ issued' \in Names /\ crashes' \in Nat
         /\ abandoned' \in SUBSET Names /\ faults' \in Nat
  <1>0. /\ canonical \in [Keys -> File] /\ temp \in [Names -> File] /\ faults \in Nat
        /\ call[c].id \in Names /\ call[c].key \in Keys
        /\ (call[c].pc \in Publishing => call[c].body \in Bodies)
    BY DEF TypeOK, CallState
  <1>1. CASE Stat(c)
    BY <1>0, <1>1, EnvType DEF Stat, Disk, Fails
  <1>2. CASE MkdirAll(c)
    BY <1>0, <1>2, EnvType DEF MkdirAll, Disk, Fails
  <1>3. CASE Fetch(c)
    BY <1>0, <1>3, EnvType DEF Fetch, Disk
  <1>4. CASE CheckContext(c)
    BY <1>0, <1>4, EnvType DEF CheckContext, Disk
  <1>5. CASE CreateTemp(c)
    BY <1>0, <1>5, EnvType, FileTypes DEF CreateTemp, TempName, Fails
  <1>6. CASE WriteStarts(c)
    BY <1>0, <1>6, EnvType, FileTypes DEF WriteStarts, TempName, Publishing
  <1>7. CASE WriteEnds(c)
    BY <1>0, <1>7, EnvType, FileTypes DEF WriteEnds, TempName, Fails
  <1>8. CASE Close(c)
    BY <1>0, <1>8, EnvType DEF Close, Disk, Fails
  <1>9. CASE Rename(c)
    BY <1>0, <1>9, EnvType, FileTypes DEF Rename, TempName, Disk, Fails
  <1>10. CASE RemoveTemp(c)
    BY <1>0, <1>10, FileTypes DEF RemoveTemp, TempName, Fails, TypeOK
  <1>. QED
    BY <1>1, <1>2, <1>3, <1>4, <1>5, <1>6, <1>7, <1>8, <1>9, <1>10 DEF Step

LEMMA StepType == ASSUME TypeOK, NEW c \in Calls, Step(c) PROVE TypeOK'
  <1>1. \A d \in Calls : call'[d].pc \in Publishing => call'[d].body \in Bodies
    BY StepCall DEF Typed, TypeOK
  <1>. QED
    BY <1>1, StepCall, StepFiles DEF TypeOK

\* Every step keeps the state well typed.
LEMMA NextType == TypeOK /\ [Next]_vars => TypeOK'
  <1>. SUFFICES ASSUME TypeOK, [Next]_vars PROVE TypeOK'
    OBVIOUS
  <1>1. ASSUME NEW c \in Calls, Step(c) PROVE TypeOK'
    BY <1>1, StepType
  <1>2. ASSUME NEW c \in Calls, Cancel(c) PROVE TypeOK'
    BY <1>2 DEF Cancel, Disk, TypeOK
  <1>3. ASSUME NEW c \in Calls, NEW k \in Keys, Ensure(c, k) PROVE TypeOK'
    <2>1. issued' \in Names
      BY <1>3, MaxEnsuresNat DEF Ensure, TypeOK, Names
    <2>. DEFINE s == [pc |-> "stat", key |-> k, id |-> issued + 1, body |-> NoBody]
    <2>2. s \in CallState /\ s.pc \notin Publishing
      BY <1>3, <2>1 DEF Ensure, CallState, Places, Publishing
    <2>3. call' \in [Calls -> CallState] /\ \A d \in Calls : call'[d] = IF d = c THEN s ELSE call[d]
      BY <1>3, <2>2 DEF Ensure, TypeOK
    <2>4. \A d \in Calls : call'[d].pc \in Publishing => call'[d].body \in Bodies
      BY <2>2, <2>3 DEF TypeOK
    <2>. QED
      BY <1>3, <2>1, <2>3, <2>4 DEF Ensure, Disk, TypeOK
  <1>4. CASE Crash
    <2>1. call' \in [Calls -> CallState] /\ \A c \in Calls : call'[c].pc = "idle"
      BY <1>4, IdleCallType DEF Crash, IdleCall
    <2>2. abandoned' \in SUBSET Names
      BY <1>4, MaxEnsuresNat DEF Crash, TypeOK, Names
    <2>. QED
      BY <1>4, <2>1, <2>2 DEF Crash, Disk, TypeOK, Publishing
  <1>5. CASE UNCHANGED vars
    BY <1>5 DEF vars, TypeOK
  <1>. QED
    BY <1>1, <1>2, <1>3, <1>4, <1>5 DEF Next

\* The store's state is well typed in every reachable state, so a body is in
\* hand whenever a file is written.
THEOREM TypeCorrect == Spec => []TypeOK
  <1>. QED
    BY InitType, NextType, PTL DEF Spec

-----------------------------------------------------------------------------
(* Canonical files are whole and locators resolve.                         *)

\* Numbers are given out in order.
NumbersIssued == \A c \in Calls : call[c].pc # "idle" => call[c].id \in 1..issued

\* Two calls never have the same temporary file.
NamesDiffer ==
    \A c, d \in Calls : c # d /\ call[c].pc # "idle" /\ call[d].pc # "idle" => call[c].id # call[d].id

\* A written temporary file holds the body of its call.
TempIsBody ==
    \A c \in Calls :
      /\ call[c].pc = "writing" => temp[call[c].id].body = call[c].body
      /\ call[c].pc \in {"close", "rename"} =>
           temp[call[c].id].size = "whole" /\ temp[call[c].id].body = call[c].body

IInv == NumbersIssued /\ NamesDiffer /\ TempIsBody /\ CanonicalIsWhole /\ LocatorResolves

LEMMA InitInv == Init => IInv
  BY DEF Init, IInv, NumbersIssued, NamesDiffer, TempIsBody, CanonicalIsWhole, LocatorResolves,
         IdleCall, NoFile, EmptyFile

\* A step of Ensure touches only its own temporary file.
LEMMA StepTemp ==
  ASSUME NEW c \in Calls, Step(c), TypeOK
  PROVE  \A n \in Names : n # call[c].id => temp'[n] = temp[n]
  BY DEF Step, Stat, MkdirAll, Fetch, CheckContext, CreateTemp, WriteStarts, WriteEnds, Close, Rename,
         RemoveTemp, Disk, TempName, TypeOK

\* What a step of Ensure does to its own temporary file.
LEMMA StepBody ==
  ASSUME NEW c \in Calls, Step(c), TypeOK, TempIsBody
  PROVE  /\ call'[c].pc = "writing" => temp'[call[c].id].body = call'[c].body
         /\ call'[c].pc \in {"close", "rename"} =>
              temp'[call[c].id].size = "whole" /\ temp'[call[c].id].body = call'[c].body
  <1>0. /\ call[c] \in CallState /\ call \in [Calls -> CallState]
        /\ temp \in [Names -> File] /\ call[c].id \in Names
    BY DEF TypeOK, CallState
  <1>1. ASSUME NEW pc \in Places \cup {"idle", "ok", "failed"}, Goto(c, pc)
        PROVE  call'[c].pc = pc /\ call'[c].body = call[c].body
    BY <1>0, <1>1, GotoType
  <1>2. CASE Stat(c) \/ MkdirAll(c) \/ CheckContext(c) \/ RemoveTemp(c) \/ Rename(c) \/ CreateTemp(c)
    BY <1>1, <1>2 DEF Stat, MkdirAll, CheckContext, RemoveTemp, Rename, CreateTemp, Places, Publishing
  <1>3. CASE Fetch(c)
    BY <1>0, <1>1, <1>3 DEF Fetch, Places, CallState
  <1>4. CASE WriteStarts(c)
    <2>1. call'[c].pc = "writing" /\ call'[c].body = call[c].body
      BY <1>1, <1>4 DEF WriteStarts, Places, Publishing
    <2>2. temp'[call[c].id] = [size |-> "partial", body |-> call[c].body]
      BY <1>0, <1>4 DEF WriteStarts, TempName
    <2>. QED
      BY <2>1, <2>2
  <1>5. CASE WriteEnds(c)
    <2>1. call'[c].body = call[c].body /\ call'[c].pc \in {"close", "clean"}
      BY <1>1, <1>5 DEF WriteEnds, Places, Publishing
    <2>2. CASE call'[c].pc = "close"
      <3>1. temp' = [temp EXCEPT ![call[c].id].size = "whole"]
        BY <1>1, <1>5, <2>2 DEF WriteEnds, TempName, Places, Publishing
      <3>2. temp'[call[c].id] = [temp[call[c].id] EXCEPT !.size = "whole"] /\ temp[call[c].id] \in File
        BY <1>0, <3>1
      <3>3. temp'[call[c].id].size = "whole" /\ temp'[call[c].id].body = temp[call[c].id].body
        BY <3>2 DEF File
      <3>. QED
        BY <3>3, <2>1, <1>5 DEF WriteEnds, TempIsBody
    <2>. QED
      BY <2>1, <2>2
  <1>6. CASE Close(c)
    BY <1>1, <1>6 DEF Close, Disk, TempIsBody, Places, Publishing
  <1>. QED
    BY <1>2, <1>3, <1>4, <1>5, <1>6 DEF Step

\* The canonical files change only by a rename, and then to a whole body.
LEMMA StepCanonical ==
  ASSUME NEW c \in Calls, Step(c), TypeOK, TempIsBody
  PROVE  \/ canonical' = canonical /\ (call'[c].pc = "ok" => Cached(call[c].key))
         \/ /\ \A k \in Keys : k # call[c].key => canonical'[k] = canonical[k]
            /\ canonical'[call[c].key].size = "whole" /\ canonical'[call[c].key].body \in Bodies
  <1>0. /\ call[c] \in CallState /\ call \in [Calls -> CallState] /\ canonical \in [Keys -> File]
        /\ call[c].key \in Keys
    BY DEF TypeOK, CallState
  <1>1. ASSUME NEW pc \in Places \cup {"idle", "ok", "failed"}, Goto(c, pc) PROVE call'[c].pc = pc
    BY <1>0, <1>1, GotoType
  <1>2. CASE Stat(c)
    BY <1>1, <1>2 DEF Stat, Disk, Places
  <1>3. CASE MkdirAll(c) \/ CheckContext(c) \/ RemoveTemp(c) \/ CreateTemp(c) \/ WriteStarts(c)
             \/ WriteEnds(c) \/ Close(c)
    BY <1>1, <1>3 DEF MkdirAll, CheckContext, RemoveTemp, CreateTemp, WriteStarts, WriteEnds, Close,
       Disk, Places, Publishing
  <1>4. CASE Fetch(c)
    BY <1>0, <1>1, <1>4 DEF Fetch, Disk, Places, CallState
  <1>5. CASE Rename(c)
    <2>1. CASE Goto(c, "clean") /\ Disk
      BY <1>1, <2>1 DEF Disk, Places, Publishing
    <2>2. CASE canonical' = [canonical EXCEPT ![call[c].key] = temp[TempName(c)]]
      BY <1>0, <1>5, <2>2 DEF Rename, TempName, TempIsBody, TypeOK, Publishing
    <2>. QED
      BY <1>5, <2>1, <2>2 DEF Rename
  <1>. QED
    BY <1>2, <1>3, <1>4, <1>5 DEF Step

\* Each step of Ensure keeps the invariant.
LEMMA StepInv == ASSUME TypeOK, IInv, NEW c \in Calls, Step(c) PROVE IInv'
  <1>0. /\ \A d \in Calls : d # c => call'[d] = call[d]
        /\ call'[c].id = call[c].id /\ call'[c].key = call[c].key
        /\ call[c].pc # "idle" /\ issued' = issued
        /\ \A d \in Calls : call[d].key \in Keys /\ call[d].id \in Names
    BY StepCall DEF TypeOK, CallState, Step, Stat, MkdirAll, Fetch, CheckContext, CreateTemp, WriteStarts,
       WriteEnds, Close, Rename, RemoveTemp, Env
  <1>1. NumbersIssued'
    BY <1>0 DEF IInv, NumbersIssued
  <1>2. NamesDiffer'
    BY <1>0 DEF IInv, NamesDiffer
  <1>3. TempIsBody'
    <2>1. ASSUME NEW d \in Calls, d # c, call[d].pc # "idle" PROVE temp'[call[d].id] = temp[call[d].id]
      BY <2>1, <1>0, StepTemp DEF IInv, NamesDiffer
    <2>. QED
      BY <2>1, <1>0, StepBody DEF IInv, TempIsBody
  <1>4. CanonicalIsWhole'
    BY StepCanonical DEF IInv, CanonicalIsWhole
  <1>5. LocatorResolves'
    <2>1. Cached(call[c].key) => canonical[call[c].key].size = "whole"
      BY <1>0 DEF Cached, IInv, CanonicalIsWhole
    <2>. QED
      BY <2>1, <1>0, StepCanonical DEF IInv, LocatorResolves
  <1>. QED
    BY <1>1, <1>2, <1>3, <1>4, <1>5 DEF IInv

LEMMA NextInv == TypeOK /\ IInv /\ [Next]_vars => IInv'
  <1>. SUFFICES ASSUME TypeOK, IInv, [Next]_vars PROVE IInv'
    OBVIOUS
  <1>. USE DEF IInv, NumbersIssued, NamesDiffer, TempIsBody, CanonicalIsWhole, LocatorResolves
  <1>1. ASSUME NEW c \in Calls, Step(c) PROVE IInv'
    BY <1>1, StepInv
  <1>2. ASSUME NEW c \in Calls, Cancel(c) PROVE IInv'
    BY <1>2 DEF Cancel, Disk
  <1>3. ASSUME NEW c \in Calls, NEW k \in Keys, Ensure(c, k) PROVE IInv'
    <2>1. /\ call'[c].pc = "stat" /\ call'[c].id = issued + 1
          /\ \A d \in Calls : d # c => call'[d] = call[d]
          /\ issued' = issued + 1 /\ issued \in Nat /\ UNCHANGED <<canonical, temp>>
      BY <1>3, MaxEnsuresNat DEF Ensure, Disk, TypeOK, Names
    <2>. QED
      BY <2>1
  <1>4. CASE Crash
    BY <1>4 DEF Crash, Disk, IdleCall
  <1>5. CASE UNCHANGED vars
    BY <1>5 DEF vars
  <1>. QED
    BY <1>1, <1>2, <1>3, <1>4, <1>5 DEF Next

\* The invariant that the theorems below are drawn from.
THEOREM StoreInvariant == Spec => [](TypeOK /\ IInv)
  <1>1. Init => TypeOK /\ IInv
    BY InitType, InitInv
  <1>2. TypeOK /\ IInv /\ [Next]_vars => (TypeOK /\ IInv)'
    BY NextType, NextInv
  <1>. QED
    BY <1>1, <1>2, PTL DEF Spec

\* No interleaving, failure or crash publishes a partial body.
THEOREM CanonicalIsWholeHolds == Spec => []CanonicalIsWhole
  <1>1. IInv => CanonicalIsWhole
    BY DEF IInv
  <1>. QED
    BY <1>1, StoreInvariant, PTL

\* Every locator Ensure has returned resolves to a complete file.
THEOREM LocatorResolvesHolds == Spec => []LocatorResolves
  <1>1. IInv => LocatorResolves
    BY DEF IInv
  <1>. QED
    BY <1>1, StoreInvariant, PTL

\* Canonical names and locators only ever lead to whole files.
THEOREM LocatorsNameWholeFilesHolds == Spec => []LocatorsNameWholeFiles
  <1>1. IInv => LocatorsNameWholeFiles
    BY DEF IInv, LocatorsNameWholeFiles
  <1>. QED
    BY <1>1, StoreInvariant, PTL

\* A file once published stays, whatever fails or is cancelled later.
THEOREM PublishedStaysHolds == Spec => PublishedStays
  <1>1. TypeOK /\ IInv /\ [Next]_vars =>
          [\A k \in Keys : canonical[k].size = "whole" => canonical'[k].size = "whole"]_vars
    <2>. SUFFICES ASSUME TypeOK, IInv, Next, NEW k \in Keys, canonical[k].size = "whole"
                  PROVE  canonical'[k].size = "whole"
      OBVIOUS
    <2>1. ASSUME NEW c \in Calls, Step(c) PROVE canonical'[k].size = "whole"
      BY <2>1, StepCanonical DEF IInv
    <2>2. ASSUME NEW c \in Calls, Cancel(c) PROVE canonical'[k].size = "whole"
      BY <2>2 DEF Cancel, Disk
    <2>3. ASSUME NEW c \in Calls, NEW j \in Keys, Ensure(c, j) PROVE canonical'[k].size = "whole"
      BY <2>3 DEF Ensure, Disk
    <2>4. CASE Crash
      BY <2>4 DEF Crash, Disk
    <2>. QED
      BY <2>1, <2>2, <2>3, <2>4 DEF Next
  <1>. QED
    BY <1>1, StoreInvariant, PTL DEF Spec, PublishedStays

-----------------------------------------------------------------------------
(* Temporary files are tidied up.                                          *)

\* The places of a call that has a temporary file.
Holding == {"write", "writing", "close", "rename", "clean"}

\* What was abandoned was issued, so a crash, which abandons all that was, forgets none.
TempInv == NoTempLeft /\ abandoned \subseteq 1..issued

\* After a step of Ensure its own temporary file is gone, is still in hand, or was given up
\* by a failed Remove or before.
LEMMA StepOwnTemp ==
  ASSUME TypeOK, IInv, TempInv, NEW c \in Calls, Step(c)
  PROVE  /\ temp'[call[c].id].size # "absent" =>
              call[c].id \in abandoned' \/ call'[c].pc \in Holding
         /\ abandoned \subseteq abandoned' /\ abandoned' \subseteq abandoned \cup {call[c].id}
  <1>. DEFINE n == call[c].id
  <1>0. /\ call[c] \in CallState /\ call \in [Calls -> CallState] /\ n \in Names
        /\ temp \in [Names -> File] /\ call[c].pc # "idle"
    BY DEF TypeOK, CallState, Step, Stat, MkdirAll, Fetch, CheckContext, CreateTemp, WriteStarts,
           WriteEnds, Close, Rename, RemoveTemp
  <1>1. ASSUME NEW pc \in Places \cup {"idle", "ok", "failed"}, Goto(c, pc) PROVE call'[c].pc = pc
    BY <1>0, <1>1, GotoType
  <1>2. call[c].pc \notin Holding /\ temp[n].size # "absent" => n \in abandoned
    BY <1>0 DEF TempInv, NoTempLeft, IInv, NamesDiffer, Holding
  <1>3. CASE Stat(c) \/ MkdirAll(c) \/ Fetch(c) \/ CheckContext(c)
    BY <1>0, <1>2, <1>3 DEF Stat, MkdirAll, Fetch, CheckContext, Disk, Env, Holding
  <1>4. CASE CreateTemp(c)
    BY <1>0, <1>1, <1>2, <1>4 DEF CreateTemp, Env, Holding, Places, Publishing
  <1>5. CASE WriteStarts(c)
    BY <1>1, <1>5 DEF WriteStarts, Env, Holding, Places, Publishing
  <1>6. CASE WriteEnds(c)
    BY <1>1, <1>6 DEF WriteEnds, Env, Holding, Places, Publishing
  <1>7. CASE Close(c)
    BY <1>1, <1>7 DEF Close, Env, Holding, Places, Publishing
  <1>8. CASE Rename(c)
    BY <1>0, <1>1, <1>8 DEF Rename, Env, TempName, NoFile, Holding, Places, Publishing
  <1>9. CASE RemoveTemp(c)
    BY <1>0, <1>9 DEF RemoveTemp, TempName, NoFile
  <1>. QED
    BY <1>3, <1>4, <1>5, <1>6, <1>7, <1>8, <1>9 DEF Step

\* Every step keeps account of the temporary files.
LEMMA NextTemp == TypeOK /\ IInv /\ TempInv /\ [Next]_vars => TempInv'
  <1>. SUFFICES ASSUME TypeOK, IInv, TempInv, [Next]_vars PROVE TempInv'
    OBVIOUS
  <1>0. issued \in Nat /\ temp \in [Names -> File]
    BY MaxEnsuresNat DEF TypeOK, Names
  <1>1. ASSUME NEW c \in Calls, Step(c) PROVE TempInv'
    <2>1. /\ \A d \in Calls : d # c => call'[d] = call[d]
          /\ call'[c].id = call[c].id /\ call[c].pc # "idle" /\ issued' = issued
      BY <1>1, StepCall DEF Step, Stat, MkdirAll, Fetch, CheckContext, CreateTemp, WriteStarts,
         WriteEnds, Close, Rename, RemoveTemp, Env
    <2>2. abandoned' \subseteq 1..issued'
      BY <1>1, <2>1, StepOwnTemp DEF IInv, NumbersIssued, TempInv
    <2>3. ASSUME NEW n \in Names, temp'[n].size # "absent"
          PROVE  n \in abandoned' \/ \E d \in Calls : call'[d].id = n /\ call'[d].pc \in Holding
      <3>1. CASE n = call[c].id
        BY <1>1, <2>1, <2>3, <3>1, StepOwnTemp
      <3>2. CASE n # call[c].id
        <4>1. temp[n].size # "absent" /\ abandoned \subseteq abandoned'
          BY <1>1, <2>3, <3>2, StepTemp, StepOwnTemp
        <4>2. n \in abandoned \/ \E d \in Calls : call[d].id = n /\ call[d].pc \in Holding
          BY <4>1 DEF TempInv, NoTempLeft, Holding
        <4>3. ASSUME NEW d \in Calls, call[d].id = n, call[d].pc \in Holding
              PROVE  call'[d].id = n /\ call'[d].pc \in Holding
          BY <2>1, <3>2, <4>3
        <4>. QED
          BY <4>1, <4>2, <4>3
      <3>. QED
        BY <3>1, <3>2
    <2>. QED
      BY <2>2, <2>3 DEF TempInv, NoTempLeft, Holding
  <1>2. ASSUME NEW c \in Calls, Cancel(c) PROVE TempInv'
    BY <1>2 DEF Cancel, Disk, TempInv, NoTempLeft
  <1>3. ASSUME NEW c \in Calls, NEW k \in Keys, Ensure(c, k) PROVE TempInv'
    <2>1. /\ call[c].pc \notin Holding /\ \A d \in Calls : d # c => call'[d] = call[d]
          /\ issued' = issued + 1 /\ UNCHANGED <<temp, abandoned>>
      BY <1>3 DEF Ensure, Disk, TypeOK, Holding
    <2>2. abandoned' \subseteq 1..issued'
      BY <1>0, <2>1 DEF TempInv
    <2>. QED
      BY <2>1, <2>2 DEF TempInv, NoTempLeft, Holding
  <1>4. CASE Crash
    <2>1. abandoned' = 1..issued /\ issued' = issued /\ temp' = temp
      BY <1>4 DEF Crash, Disk
    <2>2. ASSUME NEW n \in Names, temp[n].size # "absent" PROVE n \in 1..issued
      <3>1. CASE n \in abandoned
        BY <3>1 DEF TempInv
      <3>2. ASSUME NEW c \in Calls, call[c].id = n, call[c].pc \in Holding PROVE n \in 1..issued
        BY <3>2 DEF IInv, NumbersIssued, Holding
      <3>. QED
        BY <2>2, <3>1, <3>2 DEF TempInv, NoTempLeft, Holding
    <2>3. NoTempLeft'
      BY <2>1, <2>2 DEF NoTempLeft
    <2>. QED
      BY <2>1, <2>3 DEF TempInv
  <1>5. CASE UNCHANGED vars
    BY <1>5 DEF vars, TempInv, NoTempLeft
  <1>. QED
    BY <1>1, <1>2, <1>3, <1>4, <1>5 DEF Next

\* Every temporary file belongs to a call in flight, to a process that crashed or to a Remove
\* that failed, whatever the calls interleave with.
THEOREM NoTempLeftHolds == Spec => []NoTempLeft
  <1>1. Init => TempInv
    BY DEF Init, TempInv, NoTempLeft, NoFile
  <1>2. TempInv => NoTempLeft
    BY DEF TempInv
  <1>. QED
    BY <1>1, <1>2, NextTemp, StoreInvariant, PTL DEF Spec

=============================================================================
