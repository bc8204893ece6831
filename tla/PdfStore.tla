------------------------------ MODULE PdfStore ------------------------------
(***************************************************************************)
(* The filesystem-backed PDF store.  Ensure returns a locator over the     *)
(* canonical file of a key, fetching and publishing it first unless it is  *)
(* there: the body is written to a temporary file in the same directory,   *)
(* which is then renamed.  Calls of several goroutines interleave, their   *)
(* contexts may be cancelled, file operations may fail, and the process    *)
(* may crash; the disk stays.                                              *)
(*                                                                         *)
(* A body is a model value: upstream may serve another one at each fetch.  *)
(* Keys are those that pass Key.Validate; any other is refused before the  *)
(* disk is touched.  Crashes are of the process, not of the filesystem.    *)
(***************************************************************************)
EXTENDS Naturals, FiniteSets

CONSTANTS
    Keys,           \* (source_type, source_id) pairs
    Calls,          \* goroutines that may be inside Ensure at once
    Bodies,         \* what upstream may serve
    NoBody,         \* the body of an empty file
    FsFaults,       \* the file operations that may fail
    MaxEnsures,     \* bound: Ensure calls in a behaviour
    MaxCrashes,     \* bound: process crashes
    MaxFaults       \* bound: failed file operations

FsOps == {"stat", "mkdir", "create", "write", "close", "rename", "remove"}

ASSUME SomeKeys == Keys # {}
ASSUME NoBodyIsNoBody == NoBody \notin Bodies
ASSUME FsFaultsKnown == FsFaults \subseteq FsOps
ASSUME MaxEnsuresNat == MaxEnsures \in Nat

VARIABLES
    canonical,  \* the canonical file of each key
    temp,       \* the temporary files, by the suffix CreateTemp gave them
    call,       \* the Ensure each goroutine is executing
    cancelled,  \* goroutines whose context is cancelled
    issued,     \* Ensure calls so far
    crashes,    \* process crashes so far
    abandoned,  \* calls that a crash or a failed Remove kept from tidying up
    faults      \* failed file operations so far

vars == <<canonical, temp, call, cancelled, issued, crashes, abandoned, faults>>

-----------------------------------------------------------------------------
(* Files and calls.                                                        *)

File == [size : {"absent", "empty", "partial", "whole"}, body : Bodies \cup {NoBody}]
NoFile == [size |-> "absent", body |-> NoBody]
EmptyFile == [size |-> "empty", body |-> NoBody]

\* Temporary names are drawn from the call numbers.
Names == 0..MaxEnsures

\* The places of Ensure, each before the operation it is named for; "clean" is
\* before the Remove of an error path.
Publishing == {"check", "create", "write", "writing", "close", "rename", "clean"}
Places == {"stat", "mkdir", "fetch"} \cup Publishing
CallState == [pc : Places \cup {"idle", "ok", "failed"}, key : Keys, id : Names, body : Bodies \cup {NoBody}]

TypeOK ==
    /\ canonical \in [Keys -> File]
    /\ temp \in [Names -> File]
    /\ call \in [Calls -> CallState]
    /\ \A c \in Calls : call[c].pc \in Publishing => call[c].body \in Bodies
    /\ cancelled \in SUBSET Calls
    /\ issued \in Names
    /\ crashes \in Nat
    /\ abandoned \in SUBSET Names
    /\ faults \in Nat

SomeKey == CHOOSE k \in Keys : TRUE
IdleCall == [pc |-> "idle", key |-> SomeKey, id |-> 0, body |-> NoBody]

\* The root may already hold files, an operator's or a former process's.
Init ==
    /\ canonical \in [Keys -> {NoFile, EmptyFile}]
    /\ temp = [n \in Names |-> NoFile]
    /\ call = [c \in Calls |-> IdleCall]
    /\ cancelled = {}
    /\ issued = 0
    /\ crashes = 0
    /\ abandoned = {}
    /\ faults = 0

Fails(op) == op \in FsFaults /\ faults < MaxFaults /\ faults' = faults + 1

Goto(c, pc) == call' = [call EXCEPT ![c].pc = pc]
Env == UNCHANGED <<cancelled, issued, crashes, abandoned>>
Disk == UNCHANGED <<canonical, temp>>

-----------------------------------------------------------------------------
(* Ensure.                                                                 *)

Ensure(c, k) ==
    /\ call[c].pc \in {"idle", "ok", "failed"} /\ issued < MaxEnsures
    /\ issued' = issued + 1
    /\ call' = [call EXCEPT ![c] = [pc |-> "stat", key |-> k, id |-> issued + 1, body |-> NoBody]]
    /\ cancelled' = cancelled \ {c}
    /\ Disk /\ UNCHANGED <<crashes, abandoned, faults>>

\* The cache gate: the file exists and is not empty.
Cached(k) == canonical[k].size \in {"partial", "whole"}

\* A Stat that fails is a miss, whatever the file.
Stat(c) ==
    /\ call[c].pc = "stat"
    /\ \/ Goto(c, IF Cached(call[c].key) THEN "ok" ELSE "mkdir") /\ UNCHANGED faults
       \/ Goto(c, "mkdir") /\ Fails("stat")
    /\ Disk /\ Env

MkdirAll(c) ==
    /\ call[c].pc = "mkdir"
    /\ \/ Goto(c, "fetch") /\ UNCHANGED faults
       \/ Goto(c, "failed") /\ Fails("mkdir")
    /\ Disk /\ Env

\* Mutant: an empty response body is a body.
FetchEmptyBody(c) ==
    /\ call[c].pc = "fetch"
    /\ \/ Goto(c, "failed")
       \/ \E b \in Bodies \cup {NoBody} : call' = [call EXCEPT ![c].pc = "check", ![c].body = b]
    /\ Disk /\ Env /\ UNCHANGED faults

\* Transport error, bad status and empty body are the fetch failures; a
\* cancelled call may still get its body.
Fetch(c) ==
    /\ call[c].pc = "fetch"
    /\ \/ Goto(c, "failed")
       \/ \E b \in Bodies : call' = [call EXCEPT ![c].pc = "check", ![c].body = b]
    /\ Disk /\ Env /\ UNCHANGED faults

CheckContext(c) ==
    /\ call[c].pc = "check"
    /\ Goto(c, IF c \in cancelled THEN "failed" ELSE "create")
    /\ Disk /\ Env /\ UNCHANGED faults

\* Mutant: one temporary name for every call.
TempNameShared(c) == 0

\* CreateTemp's suffix is fresh.
TempName(c) == call[c].id

CreateTemp(c) ==
    /\ call[c].pc = "create"
    /\ \/ /\ temp' = [temp EXCEPT ![TempName(c)] = EmptyFile]
          /\ Goto(c, "write") /\ UNCHANGED faults
       \/ Goto(c, "failed") /\ Fails("create") /\ UNCHANGED temp
    /\ Env /\ UNCHANGED canonical

\* The write shows part of the body before all of it.
WriteStarts(c) ==
    /\ call[c].pc = "write"
    /\ temp' = [temp EXCEPT ![TempName(c)] = [size |-> "partial", body |-> call[c].body]]
    /\ Goto(c, "writing")
    /\ Env /\ UNCHANGED <<canonical, faults>>

\* Mutant: a failed write returns without removing its file.
WriteEndsLeaking(c) ==
    /\ call[c].pc = "writing"
    /\ \/ /\ temp' = [temp EXCEPT ![TempName(c)].size = "whole"]
          /\ Goto(c, "close") /\ UNCHANGED faults
       \/ Goto(c, "failed") /\ Fails("write") /\ UNCHANGED temp
    /\ Env /\ UNCHANGED canonical

WriteEnds(c) ==
    /\ call[c].pc = "writing"
    /\ \/ /\ temp' = [temp EXCEPT ![TempName(c)].size = "whole"]
          /\ Goto(c, "close") /\ UNCHANGED faults
       \/ Goto(c, "clean") /\ Fails("write") /\ UNCHANGED temp
    /\ Env /\ UNCHANGED canonical

Close(c) ==
    /\ call[c].pc = "close"
    /\ \/ Goto(c, "rename") /\ UNCHANGED faults
       \/ Goto(c, "clean") /\ Fails("close")
    /\ Disk /\ Env

\* The rename replaces whatever canonical file is there by now.
Rename(c) ==
    /\ call[c].pc = "rename"
    /\ \/ /\ canonical' = [canonical EXCEPT ![call[c].key] = temp[TempName(c)]]
          /\ temp' = [temp EXCEPT ![TempName(c)] = NoFile]
          /\ Goto(c, "ok") /\ UNCHANGED faults
       \/ Goto(c, "clean") /\ Fails("rename") /\ Disk
    /\ Env

\* Mutant: the error path clears the canonical file as well.
RemoveCanonicalToo(c) ==
    /\ call[c].pc = "clean"
    /\ Goto(c, "failed")
    /\ temp' = [temp EXCEPT ![TempName(c)] = NoFile]
    /\ canonical' = [canonical EXCEPT ![call[c].key] = NoFile]
    /\ Env /\ UNCHANGED faults

\* The error of Remove is ignored.
RemoveTemp(c) ==
    /\ call[c].pc = "clean"
    /\ Goto(c, "failed")
    /\ \/ temp' = [temp EXCEPT ![TempName(c)] = NoFile] /\ UNCHANGED <<abandoned, faults>>
       \/ Fails("remove") /\ abandoned' = abandoned \cup {call[c].id} /\ UNCHANGED temp
    /\ UNCHANGED <<canonical, cancelled, issued, crashes>>

Step(c) == \/ Stat(c) \/ MkdirAll(c) \/ Fetch(c) \/ CheckContext(c) \/ CreateTemp(c) \/ WriteStarts(c)
           \/ WriteEnds(c) \/ Close(c) \/ Rename(c) \/ RemoveTemp(c)

Cancel(c) ==
    /\ call[c].pc \in Places /\ c \notin cancelled
    /\ cancelled' = cancelled \cup {c}
    /\ Disk /\ UNCHANGED <<call, issued, crashes, abandoned, faults>>

Crash ==
    /\ crashes < MaxCrashes
    /\ crashes' = crashes + 1
    /\ abandoned' = 1..issued
    /\ call' = [c \in Calls |-> IdleCall]
    /\ cancelled' = {}
    /\ Disk /\ UNCHANGED <<issued, faults>>

Next == (\E c \in Calls : Step(c) \/ Cancel(c) \/ \E k \in Keys : Ensure(c, k)) \/ Crash

Spec == Init /\ [][Next]_vars

-----------------------------------------------------------------------------
(* Properties.                                                             *)

\* No interleaving, failure or crash publishes a partial body: a canonical file
\* holds a whole fetched body, unless it is an empty one from before.
CanonicalIsWhole ==
    \A k \in Keys : canonical[k].size \in {"absent", "empty", "whole"}
                 /\ (canonical[k].size = "whole" => canonical[k].body \in Bodies)

\* A locator returned by Ensure resolves to a complete file for as long as its
\* holder has it, whatever later calls do.
LocatorResolves ==
    \A c \in Calls : call[c].pc = "ok" => canonical[call[c].key].size = "whole"

\* What the canonical name and a locator lead to is always a whole file, or the empty one
\* that an earlier program left.
LocatorsNameWholeFiles == CanonicalIsWhole /\ LocatorResolves

\* Writing and renaming never touch another call's temporary file, and every
\* error path tidies up: what is left belongs to a call in flight, to a process
\* that crashed or to a Remove that failed.
NoTempLeft ==
    \A n \in Names : temp[n].size # "absent" =>
      \/ n \in abandoned
      \/ \E c \in Calls : call[c].id = n
           /\ call[c].pc \in {"write", "writing", "close", "rename", "clean"}

\* A failed or cancelled call takes nothing away: a file once published stays.
PublishedStays ==
    [][\A k \in Keys : canonical[k].size = "whole" => canonical'[k].size = "whole"]_vars

=============================================================================
