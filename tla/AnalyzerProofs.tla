--------------------------- MODULE AnalyzerProofs ---------------------------
(***************************************************************************)
(* Theorems about Analyzer, for any extractions, callers and bounds.       *)
(***************************************************************************)
EXTENDS Analyzer, TLAPS

-----------------------------------------------------------------------------
(* Typing.                                                                 *)

\* The records a call starts from are well typed.
LEMMA ConstantTypes ==
  /\ NoText \in Text /\ NoRow \in Row /\ IdleCall \in CallState
  /\ IdleCall.pc = "idle" /\ IdleCall.stamp = 0 /\ ~IdleCall.overtaken
  /\ 0 \in Bodies /\ 0 \in Times /\ 0 \in 0..MaxRuns
  <1>1. 0 \in Bodies /\ 0 \in Times /\ 0 \in 0..MaxRuns /\ NoBody \in Bodies
    BY BoundsNat DEF Bodies, Times, NoBody
  <1>2. NoText \in Text
    BY <1>1 DEF NoText, Text
  <1>3. NoRow \in Row
    BY <1>1, <1>2 DEF NoRow, Row
  <1>4. (CHOOSE e \in Extractions : TRUE) \in Extractions
    BY SomeExtraction
  <1>. QED
    BY <1>1, <1>2, <1>3, <1>4 DEF IdleCall, CallState

LEMMA InitType == Init => TypeOK
  <1>. SUFFICES ASSUME Init PROVE TypeOK
    OBVIOUS
  <1>1. job \in [Extractions -> Job!States]
    BY DEF Init, Job!Init, Job!States
  <1>2. body \in [Extractions -> Bodies]
    BY ConstantTypes DEF Init, NoBody
  <1>3. made \in [Extractions -> SUBSET (1..MaxBodies)]
    BY DEF Init
  <1>4. analyses \in [Extractions -> Row] /\ call \in [Calls -> CallState]
    BY ConstantTypes DEF Init
  <1>. QED
    BY <1>1, <1>2, <1>3, <1>4, ConstantTypes DEF Init, TypeOK

\* A completion and an analysis are well typed.
LEMMA CallTypes ==
  ASSUME TypeOK, NEW c \in Calls
  PROVE  /\ call[c] \in CallState /\ call[c].extraction \in Extractions
         /\ Completion(c) \in Text /\ Analysis(c) \in Row
  <1>1. call[c] \in CallState
    BY DEF TypeOK
  <1>2. call[c].run \in 0..MaxRuns /\ call[c].body \in Bodies /\ call[c].extraction \in Extractions
        /\ call[c].short \in Text /\ call[c].long \in Text /\ call[c].stamp \in Times
    BY <1>1 DEF CallState
  <1>. QED
    BY <1>1, <1>2 DEF Completion, Text, Analysis, Row

\* What Stores does, field by field.
LEMMA StoresType ==
  ASSUME TypeOK, NEW c \in Calls, NEW row \in Row, NEW answer \in Row, Stores(c, row, answer)
  PROVE  TypeOK'
  <1>1. call' \in [Calls -> CallState]
    <2>1. ASSUME NEW d \in Calls
          PROVE  /\ [call[d] EXCEPT !.pc = "ok", !.answer = answer] \in CallState
                 /\ [call[d] EXCEPT !.overtaken = TRUE] \in CallState
                 /\ call[d] \in CallState
      BY DEF TypeOK, CallState
    <2>. QED
      BY <2>1 DEF Stores
  <1>2. analyses' \in [Extractions -> Row]
    BY DEF TypeOK, Stores
  <1>. QED
    BY <1>1, <1>2 DEF Stores, extraction, TypeOK, Job!States, Job!Terminal

\* An extraction step keeps the pipeline's part well typed.
LEMMA ExtractsType ==
  ASSUME TypeOK, Extracts
  PROVE  /\ job' \in [Extractions -> Job!States] /\ body' \in [Extractions -> Bodies]
         /\ made' \in [Extractions -> SUBSET (1..MaxBodies)] /\ bodies' \in Bodies
  <1>0. job \in [Extractions -> Job!States]
    BY DEF TypeOK
  <1>1. CASE /\ \E e \in Extractions : Job!Request(e) \/ Job!Begin(e) \/ Job!Expire(e)
             /\ body' = [e \in Extractions |-> IF job'[e] = "done" THEN body[e] ELSE NoBody]
             /\ UNCHANGED <<made, bodies>>
    <2>1. job' \in [Extractions -> Job!States]
      BY <1>0, <1>1 DEF Job!Request, Job!Begin, Job!Expire, Job!States, Job!Terminal
    <2>2. body' \in [Extractions -> Bodies]
      BY <1>1, ConstantTypes DEF TypeOK, NoBody
    <2>. QED
      BY <1>1, <2>1, <2>2 DEF TypeOK
  <1>2. ASSUME NEW e \in Extractions,
               Job!Finish(e), bodies < MaxBodies, bodies' = bodies + 1,
               body' = [body EXCEPT ![e] = IF job'[e] = "done" THEN bodies' ELSE NoBody],
               made' = [made EXCEPT ![e] = @ \cup ({body'[e]} \ {NoBody})]
        PROVE  /\ job' \in [Extractions -> Job!States] /\ body' \in [Extractions -> Bodies]
               /\ made' \in [Extractions -> SUBSET (1..MaxBodies)] /\ bodies' \in Bodies
    <2>1. job' \in [Extractions -> Job!States]
      BY <1>0, <1>2 DEF Job!Finish, Job!States, Job!Terminal
    <2>2. bodies' \in 1..MaxBodies /\ bodies' \in Bodies
      BY <1>2, BoundsNat DEF TypeOK, Bodies
    <2>3. body' \in [Extractions -> Bodies] /\ body'[e] \in {bodies', NoBody}
      BY <1>2, <2>2, ConstantTypes DEF TypeOK, NoBody
    <2>4. {body'[e]} \ {NoBody} \subseteq 1..MaxBodies
      BY <2>2, <2>3
    <2>5. made' \in [Extractions -> SUBSET (1..MaxBodies)]
      BY <1>2, <2>4 DEF TypeOK
    <2>. QED
      BY <2>1, <2>2, <2>3, <2>5
  <1>. QED
    BY <1>1, <1>2 DEF Extracts

\* A call that only moves stays well typed.
LEMMA GotoType ==
  ASSUME TypeOK, NEW c \in Calls, NEW pc \in InProgress \cup {"idle", "ok", "failed"}, Goto(c, pc)
  PROVE  call' \in [Calls -> CallState]
  <1>1. [call[c] EXCEPT !.pc = pc] \in CallState
    BY CallTypes DEF CallState
  <1>. QED
    BY <1>1 DEF Goto, TypeOK

LEMMA ReturnsType ==
  ASSUME TypeOK, NEW c \in Calls, Returns(c)
  PROVE  TypeOK'
  <1>0. /\ call[c] \in CallState /\ Completion(c) \in Text /\ Analysis(c) \in Row
        /\ call[c].extraction \in Extractions
    BY CallTypes
  <1>1. CASE Private /\ call' \in [Calls -> CallState]
    BY <1>1 DEF TypeOK, Private, extraction, Job!States, Job!Terminal
  <1>2. CASE ShortReturns(c)
    <2>1. [call[c] EXCEPT !.pc = "long", !.short = Completion(c)] \in CallState
      BY <1>0 DEF CallState, InProgress
    <2>2. call' \in [Calls -> CallState]
      BY <1>2, <2>1 DEF ShortReturns, TypeOK
    <2>. QED
      BY <1>1, <1>2, <2>2 DEF ShortReturns
  <1>3. CASE LongReturns(c)
    <2>1. [call[c] EXCEPT !.pc = "insert", !.long = Completion(c), !.stamp = now] \in CallState
      BY <1>0 DEF CallState, InProgress, TypeOK
    <2>2. call' \in [Calls -> CallState]
      BY <1>3, <2>1 DEF LongReturns, TypeOK
    <2>. QED
      BY <1>1, <1>3, <2>2 DEF LongReturns
  <1>4. CASE CompletionFails(c) \/ InsertConflicts(c) \/ UpsertFails(c)
    BY <1>1, <1>4, GotoType DEF CompletionFails, InsertConflicts, UpsertFails, InProgress
  <1>5. CASE Insert(c)
    BY <1>0, <1>5, StoresType DEF Insert
  <1>6. CASE Overwrite(c)
    <2>. DEFINE old == analyses[call[c].extraction]
    <2>1. old \in Row
      BY <1>0 DEF TypeOK
    <2>2. Overwritten(old, Analysis(c)) \in Row /\ [Analysis(c) EXCEPT !.created = old.created] \in Row
      BY <1>0, <2>1 DEF Overwritten, Row
    <2>. QED
      BY <1>6, <2>2, StoresType DEF Overwrite
  <1>. QED
    BY <1>2, <1>3, <1>4, <1>5, <1>6 DEF Returns

LEMMA LoadType ==
  ASSUME TypeOK, NEW c \in Calls, NEW e \in Extractions, Load(c, e) \/ LoadFails(c, e)
  PROVE  TypeOK'
  <1>1. runs' \in 0..MaxRuns /\ UNCHANGED <<extraction, analyses, now>>
    BY BoundsNat DEF Load, LoadFails, TypeOK
  <1>2. \A b \in Bodies : [IdleCall EXCEPT !.pc = "short", !.extraction = e, !.run = runs', !.body = b] \in CallState
    BY <1>1, ConstantTypes DEF CallState, InProgress
  <1>3. [IdleCall EXCEPT !.pc = "failed", !.extraction = e, !.run = runs'] \in CallState
    BY <1>1, ConstantTypes DEF CallState
  <1>4. body[e] \in Bodies
    BY DEF TypeOK
  <1>5. call' \in [Calls -> CallState]
    BY <1>2, <1>3, <1>4 DEF Load, LoadFails, TypeOK
  <1>. QED
    BY <1>1, <1>5 DEF TypeOK, extraction, Job!States, Job!Terminal

LEMMA StepType == ASSUME TypeOK, [Next]_vars PROVE TypeOK'
  <1>1. CASE ExtractionMoves
    BY <1>1, ExtractsType DEF ExtractionMoves, TypeOK, Job!States, Job!Terminal
  <1>2. CASE Restart
    <2>1. job' \in [Extractions -> Job!States]
      BY <1>2 DEF Restart, Job!Restart, TypeOK, Job!States, Job!Terminal
    <2>2. call' \in [Calls -> CallState]
      BY <1>2, ConstantTypes DEF Restart
    <2>. QED
      BY <1>2, <2>1, <2>2 DEF Restart, TypeOK
  <1>3. CASE Tick
    BY <1>3, BoundsNat DEF Tick, TypeOK, Times, extraction, Job!States, Job!Terminal
  <1>4. CASE UNCHANGED vars
    BY <1>4 DEF vars, TypeOK, Job!States, Job!Terminal
  <1>. QED
    BY <1>1, <1>2, <1>3, <1>4, ReturnsType, LoadType DEF Next

\* The state is well typed in every reachable state, at every bound.
THEOREM TypeCorrect == Spec => []TypeOK
  BY InitType, StepType, PTL DEF Spec

-----------------------------------------------------------------------------
(* The inductive invariant.                                                *)

\* Bodies are numbered in the order they are made; an extraction has its newest or none.
BodiesInOrder ==
    \A e \in Extractions :
      /\ \A b \in made[e] : b <= bodies
      /\ body[e] # NoBody => body[e] \in made[e] /\ \A b \in made[e] : b <= body[e]

\* A call in progress holds a body its extraction had, and completions of that body.
OwnText ==
    \A c \in Calls :
      /\ call[c].pc \in InProgress => call[c].body \in made[call[c].extraction]
      /\ call[c].pc \in InProgress \ {"short"} => call[c].short = Completion(c)
      /\ call[c].pc \in {"insert", "overwrite"} => call[c].long = Completion(c)

\* The table holds times that have passed, and a clock reading is one.
TimesPassed ==
    /\ \A e \in Extractions : analyses[e].updated <= now
    /\ \A c \in Calls : call[c].stamp <= now

\* A call nobody overtook is not behind the row it is about to replace.
NotBehind ==
    \A c \in Calls : call[c].pc \in InProgress /\ ~call[c].overtaken =>
      LET row == analyses[call[c].extraction]
      IN  /\ row.short.body <= call[c].body
          /\ call[c].pc \in {"insert", "overwrite"} => row.updated <= call[c].stamp

IInv == /\ BodiesInOrder /\ OwnText /\ TimesPassed /\ NotBehind
        /\ OneRunPerAnalysis /\ AnalysesAreOfResults

LEMMA InitInv == Init => IInv
  <1>. SUFFICES ASSUME Init PROVE IInv
    OBVIOUS
  <1>1. \A c \in Calls : call[c].pc = "idle" /\ call[c].stamp = 0
    BY ConstantTypes DEF Init
  <1>2. \A e \in Extractions : analyses[e] = NoRow /\ analyses[e].updated = 0
                              /\ analyses[e].short = analyses[e].long
    BY DEF Init, NoRow
  <1>. QED
    BY <1>1, <1>2 DEF Init, IInv, BodiesInOrder, OwnText, TimesPassed, NotBehind, OneRunPerAnalysis,
       AnalysesAreOfResults, InProgress

\* An extraction that moves only adds newer bodies.
LEMMA ExtractsBodies ==
  ASSUME TypeOK, BodiesInOrder, Extracts
  PROVE  /\ BodiesInOrder'
         /\ \A e \in Extractions : made[e] \subseteq made'[e]
  <1>0. /\ bodies \in Nat /\ \A e \in Extractions : made[e] \subseteq 1..MaxBodies
        /\ body \in [Extractions -> Bodies] /\ made \in [Extractions -> SUBSET (1..MaxBodies)]
    BY BoundsNat DEF TypeOK, Bodies
  <1>1. CASE /\ body' = [e \in Extractions |-> IF job'[e] = "done" THEN body[e] ELSE NoBody]
             /\ UNCHANGED <<made, bodies>>
    BY <1>1 DEF BodiesInOrder
  <1>2. ASSUME NEW e \in Extractions, bodies' = bodies + 1,
               body' = [body EXCEPT ![e] = IF job'[e] = "done" THEN bodies' ELSE NoBody],
               made' = [made EXCEPT ![e] = @ \cup ({body'[e]} \ {NoBody})]
        PROVE  BodiesInOrder' /\ \A d \in Extractions : made[d] \subseteq made'[d]
    <2>1. /\ body'[e] \in {bodies', NoBody} /\ made'[e] = made[e] \cup ({body'[e]} \ {NoBody})
          /\ \A d \in Extractions : d # e => body'[d] = body[d] /\ made'[d] = made[d]
      BY <1>0, <1>2
    <2>2. \A d \in Extractions : \A b \in made[d] : b \in Nat /\ b <= bodies
      BY <1>0, BoundsNat DEF BodiesInOrder
    <2>. QED
      BY <1>0, <1>2, <2>1, <2>2 DEF BodiesInOrder
  <1>. QED
    BY <1>1, <1>2 DEF Extracts

\* An extraction step disturbs no call: what they hold was made before.
LEMMA ExtractionInv == ASSUME TypeOK, IInv, ExtractionMoves PROVE IInv'
  <1>1. BodiesInOrder' /\ \A e \in Extractions : made[e] \subseteq made'[e]
    BY ExtractsBodies DEF IInv, ExtractionMoves
  <1>2. UNCHANGED <<analyses, call, now>> /\ \A c \in Calls : call[c].extraction \in Extractions
    BY CallTypes DEF ExtractionMoves
  <1>3. OwnText'
    BY <1>1, <1>2 DEF IInv, OwnText, Completion
  <1>4. TimesPassed' /\ NotBehind' /\ OneRunPerAnalysis'
    BY <1>2 DEF IInv, TimesPassed, NotBehind, OneRunPerAnalysis
  <1>5. AnalysesAreOfResults'
    BY <1>1, <1>2 DEF IInv, AnalysesAreOfResults
  <1>. QED
    BY <1>1, <1>3, <1>4, <1>5 DEF IInv

\* What the invariant says of one call in progress.
Sound(c) ==
    LET row == analyses[call[c].extraction]
    IN  /\ call[c].extraction \in Extractions
        /\ call[c].body \in made[call[c].extraction]
        /\ call[c].pc # "short" => call[c].short = Completion(c)
        /\ call[c].pc \in {"insert", "overwrite"} => call[c].long = Completion(c)
        /\ ~call[c].overtaken =>
             /\ row.short.body <= call[c].body
             /\ call[c].pc \in {"insert", "overwrite"} => row.updated <= call[c].stamp

\* What a call does up to its upsert concerns itself only.
LEMMA PrivateInv ==
  ASSUME TypeOK, IInv, NEW c \in Calls,
         UNCHANGED <<extraction, analyses, now>>,
         \A d \in Calls : d # c => call'[d] = call[d],
         call'[c].stamp <= now,
         call'[c].pc \in InProgress => Sound(c)'
  PROVE  IInv'
  <1>1. BodiesInOrder' /\ OneRunPerAnalysis' /\ AnalysesAreOfResults'
    BY DEF IInv, BodiesInOrder, OneRunPerAnalysis, AnalysesAreOfResults, extraction
  <1>2. OwnText'
    BY DEF IInv, OwnText, Sound, Completion, extraction, InProgress
  <1>3. TimesPassed'
    BY DEF IInv, TimesPassed
  <1>4. NotBehind'
    BY DEF IInv, NotBehind, Sound
  <1>. QED
    BY <1>1, <1>2, <1>3, <1>4 DEF IInv

\* A stored analysis is of the body its call holds, and every other call in progress on
\* its extraction is overtaken from then on.
LEMMA StoresInv ==
  ASSUME TypeOK, IInv, NEW c \in Calls, call[c].pc \in {"insert", "overwrite"},
         NEW row \in Row, NEW answer \in Row, Stores(c, row, answer),
         row.short = Completion(c), row.long = Completion(c), row.updated = call[c].stamp
  PROVE  IInv'
  <1>. DEFINE e == call[c].extraction
  <1>0. /\ e \in Extractions /\ \A d \in Calls : call[d] \in CallState
        /\ call[c].body \in made[e] /\ UNCHANGED <<extraction, now>>
    BY CallTypes DEF IInv, OwnText, InProgress, Stores
  <1>1. analyses'[e] = row /\ \A d \in Extractions : d # e => analyses'[d] = analyses[d]
    BY <1>0 DEF Stores, TypeOK
  <1>2. /\ call'[c].pc = "ok" /\ call'[c].stamp = call[c].stamp
        /\ \A d \in Calls : d # c =>
             /\ call'[d].pc = call[d].pc /\ call'[d].extraction = call[d].extraction
             /\ call'[d].run = call[d].run /\ call'[d].body = call[d].body
             /\ call'[d].short = call[d].short /\ call'[d].long = call[d].long
             /\ call'[d].stamp = call[d].stamp
             /\ ~call'[d].overtaken => ~call[d].overtaken
             /\ call[d].pc \in InProgress /\ call[d].extraction = e => call'[d].overtaken
    BY <1>0 DEF Stores, CallState
  <1>3. BodiesInOrder'
    BY <1>0 DEF IInv, BodiesInOrder, extraction
  <1>4. OwnText'
    BY <1>0, <1>2 DEF IInv, OwnText, Completion, extraction, InProgress
  <1>5. TimesPassed'
    BY <1>0, <1>1, <1>2 DEF IInv, TimesPassed
  <1>6. NotBehind'
    BY <1>0, <1>1, <1>2, CallTypes DEF IInv, NotBehind, InProgress
  <1>7. OneRunPerAnalysis'
    BY <1>1 DEF IInv, OneRunPerAnalysis
  <1>8. AnalysesAreOfResults'
    <2>1. row.short.body = call[c].body
      BY DEF Completion
    <2>. QED
      BY <1>0, <1>1, <2>1 DEF IInv, AnalysesAreOfResults, extraction
  <1>. QED
    BY <1>3, <1>4, <1>5, <1>6, <1>7, <1>8 DEF IInv

\* What Insert and Overwrite store, and what they answer.
LEMMA UpsertStores ==
  ASSUME TypeOK, IInv, NEW c \in Calls, Insert(c) \/ Overwrite(c)
  PROVE  \E row \in Row, answer \in Row :
           /\ call[c].pc \in {"insert", "overwrite"}
           /\ Stores(c, row, answer)
           /\ row.short = Completion(c) /\ row.long = Completion(c)
           /\ row.updated = call[c].stamp /\ row = answer
  <1>0. /\ call[c].extraction \in Extractions /\ Analysis(c) \in Row
        /\ call[c].pc \in {"insert", "overwrite"} =>
             call[c].short = Completion(c) /\ call[c].long = Completion(c)
    BY CallTypes DEF IInv, OwnText, InProgress
  <1>1. Analysis(c).short = call[c].short /\ Analysis(c).long = call[c].long /\ Analysis(c).updated = call[c].stamp
    BY DEF Analysis
  <1>2. CASE Insert(c)
    BY <1>0, <1>1, <1>2 DEF Insert
  <1>3. CASE Overwrite(c)
    <2>. DEFINE old == analyses[call[c].extraction]
                row == Overwritten(old, Analysis(c))
                answer == [Analysis(c) EXCEPT !.created = old.created]
    <2>1. old \in Row
      BY <1>0 DEF TypeOK
    <2>2. row \in Row /\ answer \in Row /\ row = answer
      <3>1. row \in Row /\ answer \in Row
        BY <1>0, <2>1 DEF Overwritten, Row
      <3>2. /\ row.short = answer.short /\ row.long = answer.long
            /\ row.created = answer.created /\ row.updated = answer.updated
        BY <1>0, <2>1 DEF Overwritten, Row
      <3>. HIDE DEF row, answer
      <3>. QED
        BY <3>1, <3>2 DEF Row
    <2>3. row.short = call[c].short /\ row.long = call[c].long /\ row.updated = call[c].stamp
      BY <1>0, <1>1, <2>1 DEF Overwritten, Row
    <2>4. Stores(c, row, answer) /\ call[c].pc = "overwrite"
      BY <1>3 DEF Overwrite
    <2>. QED
      BY <1>0, <2>2, <2>3, <2>4
  <1>. QED
    BY <1>2, <1>3

LEMMA ReturnsInv == ASSUME TypeOK, IInv, NEW c \in Calls, Returns(c) PROVE IInv'
  <1>0. /\ call[c] \in CallState /\ call \in [Calls -> CallState] /\ call[c].extraction \in Extractions
        /\ call[c].stamp <= now /\ now \in Nat /\ analyses[call[c].extraction].updated <= now
    BY CallTypes, BoundsNat DEF TypeOK, IInv, TimesPassed, Times
  <1>1. CASE ShortReturns(c)
    <2>1. /\ call'[c] = [call[c] EXCEPT !.pc = "long", !.short = Completion(c)] /\ call[c].pc = "short"
          /\ \A d \in Calls : d # c => call'[d] = call[d]
      BY <1>0, <1>1 DEF ShortReturns
    <2>2. /\ call'[c].pc = "long" /\ call'[c].short = Completion(c) /\ call'[c].body = call[c].body
          /\ call'[c].run = call[c].run /\ call'[c].extraction = call[c].extraction
          /\ call'[c].stamp = call[c].stamp /\ call'[c].overtaken = call[c].overtaken
      BY <1>0, <2>1 DEF CallState
    <2>3. UNCHANGED <<extraction, analyses, now>>
      BY <1>1 DEF ShortReturns, Private
    <2>4. Sound(c)'
      BY <1>0, <2>1, <2>2, <2>3 DEF Sound, IInv, OwnText, NotBehind, Completion, InProgress, extraction
    <2>. QED
      BY <1>0, <2>1, <2>2, <2>3, <2>4, PrivateInv
  <1>2. CASE LongReturns(c)
    <2>1. call[c].pc = "long" /\ \A d \in Calls : d # c => call'[d] = call[d]
      BY <1>0, <1>2 DEF LongReturns
    <2>2. /\ call'[c].pc = "insert" /\ call'[c].long = Completion(c) /\ call'[c].body = call[c].body
          /\ call'[c].run = call[c].run /\ call'[c].extraction = call[c].extraction
          /\ call'[c].short = call[c].short /\ call'[c].stamp = now
          /\ call'[c].overtaken = call[c].overtaken
      BY <1>0, <1>2 DEF LongReturns, CallState
    <2>3. UNCHANGED <<extraction, analyses, now>> /\ analyses' = analyses /\ made' = made
      BY <1>2 DEF LongReturns, Private, extraction
    <2>4. Completion(c)' = Completion(c)
      BY <2>2 DEF Completion
    <2>5. /\ call[c].short = Completion(c) /\ call[c].body \in made[call[c].extraction]
          /\ ~call[c].overtaken => analyses[call[c].extraction].short.body <= call[c].body
      BY <2>1 DEF IInv, OwnText, NotBehind, InProgress
    <2>6. Sound(c)'
      BY <1>0, <2>2, <2>3, <2>4, <2>5 DEF Sound
    <2>7. call'[c].stamp <= now
      BY <1>0, <2>2
    <2>. QED
      BY <2>1, <2>3, <2>6, <2>7, PrivateInv
  <1>3. ASSUME NEW pc \in {"failed", "overwrite"}, Goto(c, pc), Private,
               pc = "overwrite" => call[c].pc = "insert"
        PROVE  IInv'
    <2>1. /\ call'[c].pc = pc /\ call'[c].body = call[c].body /\ call'[c].run = call[c].run
          /\ call'[c].extraction = call[c].extraction /\ call'[c].short = call[c].short
          /\ call'[c].long = call[c].long /\ call'[c].stamp = call[c].stamp
          /\ call'[c].overtaken = call[c].overtaken /\ \A d \in Calls : d # c => call'[d] = call[d]
      BY <1>0, <1>3 DEF Goto, CallState
    <2>2. UNCHANGED <<extraction, analyses, now>>
      BY <1>3 DEF Private
    <2>3. CASE pc = "overwrite"
      <3>1. Sound(c)'
        BY <1>0, <1>3, <2>1, <2>2, <2>3
           DEF Sound, IInv, OwnText, NotBehind, Completion, InProgress, extraction
      <3>. QED
        BY <1>0, <2>1, <2>2, <3>1, PrivateInv
    <2>4. CASE pc = "failed"
      BY <1>0, <2>1, <2>2, <2>4, PrivateInv DEF InProgress
    <2>. QED
      BY <2>3, <2>4
  <1>4. CASE CompletionFails(c) \/ InsertConflicts(c) \/ UpsertFails(c)
    BY <1>3, <1>4 DEF CompletionFails, InsertConflicts, UpsertFails
  <1>5. CASE Insert(c) \/ Overwrite(c)
    BY <1>5, UpsertStores, StoresInv
  <1>. QED
    BY <1>1, <1>2, <1>4, <1>5 DEF Returns

\* A new call starts with the newest body, so it is not behind.
LEMMA LoadInv ==
  ASSUME TypeOK, IInv, NEW c \in Calls, NEW e \in Extractions, Load(c, e) \/ LoadFails(c, e)
  PROVE  IInv'
  <1>0. /\ call \in [Calls -> CallState] /\ IdleCall \in CallState /\ IdleCall.stamp = 0
        /\ now \in Nat /\ body[e] \in Nat /\ analyses[e] \in Row
    BY ConstantTypes, BoundsNat DEF TypeOK, Times, Bodies
  <1>1. CASE Load(c, e)
    <2>1. /\ call'[c].pc = "short" /\ call'[c].extraction = e /\ call'[c].body = body[e]
          /\ call'[c].stamp = 0 /\ \A d \in Calls : d # c => call'[d] = call[d]
      BY <1>0, <1>1 DEF Load, CallState
    <2>2. body[e] \in made[e] /\ \A b \in made[e] : b <= body[e]
      BY <1>1 DEF Load, Ready, IInv, BodiesInOrder
    <2>3. analyses[e].short.body <= body[e]
      <3>1. CASE analyses[e] = NoRow
        BY <1>0, <3>1 DEF NoRow, NoText, NoBody
      <3>2. CASE analyses[e] # NoRow
        BY <2>2, <3>2 DEF IInv, AnalysesAreOfResults
      <3>. QED
        BY <3>1, <3>2
    <2>4. UNCHANGED <<extraction, analyses, now>>
      BY <1>1 DEF Load
    <2>5. Sound(c)'
      BY <2>1, <2>2, <2>3, <2>4 DEF Sound, extraction
    <2>. QED
      BY <1>0, <2>1, <2>4, <2>5, PrivateInv
  <1>2. CASE LoadFails(c, e)
    <2>1. /\ call'[c].pc = "failed" /\ call'[c].stamp = 0
          /\ \A d \in Calls : d # c => call'[d] = call[d]
      BY <1>0, <1>2 DEF LoadFails, CallState
    <2>2. UNCHANGED <<extraction, analyses, now>>
      BY <1>2 DEF LoadFails
    <2>. QED
      BY <1>0, <2>1, <2>2, PrivateInv DEF InProgress
  <1>. QED
    BY <1>1, <1>2

LEMMA StepInv == ASSUME TypeOK, IInv, [Next]_vars PROVE IInv'
  <1>1. CASE Restart
    <2>1. \A c \in Calls : call'[c].pc = "idle" /\ call'[c].stamp = 0
      BY <1>1, ConstantTypes DEF Restart
    <2>2. now \in Nat
      BY BoundsNat DEF TypeOK, Times
    <2>. QED
      BY <1>1, <2>1, <2>2 DEF Restart, IInv, BodiesInOrder, OwnText, TimesPassed, NotBehind,
         OneRunPerAnalysis, AnalysesAreOfResults, InProgress
  <1>2. CASE Tick
    <2>1. now \in Nat /\ now' = now + 1 /\ UNCHANGED <<extraction, analyses, call>>
      BY <1>2, BoundsNat DEF Tick, TypeOK, Times
    <2>2. /\ \A e \in Extractions : analyses[e].updated \in Nat
          /\ \A c \in Calls : call[c].stamp \in Nat
      BY CallTypes, BoundsNat DEF TypeOK, Row, CallState, Times
    <2>3. TimesPassed'
      BY <2>1, <2>2 DEF IInv, TimesPassed
    <2>. QED
      BY <2>1, <2>3 DEF IInv, BodiesInOrder, OwnText, NotBehind, OneRunPerAnalysis, AnalysesAreOfResults,
         Completion, extraction
  <1>3. CASE UNCHANGED vars
    BY <1>3 DEF vars, IInv, BodiesInOrder, OwnText, TimesPassed, NotBehind, OneRunPerAnalysis,
       AnalysesAreOfResults, Completion
  <1>. QED
    BY <1>1, <1>2, <1>3, ExtractionInv, ReturnsInv, LoadInv DEF Next

\* The inductive invariant, at every bound.
THEOREM AnalyzerInvariant == Spec => [](TypeOK /\ IInv)
  <1>1. Init => TypeOK /\ IInv
    BY InitType, InitInv
  <1>2. TypeOK /\ IInv /\ [Next]_vars => (TypeOK /\ IInv)'
    BY StepType, StepInv
  <1>. QED
    BY <1>1, <1>2, PTL DEF Spec

\* Both summaries of a stored analysis are of one call and one body.
THEOREM OneRunPerAnalysisHolds == Spec => []OneRunPerAnalysis
  <1>1. TypeOK /\ IInv => OneRunPerAnalysis
    BY DEF IInv
  <1>. QED
    BY <1>1, AnalyzerInvariant, PTL

\* A stored analysis is of a body its extraction has had.
THEOREM AnalysesAreOfResultsHolds == Spec => []AnalysesAreOfResults
  <1>1. TypeOK /\ IInv => AnalysesAreOfResults
    BY DEF IInv
  <1>. QED
    BY <1>1, AnalyzerInvariant, PTL

\* A stored analysis is one call's, of a body its extraction had.
THEOREM AnalysesAreWholeHolds == Spec => []AnalysesAreWhole
  <1>1. TypeOK /\ IInv => AnalysesAreWhole
    BY DEF IInv, AnalysesAreWhole
  <1>. QED
    BY <1>1, AnalyzerInvariant, PTL

\* Only Insert and Overwrite make a call succeed.
LEMMA SuccessStores ==
  ASSUME TypeOK, IInv, [Next]_vars, NEW c \in Calls, call[c].pc # "ok", call'[c].pc = "ok"
  PROVE  Insert(c) \/ Overwrite(c)
  <1>0. call \in [Calls -> CallState] /\ IdleCall \in CallState /\ IdleCall.pc = "idle"
    BY ConstantTypes DEF TypeOK
  <1>1. CASE ExtractionMoves \/ Restart \/ Tick \/ UNCHANGED vars
    BY <1>0, <1>1 DEF ExtractionMoves, Restart, Tick, vars
  <1>2. ASSUME NEW d \in Calls, NEW e \in Extractions, Load(d, e) \/ LoadFails(d, e)
        PROVE  FALSE
    BY <1>0, <1>2 DEF Load, LoadFails, CallState
  <1>3. ASSUME NEW d \in Calls, Returns(d)
        PROVE  Insert(c) \/ Overwrite(c)
    <2>1. CASE d = c
      BY <1>0, <1>3, <2>1 DEF Returns, ShortReturns, LongReturns, CompletionFails, InsertConflicts,
         UpsertFails, Goto, CallState
    <2>2. CASE d # c
      BY <1>0, <1>3, <2>2 DEF Returns, ShortReturns, LongReturns, CompletionFails, InsertConflicts,
         UpsertFails, Goto, CallState, Insert, Overwrite, Stores
    <2>. QED
      BY <2>1, <2>2
  <1>. QED
    BY <1>1, <1>2, <1>3 DEF Next

\* A success leaves the answer in the table, and goes back only if overtaken.
LEMMA SuccessStep ==
  ASSUME TypeOK, IInv, [Next]_vars, NEW c \in Calls, call[c].pc # "ok", call'[c].pc = "ok"
  PROVE  /\ analyses'[call[c].extraction] = call'[c].answer
         /\ ~call[c].overtaken =>
              /\ analyses'[call[c].extraction].updated >= analyses[call[c].extraction].updated
              /\ analyses'[call[c].extraction].short.body >= analyses[call[c].extraction].short.body
  <1>. DEFINE e == call[c].extraction
  <1>1. PICK row \in Row, answer \in Row :
           /\ call[c].pc \in {"insert", "overwrite"}
           /\ Stores(c, row, answer)
           /\ row.short = Completion(c) /\ row.updated = call[c].stamp /\ row = answer
    BY SuccessStores, UpsertStores
  <1>2. call[c] \in CallState /\ e \in Extractions /\ analyses[e] \in Row
    BY CallTypes DEF TypeOK
  <1>3. analyses'[e] = row /\ call'[c].answer = answer
    BY <1>1, <1>2 DEF Stores, CallState, TypeOK
  <1>4. row.short.body = call[c].body
    BY <1>1 DEF Completion
  <1>5. /\ call[c].body \in Nat /\ call[c].stamp \in Nat
        /\ analyses[e].short.body \in Nat /\ analyses[e].updated \in Nat
    BY <1>2, BoundsNat DEF CallState, Row, Text, Bodies, Times
  <1>6. ~call[c].overtaken => analyses[e].short.body <= call[c].body /\ analyses[e].updated <= call[c].stamp
    BY <1>1 DEF IInv, NotBehind, InProgress
  <1>. QED
    BY <1>1, <1>3, <1>4, <1>5, <1>6

\* A successful call answers with the row it leaves in the table.
THEOREM AnswerWasStoredHolds == Spec => AnswerWasStored
  <1>1. TypeOK /\ IInv /\ [Next]_vars
          => \A c \in Calls : call[c].pc # "ok" /\ call'[c].pc = "ok"
                 => analyses'[call[c].extraction] = call'[c].answer
    BY SuccessStep
  <1>. QED
    BY <1>1, AnalyzerInvariant, PTL DEF Spec, AnswerWasStored

\* An older body or time replaces a newer one only in an overtaken call.
THEOREM OnlyOverlapsGoBackHolds == Spec => OnlyOverlapsGoBack
  <1>1. TypeOK /\ IInv /\ [Next]_vars
          => \A c \in Calls :
               LET e == call[c].extraction
               IN  call[c].pc # "ok" /\ call'[c].pc = "ok" /\ ~call[c].overtaken
                     => /\ analyses'[e].updated >= analyses[e].updated
                        /\ analyses'[e].short.body >= analyses[e].short.body
    BY SuccessStep
  <1>. QED
    BY <1>1, AnalyzerInvariant, PTL DEF Spec, OnlyOverlapsGoBack

=============================================================================
