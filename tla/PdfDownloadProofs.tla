------------------------- MODULE PdfDownloadProofs -------------------------
(***************************************************************************)
(* Theorems about the download registry, for any jobs, streams, buffer     *)
(* size, retention and bounds.                                             *)
(***************************************************************************)
EXTENDS PdfDownload, TLAPS, SequenceTheorems, FiniteSetTheorems

-----------------------------------------------------------------------------
(* The inductive invariant.                                                *)

Attached == {"found", "backlog", "live", "summary", "error", "gone"}
Reading == {"backlog", "live", "summary", "error", "gone"}

\* How many entries of a job are finished.
Finished(r) == IF r.completed THEN Len(r.events) - 1 ELSE Len(r.events)

\* How many of a job's entries have the status.
HowMany(r, status) == Cardinality({i \in DOMAIN r.entries : r.entries[i] = status})

\* The log has one progress event per finished entry, in order, and then the summary.
Recorded(r) ==
    /\ Len(r.entries) <= MaxEntries
    /\ Finished(r) \in 0..Len(r.entries)
    /\ \A i \in 1..Finished(r) : r.entries[i] \in Results /\ r.events[i] = Progress(i, r.entries[i])
    /\ \A i \in (Finished(r) + 1)..Len(r.entries) : r.entries[i] = "pending"
    /\ r.completed =>
         /\ Finished(r) = Len(r.entries)
         /\ \E a, b \in 0..MaxEntries :
              /\ r.events[Len(r.events)] = Summary(a, b) /\ a + b = Len(r.entries)
              /\ a = HowMany(r, "success") /\ b = HowMany(r, "failed")

\* A worker's place tells how much of the job is done.
WorkerInStep(j) ==
    /\ worker[j].pc = "off" => job[j] = NewJob(0) /\ j \notin registry
    /\ worker[j].pc \in {"ensure", "commit"} => Len(job[j].events) < Len(job[j].entries)
    /\ worker[j].pc \in {"stamp", "finish"} => Len(job[j].events) = Len(job[j].entries)
    /\ worker[j].pc = "done" <=> job[j].completed

\* A subscriber has an open channel of a job that is not completed.
SubscribersAreOpen(j) ==
    \A s \in job[j].subscribers : stream[s].job = j /\ stream[s].open /\ ~job[j].completed

JobInv(j) == Recorded(job[j]) /\ WorkerInStep(j) /\ SubscribersAreOpen(j)

\* How far into the log a stream is that wrote w, has backlog b and live channel v.
Position(w, b, v) == Len(w) + Len(b) + Len(v)

\* What a stream wrote, its backlog and its channel lie one after the other in the log.
Reads(w, b, v, log) ==
    /\ Position(w, b, v) <= Len(log)
    /\ \A i \in 1..Len(w) : w[i] = log[i]
    /\ \A i \in 1..Len(b) : b[i] = log[Len(w) + i]
    /\ \A i \in 1..Len(v) : v[i] = log[Len(w) + Len(b) + i]

\* A stream before it subscribes has nothing.
Fresh(st) == st.written = <<>> /\ st.backlog = <<>> /\ st.live = <<>> /\ ~st.open

\* A stream at pc, whose channel is open or not, of a job with this log that is
\* completed or not and has the stream subscribed or not.  A channel was closed because
\* the job is completed, with the summary in the channel or in the backlog, or because the
\* stream was a whole buffer behind.
Reader(pc, open, w, b, v, log, completed, subscribed) ==
    /\ Reads(w, b, v, log)
    /\ open => pc \in {"backlog", "live", "gone"} /\ subscribed /\ Position(w, b, v) = Len(log)
    /\ pc = "live" => b = <<>>
    /\ pc \in {"backlog", "live"} /\ ~open =>
         \/ completed /\ Position(w, b, v) = Len(log)
         \/ SubscriberBuffer <= Position(w, b, v) /\ Position(w, b, v) < Len(log)
    /\ pc \in {"backlog", "live", "gone"} => \A i \in 1..Len(w) : w[i].kind # "summary"
    /\ pc = "error" => SubscriberBuffer <= Len(w) /\ Len(w) < Len(log)
    /\ pc = "summary" => completed /\ Len(w) = Len(log)

ReaderInv(s, st, r) ==
    Reader(st.pc, st.open, st.written, st.backlog, st.live, r.events, r.completed, s \in r.subscribers)

StreamInv(s) ==
    /\ stream[s].pc \in {"idle", "found", "unknown"} => Fresh(stream[s])
    /\ stream[s].pc \in Attached => stream[s].job \in Jobs /\ worker[stream[s].job].pc # "off"
    /\ stream[s].pc \in Reading => ReaderInv(s, stream[s], job[stream[s].job])

\* All of it; the types rest on the rest, for a log must not outgrow its events' range.
IInv == TypeOK /\ (\A j \in Jobs : JobInv(j)) /\ (\A s \in Streams : StreamInv(s)) /\ RetainedUntilAged

-----------------------------------------------------------------------------
(* Lemmas about readers and logs.                                          *)

\* A log that grows keeps its readers.
LEMMA ReadsGrows ==
  ASSUME NEW w \in Seq(Events), NEW b \in Seq(Events), NEW v \in Seq(Events),
         NEW log \in Seq(Events), NEW ev \in Events, Reads(w, b, v, log)
  PROVE  Reads(w, b, v, Append(log, ev))
  <1>1. Len(w) \in Nat /\ Len(b) \in Nat /\ Len(v) \in Nat
    BY LenProperties
  <1>2. /\ Len(log) \in Nat /\ Len(Append(log, ev)) = Len(log) + 1
        /\ \A i \in 1..Len(log) : Append(log, ev)[i] = log[i]
    BY AppendProperties, LenProperties
  <1>3. Len(w) + Len(b) + Len(v) <= Len(log)
    BY DEF Reads, Position
  <1>4. \A i \in 1..Len(w) : i \in 1..Len(log)
    BY <1>1, <1>2, <1>3
  <1>5. \A i \in 1..Len(b) : Len(w) + i \in 1..Len(log)
    BY <1>1, <1>2, <1>3
  <1>6. \A i \in 1..Len(v) : Len(w) + Len(b) + i \in 1..Len(log)
    BY <1>1, <1>2, <1>3
  <1>. QED
    BY <1>1, <1>2, <1>3, <1>4, <1>5, <1>6 DEF Reads, Position

\* A reader that is caught up, and receives the event, is caught up again.
LEMMA ReadsReceives ==
  ASSUME NEW w \in Seq(Events), NEW b \in Seq(Events), NEW v \in Seq(Events),
         NEW log \in Seq(Events), NEW ev \in Events,
         Reads(w, b, v, log), Position(w, b, v) = Len(log)
  PROVE  /\ Reads(w, b, Append(v, ev), Append(log, ev))
         /\ Position(w, b, Append(v, ev)) = Len(Append(log, ev))
  <1>. DEFINE v2 == Append(v, ev)
             log2 == Append(log, ev)
  <1>1. PICK p \in Nat, q \in Nat, r \in Nat : Len(w) = p /\ Len(b) = q /\ Len(v) = r
    BY LenProperties
  <1>2. /\ \A i \in 1..p : w[i] = log[i]
        /\ \A i \in 1..q : b[i] = log[p + i]
        /\ \A i \in 1..r : v[i] = log[p + q + i]
        /\ Len(log) = p + q + r
    BY <1>1 DEF Reads, Position
  <1>3. /\ Len(v2) = r + 1 /\ v2[r + 1] = ev
        /\ \A i \in 1..r : v2[i] = v[i]
    <2>1. /\ Len(v2) = Len(v) + 1 /\ v2[Len(v) + 1] = ev
          /\ \A i \in 1..Len(v) : v2[i] = v[i]
      BY AppendProperties
    <2>. HIDE DEF v2
    <2>. QED
      BY <1>1, <2>1
  <1>4. /\ Len(log2) = p + q + r + 1 /\ log2[p + q + r + 1] = ev
        /\ \A i \in 1..(p + q + r) : log2[i] = log[i]
    BY <1>2, AppendProperties
  <1>. HIDE DEF v2, log2
  <1>5. /\ \A i \in 1..p : w[i] = log2[i]
        /\ \A i \in 1..q : b[i] = log2[p + i]
        /\ \A i \in 1..(r + 1) : v2[i] = log2[p + q + i]
    <2>1. ASSUME NEW i \in 1..(r + 1) PROVE v2[i] = log2[p + q + i]
      <3>1. CASE i = r + 1
        <4>1. p + q + i = p + q + r + 1
          BY <3>1
        <4>. QED
          BY <1>3, <1>4, <3>1, <4>1
      <3>2. CASE i # r + 1
        <4>1. i \in 1..r /\ p + q + i \in 1..(p + q + r)
          BY <3>2
        <4>. QED
          BY <1>2, <1>3, <1>4, <4>1
      <3>. QED
        BY <3>1, <3>2
    <2>2. \A i \in 1..p : i \in 1..(p + q + r)
      OBVIOUS
    <2>3. \A i \in 1..q : p + i \in 1..(p + q + r)
      OBVIOUS
    <2>. QED
      BY <1>2, <1>4, <2>1, <2>2, <2>3
  <1>6. p + q + (r + 1) = p + q + r + 1 /\ p + q + (r + 1) <= p + q + r + 1
    OBVIOUS
  <1>7. Reads(w, b, v2, log2) /\ Position(w, b, v2) = Len(log2)
    BY <1>1, <1>3, <1>4, <1>5, <1>6 DEF Reads, Position
  <1>. QED
    BY <1>7 DEF v2, log2

\* The head of a sequence is its first element.
LEMMA HeadIsFirst == ASSUME NEW b \in Seq(Events), b # <<>> PROVE Head(b) = b[1]
  OBVIOUS

\* Writing the first event of the backlog: it is the next event of the log.
LEMMA ReadsBacklog ==
  ASSUME NEW w, NEW b, NEW v, NEW log, w \in Seq(Events), b \in Seq(Events),
         v \in Seq(Events), log \in Seq(Events), Reads(w, b, v, log), b # <<>>
  PROVE  /\ Reads(Append(w, Head(b)), Tail(b), v, log)
         /\ Position(Append(w, Head(b)), Tail(b), v) = Position(w, b, v)
         /\ Len(w) + 1 \in 1..Len(log) /\ Head(b) = log[Len(w) + 1]
         /\ Len(Append(w, Head(b))) = Len(w) + 1
         /\ Head(b) \in Events /\ Tail(b) \in Seq(Events) /\ Append(w, Head(b)) \in Seq(Events)
  <1>1. Len(w) \in Nat /\ Len(b) \in Nat \ {0} /\ Len(v) \in Nat /\ Len(log) \in Nat
    BY LenProperties, EmptySeq
  <1>2. Head(b) = b[1] /\ Head(b) \in Events /\ Tail(b) \in Seq(Events)
    BY HeadTailProperties, HeadIsFirst
  <1>3. /\ Append(w, Head(b)) \in Seq(Events)
        /\ Len(Append(w, Head(b))) = Len(w) + 1
        /\ \A i \in 1..Len(w) : Append(w, Head(b))[i] = w[i]
        /\ Append(w, Head(b))[Len(w) + 1] = Head(b)
    BY <1>2, AppendProperties
  <1>4. /\ Len(Tail(b)) = Len(b) - 1
        /\ \A i \in 1..Len(Tail(b)) : Tail(b)[i] = b[i + 1]
    BY HeadTailProperties
  <1>5. Len(w) + Len(b) + Len(v) <= Len(log)
    BY DEF Reads, Position
  <1>6. /\ Len(Append(w, Head(b))) + Len(Tail(b)) = Len(w) + Len(b)
        /\ Position(Append(w, Head(b)), Tail(b), v) = Position(w, b, v)
    BY <1>1, <1>3, <1>4 DEF Position
  <1>7. Len(w) + 1 \in 1..Len(log) /\ Head(b) = log[Len(w) + 1]
    <2>1. 1 \in 1..Len(b) /\ Len(w) + 1 \in 1..Len(log)
      BY <1>1, <1>5
    <2>. QED
      BY <1>2, <2>1 DEF Reads
  <1>8. ASSUME NEW i \in 1..Len(Append(w, Head(b))) PROVE Append(w, Head(b))[i] = log[i]
    <2>1. i \in 1..Len(w) \/ i = Len(w) + 1
      BY <1>1, <1>3
    <2>. QED
      BY <1>3, <1>7, <2>1 DEF Reads
  <1>9. ASSUME NEW i \in 1..Len(Tail(b)) PROVE Tail(b)[i] = log[Len(Append(w, Head(b))) + i]
    <2>1. i + 1 \in 1..Len(b) /\ Len(Append(w, Head(b))) + i = Len(w) + (i + 1)
      BY <1>1, <1>3, <1>4
    <2>. QED
      BY <1>4, <2>1 DEF Reads
  <1>. QED
    BY <1>2, <1>3, <1>6, <1>7, <1>8, <1>9 DEF Reads

\* Writing the first event of the channel, with no backlog left: the same.
LEMMA ReadsLive ==
  ASSUME NEW w, NEW v, NEW log, w \in Seq(Events), v \in Seq(Events),
         log \in Seq(Events), Reads(w, <<>>, v, log), v # <<>>
  PROVE  /\ Reads(Append(w, Head(v)), <<>>, Tail(v), log)
         /\ Position(Append(w, Head(v)), <<>>, Tail(v)) = Position(w, <<>>, v)
         /\ Len(w) + 1 \in 1..Len(log) /\ Head(v) = log[Len(w) + 1]
         /\ Len(Append(w, Head(v))) = Len(w) + 1
         /\ Head(v) \in Events /\ Tail(v) \in Seq(Events) /\ Append(w, Head(v)) \in Seq(Events)
  <1>1. Len(w) \in Nat /\ Len(v) \in Nat \ {0} /\ Len(<<>>) = 0 /\ <<>> \in Seq(Events)
    BY LenProperties, EmptySeq
  <1>2. Reads(w, v, <<>>, log) /\ Position(w, v, <<>>) = Position(w, <<>>, v)
    BY <1>1 DEF Reads, Position
  <1>3. /\ Reads(Append(w, Head(v)), Tail(v), <<>>, log)
        /\ Position(Append(w, Head(v)), Tail(v), <<>>) = Position(w, v, <<>>)
        /\ Len(w) + 1 \in 1..Len(log) /\ Head(v) = log[Len(w) + 1]
        /\ Len(Append(w, Head(v))) = Len(w) + 1
        /\ Head(v) \in Events /\ Tail(v) \in Seq(Events) /\ Append(w, Head(v)) \in Seq(Events)
    BY <1>1, <1>2, ReadsBacklog
  <1>4. Len(Tail(v)) \in Nat /\ Len(Append(w, Head(v))) \in Nat
    BY <1>3, LenProperties
  <1>5. /\ Reads(Append(w, Head(v)), <<>>, Tail(v), log)
        /\ Position(Append(w, Head(v)), <<>>, Tail(v)) = Position(Append(w, Head(v)), Tail(v), <<>>)
    BY <1>1, <1>3, <1>4 DEF Reads, Position
  <1>. QED
    BY <1>2, <1>3, <1>5

\* A stream that was given the log so far is caught up with it.
LEMMA ReadsStart ==
  ASSUME NEW log \in Seq(Events)
  PROVE  Reads(<<>>, log, <<>>, log) /\ Position(<<>>, log, <<>>) = Len(log)
  <1>1. Len(<<>>) = 0 /\ Len(log) \in Nat
    BY EmptySeq, LenProperties
  <1>. QED
    BY <1>1 DEF Reads, Position

-----------------------------------------------------------------------------
(* Lemmas about what a step does to one reader.                            *)

\* Where a reader stands is a number.
LEMMA PositionIsNat ==
  ASSUME NEW w, NEW b, NEW v, w \in Seq(Events), b \in Seq(Events), v \in Seq(Events)
  PROVE  Position(w, b, v) \in Nat /\ Len(v) <= Position(w, b, v)
  <1>1. PICK p \in Nat, q \in Nat, r \in Nat : Len(w) = p /\ Len(b) = q /\ Len(v) = r
    BY LenProperties
  <1>2. p + q + r \in Nat /\ r <= p + q + r
    OBVIOUS
  <1>. QED
    BY <1>1, <1>2 DEF Position

\* A subscribed stream that the fan-out reaches: it stays caught up, and so it does when
\* the job ends with that event and its channel is closed behind it.
LEMMA ReaderReceives ==
  ASSUME NEW pc, NEW open, NEW w, NEW b, NEW v, NEW log, NEW done, NEW sub, NEW ev,
         w \in Seq(Events), b \in Seq(Events), v \in Seq(Events), log \in Seq(Events),
         ev \in Events, open, Reader(pc, open, w, b, v, log, done, sub)
  PROVE  /\ Reader(pc, TRUE, w, b, Append(v, ev), Append(log, ev), FALSE, TRUE)
         /\ Reader(pc, FALSE, w, b, Append(v, ev), Append(log, ev), TRUE, FALSE)
  <1>1. Reads(w, b, v, log) /\ Position(w, b, v) = Len(log) /\ pc \in {"backlog", "live", "gone"}
    BY DEF Reader
  <1>2. /\ Reads(w, b, Append(v, ev), Append(log, ev))
        /\ Position(w, b, Append(v, ev)) = Len(Append(log, ev))
    BY <1>1, ReadsReceives
  <1>. QED
    BY <1>1, <1>2 DEF Reader

\* A subscribed stream whose channel is full: it is dropped, a whole buffer behind.
LEMMA ReaderDropped ==
  ASSUME NEW pc, NEW open, NEW w, NEW b, NEW v, NEW log, NEW done, NEW sub, NEW ev,
         w \in Seq(Events), b \in Seq(Events), v \in Seq(Events), log \in Seq(Events),
         ev \in Events, open, Reader(pc, open, w, b, v, log, done, sub),
         SubscriberBuffer <= Len(v), NEW done2, NEW sub2
  PROVE  Reader(pc, FALSE, w, b, v, Append(log, ev), done2, sub2)
  <1>1. Reads(w, b, v, log) /\ Position(w, b, v) = Len(log) /\ pc \in {"backlog", "live", "gone"}
    BY DEF Reader
  <1>2. Reads(w, b, v, Append(log, ev))
    BY <1>1, ReadsGrows
  <1>3. Position(w, b, v) \in Nat /\ Len(v) <= Position(w, b, v)
    BY PositionIsNat
  <1>4. Len(v) \in Nat /\ Len(Append(log, ev)) = Len(log) + 1
    BY LenProperties, AppendProperties
  <1>5. SubscriberBuffer <= Position(w, b, v) /\ Position(w, b, v) < Len(Append(log, ev))
    BY <1>1, <1>3, <1>4, SubscriberBufferPositive
  <1>. QED
    BY <1>1, <1>2, <1>5 DEF Reader

\* A stream that is not subscribed to the job any more gets no closer to its log.
LEMMA ReaderLeftBehind ==
  ASSUME NEW pc, NEW open, NEW w, NEW b, NEW v, NEW log, NEW done, NEW sub, NEW ev,
         w \in Seq(Events), b \in Seq(Events), v \in Seq(Events), log \in Seq(Events),
         ev \in Events, ~open, ~done, Reader(pc, open, w, b, v, log, done, sub)
  PROVE  \A done2, sub2 : Reader(pc, open, w, b, v, Append(log, ev), done2, sub2)
  <1>1. Reads(w, b, v, log) /\ pc # "summary"
    BY DEF Reader
  <1>2. Reads(w, b, v, Append(log, ev))
    BY <1>1, ReadsGrows
  <1>3. Position(w, b, v) \in Nat
    BY PositionIsNat
  <1>4. Len(w) \in Nat /\ Len(log) \in Nat /\ Len(Append(log, ev)) = Len(log) + 1
    BY LenProperties, AppendProperties
  <1>5. pc \in {"backlog", "live"} =>
          SubscriberBuffer <= Position(w, b, v) /\ Position(w, b, v) < Len(Append(log, ev))
    BY <1>3, <1>4 DEF Reader
  <1>6. pc = "error" => SubscriberBuffer <= Len(w) /\ Len(w) < Len(Append(log, ev))
    BY <1>4 DEF Reader
  <1>7. pc \in {"backlog", "live", "gone"} => \A i \in 1..Len(w) : w[i].kind # "summary"
    BY DEF Reader
  <1>8. pc = "live" => b = <<>>
    BY DEF Reader
  <1>. QED
    BY <1>1, <1>2, <1>5, <1>6, <1>7, <1>8 DEF Reader

\* The summary is the last event of a log, and there when the job is completed.
Sealed(log, done) ==
    /\ \A i \in 1..Len(log) : log[i].kind = "summary" => done /\ i = Len(log)
    /\ done => Len(log) \in 1..Len(log) /\ log[Len(log)].kind = "summary"

\* So is the log of a recorded job.
LEMMA RecordedIsSealed ==
  ASSUME NEW r, r \in Job, Recorded(r)
  PROVE  Sealed(r.events, r.completed)
  <1>. DEFINE n == Len(r.events)
  <1>1. n \in Nat /\ Len(r.entries) \in Nat /\ r.completed \in BOOLEAN
    BY LenProperties DEF Job
  <1>2. ASSUME NEW i \in 1..Finished(r) PROVE r.events[i].kind = "progress"
    <2>1. r.events[i] = Progress(i, r.entries[i])
      BY DEF Recorded
    <2>2. Progress(i, r.entries[i]).kind = "progress"
      BY DEF Progress
    <2>. QED
      BY <2>1, <2>2
  <1>3. CASE ~r.completed
    <2>1. Finished(r) = n
      BY <1>3 DEF Finished
    <2>. QED
      BY <1>2, <1>3, <2>1 DEF Sealed
  <1>4. CASE r.completed
    <2>1. Finished(r) = n - 1 /\ Finished(r) \in 0..Len(r.entries)
      BY <1>4 DEF Finished, Recorded
    <2>2. r.events[n].kind = "summary"
      <3>1. PICK a \in 0..MaxEntries, b \in 0..MaxEntries : r.events[n] = Summary(a, b)
        BY <1>4 DEF Recorded
      <3>2. Summary(a, b).kind = "summary"
        BY DEF Summary
      <3>. QED
        BY <3>1, <3>2
    <2>. HIDE DEF n
    <2>3. n \in 1..n /\ \A i \in 1..n : i = n \/ i \in 1..(n - 1)
      BY <1>1, <2>1
    <2>. QED
      BY <1>2, <1>4, <2>1, <2>2, <2>3 DEF Sealed, n
  <1>. QED
    BY <1>1, <1>3, <1>4

\* Writing an event: the summary ends the response, which then holds the whole log.
LEMMA ReaderWrites ==
  ASSUME NEW pc, NEW open, NEW w, NEW b, NEW v, NEW log, NEW done, NEW sub,
         w \in Seq(Events), b \in Seq(Events), v \in Seq(Events), log \in Seq(Events),
         Reader(pc, open, w, b, v, log, done, sub), Sealed(log, done), open => ~done,
         pc \in {"backlog", "live"}, NEW h, NEW b2, NEW v2, Reads(Append(w, h), b2, v2, log),
         Position(Append(w, h), b2, v2) = Position(w, b, v), pc = "live" => b2 = <<>>,
         h \in Events, Len(w) + 1 \in 1..Len(log), h = log[Len(w) + 1]
  PROVE  Reader(IF h.kind = "summary" THEN "summary" ELSE pc, open, Append(w, h), b2, v2, log, done, sub)
  <1>. DEFINE w2 == Append(w, h)
  <1>1. /\ Len(w) \in Nat /\ Len(log) \in Nat /\ Len(w2) = Len(w) + 1
        /\ \A i \in 1..Len(w) : w2[i] = w[i]
        /\ w2[Len(w) + 1] = h
    BY LenProperties, AppendProperties
  <1>4. Reads(w2, b2, v2, log) /\ Position(w2, b2, v2) = Position(w, b, v)
    OBVIOUS
  <1>2. CASE h.kind = "summary"
    <2>1. done /\ Len(w2) = Len(log) /\ ~open
      BY <1>1, <1>2 DEF Sealed
    <2>. HIDE DEF w2
    <2>2. Reader("summary", open, w2, b2, v2, log, done, sub)
      BY <2>1, <1>4 DEF Reader
    <2>. QED
      BY <1>2, <2>2 DEF w2
  <1>3. CASE h.kind # "summary"
    <2>1. \A i \in 1..Len(w2) : w2[i].kind # "summary"
      <3>1. \A i \in 1..Len(w2) : i \in 1..Len(w) \/ i = Len(w) + 1
        BY <1>1
      <3>2. \A i \in 1..Len(w) : w[i].kind # "summary"
        BY DEF Reader
      <3>. QED
        BY <1>1, <1>3, <3>1, <3>2
    <2>. HIDE DEF w2
    <2>2. Reader(pc, open, w2, b2, v2, log, done, sub)
      BY <1>4, <2>1 DEF Reader
    <2>. QED
      BY <1>3, <2>2 DEF w2
  <1>. QED
    BY <1>2, <1>3

\* A stream that has written its backlog goes on with its channel.
LEMMA ReaderGoesLive ==
  ASSUME NEW pc, NEW open, NEW w, NEW b, NEW v, NEW log, NEW done, NEW sub,
         Reader(pc, open, w, b, v, log, done, sub), pc = "backlog", b = <<>>
  PROVE  Reader("live", open, w, b, v, log, done, sub)
  BY DEF Reader

\* A stream whose closed channel is drained was a whole buffer behind: had the job closed
\* it, the summary would have come before.
LEMMA ReaderErrs ==
  ASSUME NEW pc, NEW open, NEW w, NEW b, NEW v, NEW log, NEW done, NEW sub,
         w \in Seq(Events), log \in Seq(Events),
         Reader(pc, open, w, b, v, log, done, sub), Sealed(log, done),
         pc = "live", v = <<>>, ~open
  PROVE  Reader("error", open, w, b, v, log, done, sub)
  <1>1. b = <<>> /\ Len(<<>>) = 0 /\ Len(w) \in Nat /\ Len(log) \in Nat
    BY EmptySeq, LenProperties DEF Reader
  <1>2. Position(w, b, v) = Len(w)
    BY <1>1 DEF Position
  <1>3. ~(done /\ Len(w) = Len(log))
    <2>1. ASSUME done, Len(w) = Len(log) PROVE FALSE
      <3>1. Len(w) \in 1..Len(w) /\ log[Len(w)].kind = "summary"
        BY <2>1 DEF Sealed
      <3>2. w[Len(w)] = log[Len(w)] /\ w[Len(w)].kind # "summary"
        BY <3>1 DEF Reader, Reads
      <3>. QED
        BY <3>1, <3>2
    <2>. QED
      BY <2>1
  <1>4. SubscriberBuffer <= Len(w) /\ Len(w) < Len(log)
    BY <1>2, <1>3 DEF Reader
  <1>. QED
    BY <1>4 DEF Reader

\* A stream whose client is gone keeps what it wrote; its channel may stay open.
LEMMA ReaderLeaves ==
  ASSUME NEW pc, NEW open, NEW w, NEW b, NEW v, NEW log, NEW done, NEW sub,
         Reader(pc, open, w, b, v, log, done, sub), pc = "live"
  PROVE  Reader("gone", open, w, b, v, log, done, sub)
  BY DEF Reader

-----------------------------------------------------------------------------
(* Lemmas about the state.                                                 *)

\* Every entry of a list that is not pending counts once, as a success or as a failure.
LEMMA CountedAll ==
  ASSUME NEW e, e \in Seq(EntryStatus), \A i \in 1..Len(e) : e[i] \in Results
  PROVE  LET N(status) == Cardinality({i \in DOMAIN e : e[i] = status})
         IN  N("success") \in Nat /\ N("failed") \in Nat /\ N("success") + N("failed") = Len(e)
  <1>. DEFINE S == {i \in DOMAIN e : e[i] = "success"}
             F == {i \in DOMAIN e : e[i] = "failed"}
  <1>1. Len(e) \in Nat /\ DOMAIN e = 1..Len(e)
    BY LenProperties
  <1>2. IsFiniteSet(1..Len(e)) /\ Cardinality(1..Len(e)) = Len(e)
    BY <1>1, FS_Interval
  <1>3. S \cup F = 1..Len(e) /\ S \cap F = {} /\ S \subseteq 1..Len(e) /\ F \subseteq 1..Len(e)
    BY <1>1 DEF Results
  <1>. HIDE DEF S, F
  <1>4. IsFiniteSet(S) /\ IsFiniteSet(F)
    BY <1>2, <1>3, FS_Subset
  <1>5. /\ Cardinality(S) \in Nat /\ Cardinality(F) \in Nat
        /\ Cardinality(S \cup F) = Cardinality(S) + Cardinality(F) - Cardinality(S \cap F)
        /\ Cardinality({}) = 0
    BY <1>4, FS_Union, FS_CardinalityType, FS_EmptySet
  <1>6. Cardinality(S \cup F) = Len(e) /\ Cardinality(S \cap F) = 0
    BY <1>2, <1>3, <1>5
  <1>7. PICK a \in Nat, b \in Nat : Cardinality(S) = a /\ Cardinality(F) = b
    BY <1>5
  <1>8. Len(e) = a + b - 0
    BY <1>5, <1>6, <1>7
  <1>9. a + b - 0 = a + b
    OBVIOUS
  <1>. QED
    BY <1>7, <1>8, <1>9 DEF S, F

\* What the types say of one job and of one stream.
LEMMA TypesOfJob ==
  ASSUME TypeOK, NEW j \in Jobs
  PROVE  /\ job[j] \in Job /\ job[j].entries \in Seq(EntryStatus) /\ job[j].events \in Seq(Events)
         /\ job[j].subscribers \subseteq Streams /\ job[j].completed \in BOOLEAN
         /\ job[j].completedAt \in Nat
         /\ worker[j] \in WorkerState /\ worker[j].result \in Results /\ worker[j].completedAt \in Nat
  BY DEF TypeOK, Job, WorkerState

\* The same for a stream.
LEMMA TypesOfStream ==
  ASSUME TypeOK, NEW s \in Streams
  PROVE  /\ stream[s] \in StreamState /\ stream[s].pc \in StreamPcs
         /\ stream[s].job \in Jobs \cup {NoJob} /\ stream[s].open \in BOOLEAN
         /\ stream[s].written \in Seq(Events) /\ stream[s].backlog \in Seq(Events)
         /\ stream[s].live \in Seq(Events) /\ Len(stream[s].live) <= SubscriberBuffer
         /\ Len(stream[s].live) \in Nat
  BY LenProperties DEF TypeOK, StreamState

\* A subscriber of a job reads it through an open channel, and the job is not completed.
LEMMA Subscriber ==
  ASSUME IInv, NEW j \in Jobs, NEW s \in job[j].subscribers
  PROVE  /\ s \in Streams /\ stream[s].job = j /\ stream[s].open /\ ~job[j].completed
         /\ stream[s].pc \in Reading /\ ReaderInv(s, stream[s], job[j])
  <1>1. s \in Streams /\ stream[s].job = j /\ stream[s].open /\ ~job[j].completed
    BY TypesOfJob DEF IInv, JobInv, SubscribersAreOpen
  <1>2. stream[s].pc \in Reading
    BY <1>1, TypesOfStream DEF IInv, StreamInv, Fresh, Reading, StreamPcs
  <1>. QED
    BY <1>1, <1>2 DEF IInv, StreamInv

\* A reader with an open channel is a subscriber of its job, so a job's other readers have
\* a closed one.
LEMMA OpenReader ==
  ASSUME IInv, NEW s \in Streams, stream[s].open
  PROVE  stream[s].pc \in Reading /\ stream[s].job \in Jobs /\ s \in job[stream[s].job].subscribers
  <1>1. stream[s].pc \in Reading
    BY TypesOfStream DEF IInv, StreamInv, Fresh, Reading, StreamPcs
  <1>2. stream[s].job \in Jobs /\ ReaderInv(s, stream[s], job[stream[s].job])
    BY <1>1 DEF IInv, StreamInv, Reading, Attached
  <1>. QED
    BY <1>1, <1>2 DEF ReaderInv, Reader

-----------------------------------------------------------------------------
(* The worker's steps preserve the invariant.                              *)

\* What recording a result and fanning it out changes, field by field.
LEMMA AppendChanges ==
  ASSUME IInv, NEW j \in Jobs, AppendAndFanOut(j)
  PROVE  LET n == Len(job[j].events)
             ev == Progress(n + 1, worker[j].result)
         IN  /\ n \in Nat /\ n + 1 <= Len(job[j].entries) /\ Len(job[j].entries) <= MaxEntries
             /\ Len(job[j].entries) \in Nat /\ ~job[j].completed /\ ev \in Events
             /\ job' \in [Jobs -> Job]
             /\ job'[j].entries = [job[j].entries EXCEPT ![n + 1] = worker[j].result]
             /\ job'[j].events = Append(job[j].events, ev)
             /\ job'[j].subscribers = Kept(j) /\ job'[j].completed = FALSE
             /\ job'[j].completedAt = job[j].completedAt
             /\ \A k \in Jobs \ {j} : job'[k] = job[k]
             /\ \A s \in Streams : stream'[s] = Receive(s, j, ev)
  <1>. DEFINE n == Len(job[j].events)
             ev == Progress(n + 1, worker[j].result)
             r == job[j]
             r2 == [r EXCEPT !.entries = [r.entries EXCEPT ![n + 1] = worker[j].result],
                             !.events = Append(r.events, ev), !.subscribers = Kept(j)]
  <1>1. TypeOK /\ JobInv(j) /\ j \in Jobs
    BY DEF IInv
  <1>2. /\ r \in Job /\ r.entries \in Seq(EntryStatus) /\ r.events \in Seq(Events)
        /\ r.subscribers \subseteq Streams /\ r.completed \in BOOLEAN
        /\ worker[j].result \in Results /\ worker[j].pc = "commit"
    BY <1>1, TypesOfJob DEF AppendAndFanOut
  <1>3. n \in Nat /\ Len(r.entries) \in Nat /\ n < Len(r.entries) /\ Len(r.entries) <= MaxEntries
        /\ r.completed = FALSE
    BY <1>1, <1>2, LenProperties DEF JobInv, Recorded, WorkerInStep
  <1>4. n + 1 \in 1..Len(r.entries) /\ n + 1 \in 1..MaxEntries /\ n + 1 <= Len(r.entries)
    <2>. HIDE DEF n
    <2>. QED
      BY <1>3, MaxEntriesPositive
  <1>5. ev \in Events
    BY <1>2, <1>4 DEF Events
  <1>6. [r.entries EXCEPT ![n + 1] = worker[j].result] \in Seq(EntryStatus)
    BY <1>2, <1>4, ExceptSeq DEF EntryStatus
  <1>7. Kept(j) \subseteq Streams
    BY <1>2 DEF Kept
  <1>8. Append(r.events, ev) \in Seq(Events)
    BY <1>2, <1>5, AppendProperties
  <1>9. job' = [job EXCEPT ![j] = r2]
    BY <1>1, <1>2 DEF AppendAndFanOut, TypeOK, Job
  <1>10. /\ r2 \in Job /\ r2.subscribers = Kept(j) /\ r2.completed = FALSE
         /\ r2.completedAt = r.completedAt /\ r2.events = Append(r.events, ev)
         /\ r2.entries = [r.entries EXCEPT ![n + 1] = worker[j].result]
    <2>. HIDE DEF ev, n
    <2>. QED
      BY <1>2, <1>3, <1>6, <1>7, <1>8 DEF Job
  <1>11. \A s \in Streams : stream'[s] = Receive(s, j, ev)
    BY DEF AppendAndFanOut
  <1>. HIDE DEF r2
  <1>12. job'[j] = r2 /\ job' \in [Jobs -> Job] /\ \A k \in Jobs \ {j} : job'[k] = job[k]
    BY <1>1, <1>9, <1>10 DEF TypeOK
  <1>. QED
    BY <1>2, <1>3, <1>4, <1>5, <1>10, <1>11, <1>12

\* The log of a job with one more result recorded.
LEMMA RecordedGrows ==
  ASSUME NEW r, NEW r2, NEW res, r \in Job, r2 \in Job, Recorded(r), r.completed = FALSE,
         r2.completed = FALSE, res \in Results, Len(r.events) + 1 <= Len(r.entries),
         r2.entries = [r.entries EXCEPT ![Len(r.events) + 1] = res],
         r2.events = Append(r.events, Progress(Len(r.events) + 1, res)),
         Progress(Len(r.events) + 1, res) \in Events
  PROVE  Recorded(r2) /\ Len(r2.events) = Len(r.events) + 1 /\ Len(r2.entries) = Len(r.entries)
  <1>1. PICK n \in Nat, m \in Nat : Len(r.events) = n /\ Len(r.entries) = m
    BY LenProperties DEF Job
  <1>2. /\ r.events \in Seq(Events) /\ r.entries \in Seq(EntryStatus) /\ DOMAIN r.entries = 1..m
        /\ r2.events \in Seq(Events) /\ r2.entries \in Seq(EntryStatus)
    BY <1>1, LenProperties DEF Job
  <1>3. /\ Len(r2.events) = n + 1
        /\ r2.events[n + 1] = Progress(n + 1, res)
        /\ \A i \in 1..n : r2.events[i] = r.events[i]
    BY <1>1, <1>2, AppendProperties
  <1>4. /\ Len(r2.entries) = m
        /\ \A i \in 1..m : r2.entries[i] = IF i = n + 1 THEN res ELSE r.entries[i]
    BY <1>1, <1>2, LenProperties
  <1>5. Finished(r) = n /\ Finished(r2) = n + 1 /\ n + 1 <= m /\ m <= MaxEntries
    BY <1>1, <1>3 DEF Finished, Recorded
  <1>6. n + 1 \in 0..m
    BY <1>5
  <1>7. ASSUME NEW i \in 1..(n + 1)
        PROVE  r2.entries[i] \in Results /\ r2.events[i] = Progress(i, r2.entries[i])
    <2>1. i \in 1..m
      BY <1>5
    <2>2. CASE i = n + 1
      BY <1>3, <1>4, <2>1, <2>2
    <2>3. CASE i # n + 1
      <3>1. i \in 1..n
        BY <2>3
      <3>2. r.entries[i] \in Results /\ r.events[i] = Progress(i, r.entries[i])
        BY <1>5, <3>1 DEF Recorded
      <3>. QED
        BY <1>3, <1>4, <2>1, <2>3, <3>1, <3>2
    <2>. QED
      BY <2>2, <2>3
  <1>8. ASSUME NEW i \in ((n + 1) + 1)..m PROVE r2.entries[i] = "pending"
    <2>1. i \in 1..m /\ i # n + 1 /\ i \in (n + 1)..m
      BY <1>5
    <2>2. r.entries[i] = "pending"
      BY <1>1, <1>5, <2>1 DEF Recorded
    <2>. QED
      BY <1>4, <2>1, <2>2
  <1>. QED
    BY <1>1, <1>3, <1>4, <1>5, <1>6, <1>7, <1>8 DEF Recorded

\* One stream in a fan-out of the worker of j that does not end the job.
LEMMA AppendToStream ==
  ASSUME IInv, NEW j \in Jobs, AppendAndFanOut(j), NEW s \in Streams
  PROVE  /\ stream'[s] \in StreamState /\ Len(stream'[s].live) <= SubscriberBuffer
         /\ stream'[s].pc = stream[s].pc /\ stream'[s].job = stream[s].job
         /\ stream'[s].written = stream[s].written
         /\ s \in Kept(j) => stream'[s].open
         /\ stream[s].pc \notin Reading => stream'[s] = stream[s]
         /\ stream[s].pc \in Reading => ReaderInv(s, stream'[s], job'[stream[s].job])
  <1>. DEFINE ev == Progress(Len(job[j].events) + 1, worker[j].result)
             st == stream[s]
  <1>1. /\ job'[j].events = Append(job[j].events, ev) /\ job'[j].subscribers = Kept(j)
        /\ job'[j].completed = FALSE /\ ~job[j].completed /\ ev \in Events
        /\ \A k \in Jobs \ {j} : job'[k] = job[k]
        /\ stream'[s] = Receive(s, j, ev)
    BY AppendChanges
  <1>2. TypeOK /\ StreamInv(s)
    BY DEF IInv
  <1>3. /\ st \in StreamState /\ st.written \in Seq(Events) /\ st.backlog \in Seq(Events)
        /\ st.live \in Seq(Events) /\ Len(st.live) <= SubscriberBuffer /\ Len(st.live) \in Nat
        /\ st.open \in BOOLEAN /\ job[j].events \in Seq(Events)
    BY <1>2, TypesOfStream, TypesOfJob
  <1>. HIDE DEF ev
  <1>4. CASE s \in Kept(j)
    <2>1. /\ st.job = j /\ st.open /\ st.pc \in Reading /\ ReaderInv(s, st, job[j])
          /\ Len(st.live) < SubscriberBuffer
      BY <1>4, Subscriber DEF Kept, HasRoom
    <2>2. stream'[s] = [st EXCEPT !.live = Append(st.live, ev)]
      BY <1>1, <1>4 DEF Receive
    <2>3. Append(st.live, ev) \in Seq(Events) /\ Len(Append(st.live, ev)) = Len(st.live) + 1
      BY <1>1, <1>3, AppendProperties
    <2>4. /\ stream'[s] \in StreamState /\ stream'[s].live = Append(st.live, ev)
          /\ stream'[s].pc = st.pc /\ stream'[s].job = st.job /\ stream'[s].open = st.open
          /\ stream'[s].written = st.written /\ stream'[s].backlog = st.backlog
      BY <1>3, <2>2, <2>3 DEF StreamState
    <2>5. Len(stream'[s].live) <= SubscriberBuffer
      <3>1. PICK n \in Nat : Len(st.live) = n
        BY <1>3
      <3>2. n + 1 <= SubscriberBuffer
        BY <2>1, <3>1, SubscriberBufferPositive
      <3>. QED
        BY <2>3, <2>4, <3>1, <3>2
    <2>6. Reader(st.pc, TRUE, st.written, st.backlog, Append(st.live, ev),
                 Append(job[j].events, ev), FALSE, TRUE)
      BY <1>1, <1>3, <2>1, ReaderReceives DEF ReaderInv
    <2>7. ReaderInv(s, stream'[s], job'[j])
      BY <1>1, <1>3, <1>4, <2>1, <2>4, <2>6 DEF ReaderInv
    <2>. QED
      BY <1>4, <2>1, <2>4, <2>5, <2>7
  <1>5. CASE s \notin Kept(j) /\ s \in job[j].subscribers
    <2>1. /\ st.job = j /\ st.open /\ st.pc \in Reading /\ ReaderInv(s, st, job[j])
          /\ SubscriberBuffer <= Len(st.live)
      BY <1>3, <1>5, Subscriber, SubscriberBufferPositive DEF Kept, HasRoom
    <2>2. stream'[s] = [st EXCEPT !.open = FALSE]
      BY <1>1, <1>5 DEF Receive
    <2>3. /\ stream'[s] \in StreamState /\ stream'[s].live = st.live
          /\ stream'[s].pc = st.pc /\ stream'[s].job = st.job /\ stream'[s].open = FALSE
          /\ stream'[s].written = st.written /\ stream'[s].backlog = st.backlog
      BY <1>3, <2>2 DEF StreamState
    <2>4. Reader(st.pc, FALSE, st.written, st.backlog, st.live,
                 Append(job[j].events, ev), FALSE, s \in Kept(j))
      BY <1>1, <1>3, <2>1, ReaderDropped DEF ReaderInv
    <2>5. ReaderInv(s, stream'[s], job'[j])
      BY <1>1, <2>3, <2>4 DEF ReaderInv
    <2>. QED
      BY <1>3, <1>5, <2>1, <2>3, <2>5
  <1>6. CASE s \notin job[j].subscribers
    <2>1. stream'[s] = st /\ s \notin Kept(j)
      BY <1>1, <1>6 DEF Receive, Kept
    <2>2. CASE st.pc \in Reading /\ st.job = j
      <3>1. ReaderInv(s, st, job[j]) /\ ~st.open
        BY <1>2, <1>6, <2>2, OpenReader DEF StreamInv
      <3>2. Reader(st.pc, st.open, st.written, st.backlog, st.live,
                   Append(job[j].events, ev), FALSE, s \in Kept(j))
        <4>1. Reader(st.pc, st.open, st.written, st.backlog, st.live,
                     job[j].events, job[j].completed, s \in job[j].subscribers)
          BY <3>1 DEF ReaderInv
        <4>2. ~job[j].completed /\ ~st.open /\ ev \in Events
          BY <1>1, <3>1
        <4>3. \A done2, sub2 : Reader(st.pc, st.open, st.written, st.backlog, st.live,
                                     Append(job[j].events, ev), done2, sub2)
          BY <1>3, <4>1, <4>2, ReaderLeftBehind
        <4>. QED
          BY <4>3
      <3>3. ReaderInv(s, stream'[s], job'[j])
        BY <1>1, <2>1, <3>2 DEF ReaderInv
      <3>. QED
        BY <1>3, <2>1, <2>2, <3>3
    <2>3. CASE st.pc \in Reading /\ st.job # j
      <3>1. st.job \in Jobs \ {j} /\ ReaderInv(s, st, job[st.job])
        BY <1>2, <2>3 DEF StreamInv, Reading, Attached
      <3>. QED
        BY <1>1, <1>3, <2>1, <2>3, <3>1
    <2>. QED
      BY <1>3, <2>1, <2>2, <2>3
  <1>. QED
    BY <1>4, <1>5, <1>6 DEF Kept

\* Recording a result and fanning it out preserves the invariant.
LEMMA AppendPreserves ==
  ASSUME IInv, NEW j \in Jobs, AppendAndFanOut(j)
  PROVE  IInv'
  <1>. DEFINE n == Len(job[j].events)
             ev == Progress(n + 1, worker[j].result)
  <1>1. /\ n \in Nat /\ n + 1 <= Len(job[j].entries) /\ Len(job[j].entries) \in Nat
        /\ ~job[j].completed /\ ev \in Events /\ job' \in [Jobs -> Job]
        /\ job'[j].entries = [job[j].entries EXCEPT ![n + 1] = worker[j].result]
        /\ job'[j].events = Append(job[j].events, ev)
        /\ job'[j].subscribers = Kept(j) /\ job'[j].completed = FALSE
        /\ \A k \in Jobs \ {j} : job'[k] = job[k]
        /\ \A s \in Streams : stream'[s] = Receive(s, j, ev)
    BY AppendChanges
  <1>2. /\ worker[j].pc = "commit" /\ UNCHANGED <<registry, gone, shutdown, now>>
        /\ worker' = [worker EXCEPT ![j].pc = IF n + 1 < Len(job[j].entries) THEN "ensure" ELSE "stamp"]
    BY DEF AppendAndFanOut
  <1>3. /\ TypeOK /\ RetainedUntilAged /\ (\A k \in Jobs : JobInv(k)) /\ (\A s \in Streams : StreamInv(s))
        /\ worker[j].result \in Results /\ job[j] \in Job /\ job'[j] \in Job
    BY <1>1, TypesOfJob DEF IInv
  <1>4. /\ worker' \in [Jobs -> WorkerState] /\ \A k \in Jobs \ {j} : worker'[k] = worker[k]
        /\ worker'[j].pc = IF n + 1 < Len(job[j].entries) THEN "ensure" ELSE "stamp"
    <2>. HIDE DEF n
    <2>. QED
      BY <1>2, <1>3 DEF TypeOK, WorkerState, WorkerPcs
  <1>5. Recorded(job'[j]) /\ Len(job'[j].events) = n + 1 /\ Len(job'[j].entries) = Len(job[j].entries)
    <2>1. /\ Recorded(job[j]) /\ job[j].completed = FALSE /\ Len(job[j].events) + 1 <= Len(job[j].entries)
          /\ job'[j].entries = [job[j].entries EXCEPT ![Len(job[j].events) + 1] = worker[j].result]
          /\ job'[j].events = Append(job[j].events, Progress(Len(job[j].events) + 1, worker[j].result))
          /\ Progress(Len(job[j].events) + 1, worker[j].result) \in Events
      BY <1>1, <1>3, TypesOfJob DEF JobInv
    <2>. HIDE DEF n, ev
    <2>2. /\ Recorded(job'[j]) /\ Len(job'[j].events) = Len(job[j].events) + 1
          /\ Len(job'[j].entries) = Len(job[j].entries)
      BY <1>1, <1>3, <2>1, RecordedGrows
    <2>. QED
      BY <2>2 DEF n
  <1>. HIDE DEF n, ev
  <1>6. TypeOK'
    <2>1. stream' \in [Streams -> StreamState] /\ \A s \in Streams : Len(stream'[s].live) <= SubscriberBuffer
      <3>1. stream' = [s \in Streams |-> Receive(s, j, ev)]
        BY DEF AppendAndFanOut, n, ev
      <3>. QED
        BY <3>1, AppendToStream
    <2>. QED
      BY <1>1, <1>2, <1>3, <1>4, <2>1 DEF TypeOK
  <1>7. ASSUME NEW k \in Jobs PROVE JobInv(k)'
    <2>1. Recorded(job'[k])
      BY <1>1, <1>3, <1>5 DEF JobInv
    <2>2. WorkerInStep(k)'
      <3>1. CASE k = j
        <4>1. PICK m \in Nat : Len(job[j].entries) = m
          BY <1>1
        <4>2. n + 1 < m \/ n + 1 = m
          BY <1>1, <4>1
        <4>. QED
          BY <1>1, <1>4, <1>5, <3>1, <4>1, <4>2 DEF WorkerInStep
      <3>2. CASE k # j
        BY <1>1, <1>2, <1>3, <1>4, <3>2 DEF JobInv, WorkerInStep
      <3>. QED
        BY <3>1, <3>2
    <2>3. SubscribersAreOpen(k)'
      <3>1. CASE k = j
        <4>1. ASSUME NEW s \in Kept(j) PROVE stream'[s].job = j /\ stream'[s].open
          <5>1. s \in Streams /\ stream[s].job = j
            BY Subscriber DEF Kept
          <5>. QED
            BY <5>1, AppendToStream
        <4>. QED
          BY <1>1, <3>1, <4>1 DEF SubscribersAreOpen
      <3>2. CASE k # j
        <4>1. ASSUME NEW s \in job[k].subscribers
              PROVE  stream'[s].job = k /\ stream'[s].open /\ ~job[k].completed
          <5>1. s \in Streams /\ stream[s].job = k /\ stream[s].open /\ ~job[k].completed
            BY Subscriber
          <5>2. s \notin job[j].subscribers
            BY <3>2, <5>1, Subscriber
          <5>3. stream'[s] = stream[s]
            BY <1>1, <5>1, <5>2 DEF Receive, Kept
          <5>. QED
            BY <5>1, <5>3
        <4>. QED
          BY <1>1, <3>2, <4>1 DEF SubscribersAreOpen
      <3>. QED
        BY <3>1, <3>2
    <2>. QED
      BY <2>1, <2>2, <2>3 DEF JobInv
  <1>8. ASSUME NEW s \in Streams PROVE StreamInv(s)'
    <2>1. /\ stream'[s].pc = stream[s].pc /\ stream'[s].job = stream[s].job
          /\ stream[s].pc \notin Reading => stream'[s] = stream[s]
          /\ stream[s].pc \in Reading => ReaderInv(s, stream'[s], job'[stream[s].job])
      BY AppendToStream
    <2>2. \A k \in Jobs : worker[k].pc # "off" => worker'[k].pc # "off"
      BY <1>4
    <2>. QED
      BY <1>3, <2>1, <2>2 DEF StreamInv, Fresh, Reading, ReaderInv
  <1>9. RetainedUntilAged'
    BY <1>1, <1>2, <1>3, <1>4 DEF RetainedUntilAged, Scheduled
  <1>. QED
    BY <1>6, <1>7, <1>8, <1>9 DEF IInv

\* What finishing a job changes, field by field, when a entries succeeded and b failed.
FinishedWith(j, a, b) ==
    /\ a + b = Len(job[j].entries)
    /\ a = HowMany(job[j], "success") /\ b = HowMany(job[j], "failed")
    /\ Len(job[j].events) = Len(job[j].entries) /\ ~job[j].completed
    /\ Summary(a, b) \in Events /\ job' \in [Jobs -> Job]
    /\ job'[j].entries = job[j].entries
    /\ job'[j].events = Append(job[j].events, Summary(a, b))
    /\ job'[j].subscribers = {} /\ job'[j].completed = TRUE
    /\ job'[j].completedAt = worker[j].completedAt
    /\ \A k \in Jobs \ {j} : job'[k] = job[k]
    /\ \A s \in Streams :
         stream'[s] = IF s \in job[j].subscribers
                      THEN [Receive(s, j, Summary(a, b)) EXCEPT !.open = FALSE]
                      ELSE stream[s]

\* Which it always does for some such numbers.
LEMMA FinishChanges ==
  ASSUME IInv, NEW j \in Jobs, FinishJob(j)
  PROVE  \E a \in 0..MaxEntries, b \in 0..MaxEntries : FinishedWith(j, a, b)
  <1>. DEFINE a == Counted(j, "success")
             b == Counted(j, "failed")
             r == job[j]
             r2 == [r EXCEPT !.events = Append(r.events, Summary(a, b)), !.subscribers = {},
                             !.completed = TRUE, !.completedAt = worker[j].completedAt]
  <1>1. TypeOK /\ JobInv(j)
    BY DEF IInv
  <1>2. /\ r \in Job /\ r.entries \in Seq(EntryStatus) /\ r.events \in Seq(Events)
        /\ r.completed \in BOOLEAN /\ worker[j].completedAt \in Nat /\ worker[j].pc = "finish"
    BY <1>1, TypesOfJob DEF FinishJob
  <1>3. /\ Len(r.events) = Len(r.entries) /\ ~r.completed /\ Len(r.entries) <= MaxEntries
        /\ Len(r.entries) \in Nat
    BY <1>1, <1>2, LenProperties DEF JobInv, WorkerInStep, Recorded
  <1>4. Finished(r) = Len(r.entries)
    BY <1>3 DEF Finished
  <1>5. \A i \in 1..Len(r.entries) : r.entries[i] \in Results
    BY <1>1, <1>4 DEF JobInv, Recorded
  <1>6. a \in Nat /\ b \in Nat /\ a + b = Len(r.entries)
    BY <1>2, <1>5, CountedAll DEF Counted
  <1>0. a = HowMany(r, "success") /\ b = HowMany(r, "failed")
    BY DEF Counted, HowMany
  <1>. HIDE DEF a, b
  <1>7. a \in 0..MaxEntries /\ b \in 0..MaxEntries
    <2>1. PICK m \in Nat : Len(r.entries) = m
      BY <1>3
    <2>2. a + b <= MaxEntries
      BY <1>3, <1>6, <2>1
    <2>. QED
      BY <1>6, <2>2, MaxEntriesPositive
  <1>8. Summary(a, b) \in Events
    BY <1>7 DEF Events
  <1>9. Append(r.events, Summary(a, b)) \in Seq(Events)
    BY <1>2, <1>8, AppendProperties
  <1>10. job' = [job EXCEPT ![j] = r2]
    BY <1>1, <1>2 DEF FinishJob, TypeOK, Job, a, b
  <1>11. /\ r2 \in Job /\ r2.subscribers = {} /\ r2.completed = TRUE
         /\ r2.completedAt = worker[j].completedAt /\ r2.events = Append(r.events, Summary(a, b))
         /\ r2.entries = r.entries
    BY <1>2, <1>9 DEF Job
  <1>. HIDE DEF r2
  <1>12. job'[j] = r2 /\ job' \in [Jobs -> Job] /\ \A k \in Jobs \ {j} : job'[k] = job[k]
    BY <1>1, <1>10, <1>11 DEF TypeOK
  <1>13. \A s \in Streams :
           stream'[s] = IF s \in job[j].subscribers
                        THEN [Receive(s, j, Summary(a, b)) EXCEPT !.open = FALSE]
                        ELSE stream[s]
    BY DEF FinishJob, a, b
  <1>. QED
    <2>1. FinishedWith(j, a, b)
      BY <1>0, <1>3, <1>6, <1>8, <1>11, <1>12, <1>13 DEF FinishedWith
    <2>. QED
      BY <1>7, <2>1

\* One stream when the worker of j finishes the job.
LEMMA FinishToStream ==
  ASSUME IInv, NEW j \in Jobs, FinishJob(j), NEW s \in Streams
  PROVE  /\ stream'[s] \in StreamState /\ Len(stream'[s].live) <= SubscriberBuffer
         /\ stream'[s].pc = stream[s].pc /\ stream'[s].job = stream[s].job
         /\ stream'[s].written = stream[s].written
         /\ s \notin job[j].subscribers => stream'[s] = stream[s]
         /\ stream[s].pc \notin Reading => stream'[s] = stream[s]
         /\ stream[s].pc \in Reading => ReaderInv(s, stream'[s], job'[stream[s].job])
  <1>. DEFINE st == stream[s]
  <1>0. PICK a \in 0..MaxEntries, b \in 0..MaxEntries : FinishedWith(j, a, b)
    BY FinishChanges
  <1>1. /\ ~job[j].completed /\ Summary(a, b) \in Events
        /\ job'[j].events = Append(job[j].events, Summary(a, b))
        /\ job'[j].subscribers = {} /\ job'[j].completed = TRUE
        /\ \A k \in Jobs \ {j} : job'[k] = job[k]
        /\ stream'[s] = IF s \in job[j].subscribers
                        THEN [Receive(s, j, Summary(a, b)) EXCEPT !.open = FALSE]
                        ELSE stream[s]
    BY <1>0 DEF FinishedWith
  <1>. DEFINE ev == Summary(a, b)
  <1>. HIDE DEF ev
  <1>2. TypeOK /\ StreamInv(s)
    BY DEF IInv
  <1>3. /\ st \in StreamState /\ st.written \in Seq(Events) /\ st.backlog \in Seq(Events)
        /\ st.live \in Seq(Events) /\ Len(st.live) <= SubscriberBuffer /\ Len(st.live) \in Nat
        /\ st.open \in BOOLEAN /\ job[j].events \in Seq(Events) /\ ev \in Events
    BY <1>1, <1>2, TypesOfStream, TypesOfJob DEF ev
  <1>4. CASE s \in Kept(j)
    <2>1. /\ st.job = j /\ st.open /\ st.pc \in Reading /\ ReaderInv(s, st, job[j])
          /\ Len(st.live) < SubscriberBuffer /\ s \in job[j].subscribers
      BY <1>4, Subscriber DEF Kept, HasRoom
    <2>2. stream'[s] = [[st EXCEPT !.live = Append(st.live, ev)] EXCEPT !.open = FALSE]
      BY <1>1, <1>4, <2>1 DEF Receive, ev
    <2>3. Append(st.live, ev) \in Seq(Events) /\ Len(Append(st.live, ev)) = Len(st.live) + 1
      BY <1>3, AppendProperties
    <2>4. /\ stream'[s] \in StreamState /\ stream'[s].live = Append(st.live, ev)
          /\ stream'[s].pc = st.pc /\ stream'[s].job = st.job /\ stream'[s].open = FALSE
          /\ stream'[s].written = st.written /\ stream'[s].backlog = st.backlog
      BY <1>3, <2>2, <2>3 DEF StreamState
    <2>5. Len(stream'[s].live) <= SubscriberBuffer
      <3>1. PICK n \in Nat : Len(st.live) = n
        BY <1>3
      <3>2. n + 1 <= SubscriberBuffer
        BY <2>1, <3>1, SubscriberBufferPositive
      <3>. QED
        BY <2>3, <2>4, <3>1, <3>2
    <2>6. Reader(st.pc, FALSE, st.written, st.backlog, Append(st.live, ev),
                 Append(job[j].events, ev), TRUE, FALSE)
      BY <1>3, <2>1, ReaderReceives DEF ReaderInv
    <2>7. ReaderInv(s, stream'[s], job'[j])
      <3>1. (s \in job'[j].subscribers) = FALSE
        BY <1>1
      <3>. QED
        BY <1>1, <2>4, <2>6, <3>1 DEF ReaderInv, ev
    <2>. QED
      BY <2>1, <2>4, <2>5, <2>7
  <1>5. CASE s \notin Kept(j) /\ s \in job[j].subscribers
    <2>1. /\ st.job = j /\ st.open /\ st.pc \in Reading /\ ReaderInv(s, st, job[j])
          /\ SubscriberBuffer <= Len(st.live)
      BY <1>3, <1>5, Subscriber, SubscriberBufferPositive DEF Kept, HasRoom
    <2>2. stream'[s] = [st EXCEPT !.open = FALSE]
      BY <1>1, <1>3, <1>5 DEF Receive, StreamState
    <2>3. /\ stream'[s] \in StreamState /\ stream'[s].live = st.live
          /\ stream'[s].pc = st.pc /\ stream'[s].job = st.job /\ stream'[s].open = FALSE
          /\ stream'[s].written = st.written /\ stream'[s].backlog = st.backlog
      BY <1>3, <2>2 DEF StreamState
    <2>4. Reader(st.pc, FALSE, st.written, st.backlog, st.live,
                 Append(job[j].events, ev), TRUE, FALSE)
      BY <1>3, <2>1, ReaderDropped DEF ReaderInv
    <2>5. ReaderInv(s, stream'[s], job'[j])
      <3>1. (s \in job'[j].subscribers) = FALSE
        BY <1>1
      <3>. QED
        BY <1>1, <2>3, <2>4, <3>1 DEF ReaderInv, ev
    <2>. QED
      BY <1>3, <1>5, <2>1, <2>3, <2>5
  <1>6. CASE s \notin job[j].subscribers
    <2>1. stream'[s] = st
      BY <1>1, <1>6
    <2>2. CASE st.pc \in Reading /\ st.job = j
      <3>1. ReaderInv(s, st, job[j]) /\ ~st.open /\ ~job[j].completed
        BY <1>1, <1>2, <1>6, <2>2, OpenReader DEF StreamInv
      <3>2. Reader(st.pc, st.open, st.written, st.backlog, st.live,
                   job[j].events, job[j].completed, s \in job[j].subscribers)
        BY <3>1 DEF ReaderInv
      <3>3. \A done2, sub2 : Reader(st.pc, st.open, st.written, st.backlog, st.live,
                                    Append(job[j].events, ev), done2, sub2)
        BY <1>3, <3>1, <3>2, ReaderLeftBehind
      <3>4. ReaderInv(s, stream'[s], job'[j])
        BY <1>1, <2>1, <3>3 DEF ReaderInv, ev
      <3>. QED
        BY <1>3, <2>1, <2>2, <3>4
    <2>3. CASE st.pc \in Reading /\ st.job # j
      <3>1. st.job \in Jobs \ {j} /\ ReaderInv(s, st, job[st.job])
        BY <1>2, <2>3 DEF StreamInv, Reading, Attached
      <3>. QED
        BY <1>1, <1>3, <2>1, <2>3, <3>1
    <2>. QED
      BY <1>3, <2>1, <2>2, <2>3
  <1>. QED
    BY <1>4, <1>5, <1>6 DEF Kept

\* The log of a job with the summary behind its entries.
LEMMA RecordedSummary ==
  ASSUME NEW r, NEW r2, r \in Job, r2 \in Job, Recorded(r), r.completed = FALSE,
         r2.completed = TRUE, Len(r.events) = Len(r.entries), r2.entries = r.entries,
         NEW a, NEW b, a \in 0..MaxEntries, b \in 0..MaxEntries, a + b = Len(r.entries),
         a = HowMany(r, "success"), b = HowMany(r, "failed"),
         r2.events = Append(r.events, Summary(a, b)), Summary(a, b) \in Events
  PROVE  Recorded(r2) /\ Len(r2.events) = Len(r.events) + 1
  <1>1. PICK n \in Nat : Len(r.events) = n /\ Len(r.entries) = n
    BY LenProperties DEF Job
  <1>2. r.events \in Seq(Events)
    BY DEF Job
  <1>3. /\ Len(r2.events) = n + 1
        /\ r2.events[n + 1] = Summary(a, b)
        /\ \A i \in 1..n : r2.events[i] = r.events[i]
    <2>. PICK log \in Seq(Events), ev \in Events : log = r.events /\ ev = Summary(a, b)
      BY <1>2
    <2>1. /\ Len(Append(log, ev)) = Len(log) + 1 /\ Append(log, ev)[Len(log) + 1] = ev
          /\ \A i \in 1..Len(log) : Append(log, ev)[i] = log[i]
      BY AppendProperties
    <2>. QED
      BY <1>1, <2>1
  <1>4. Finished(r) = n /\ n + 1 - 1 = n /\ n \in 0..n /\ \A i \in (n + 1)..n : FALSE
    BY <1>1 DEF Finished
  <1>5. Finished(r2) = n
    BY <1>3, <1>4 DEF Finished
  <1>6. \A i \in 1..n : r.entries[i] \in Results /\ r.events[i] = Progress(i, r.entries[i])
    BY <1>4 DEF Recorded
  <1>7. n <= MaxEntries
    BY <1>1 DEF Recorded
  <1>8. \E x, y \in 0..MaxEntries :
          /\ r2.events[Len(r2.events)] = Summary(x, y) /\ x + y = n
          /\ x = HowMany(r2, "success") /\ y = HowMany(r2, "failed")
    <2>1. HowMany(r2, "success") = a /\ HowMany(r2, "failed") = b
      BY DEF HowMany
    <2>. QED
      BY <1>1, <1>3, <2>1
  <1>. QED
    BY <1>1, <1>3, <1>4, <1>5, <1>6, <1>7, <1>8 DEF Recorded

\* Finishing a job preserves the invariant.
LEMMA FinishPreserves ==
  ASSUME IInv, NEW j \in Jobs, FinishJob(j)
  PROVE  IInv'
  <1>1. PICK a \in 0..MaxEntries, b \in 0..MaxEntries : FinishedWith(j, a, b)
    BY FinishChanges
  <1>2. /\ Len(job[j].events) = Len(job[j].entries) /\ ~job[j].completed /\ job' \in [Jobs -> Job]
        /\ job'[j].entries = job[j].entries /\ job'[j].subscribers = {} /\ job'[j].completed = TRUE
        /\ \A k \in Jobs \ {j} : job'[k] = job[k]
    BY <1>1 DEF FinishedWith
  <1>3. /\ worker[j].pc = "finish" /\ UNCHANGED <<registry, gone, shutdown, now>>
        /\ worker' = [worker EXCEPT ![j].pc = "done"]
        /\ stream' = [s \in Streams |-> stream'[s]]
    BY DEF FinishJob
  <1>4. /\ TypeOK /\ RetainedUntilAged /\ (\A k \in Jobs : JobInv(k)) /\ (\A s \in Streams : StreamInv(s))
        /\ job[j] \in Job /\ job'[j] \in Job /\ job[j].completed \in BOOLEAN
    BY <1>2, TypesOfJob DEF IInv
  <1>5. /\ worker' \in [Jobs -> WorkerState] /\ \A k \in Jobs \ {j} : worker'[k] = worker[k]
        /\ worker'[j].pc = "done"
    BY <1>3, <1>4 DEF TypeOK, WorkerState, WorkerPcs
  <1>6. Recorded(job'[j])
    <2>1. /\ Recorded(job[j]) /\ job[j].completed = FALSE /\ a + b = Len(job[j].entries)
          /\ a = HowMany(job[j], "success") /\ b = HowMany(job[j], "failed")
          /\ job'[j].events = Append(job[j].events, Summary(a, b)) /\ Summary(a, b) \in Events
      BY <1>1, <1>4 DEF JobInv, FinishedWith
    <2>. QED
      BY <1>2, <1>4, <2>1, RecordedSummary
  <1>7. TypeOK'
    <2>1. stream' \in [Streams -> StreamState] /\ \A s \in Streams : Len(stream'[s].live) <= SubscriberBuffer
      BY <1>3, FinishToStream
    <2>. QED
      BY <1>2, <1>3, <1>4, <1>5, <2>1 DEF TypeOK
  <1>8. ASSUME NEW k \in Jobs PROVE JobInv(k)'
    <2>1. Recorded(job'[k])
      BY <1>2, <1>4, <1>6 DEF JobInv
    <2>2. WorkerInStep(k)'
      BY <1>2, <1>3, <1>4, <1>5 DEF JobInv, WorkerInStep
    <2>3. SubscribersAreOpen(k)'
      <3>1. CASE k = j
        BY <1>2, <3>1 DEF SubscribersAreOpen
      <3>2. CASE k # j
        <4>1. ASSUME NEW s \in job[k].subscribers
              PROVE  stream'[s].job = k /\ stream'[s].open /\ ~job[k].completed
          <5>1. s \in Streams /\ stream[s].job = k /\ stream[s].open /\ ~job[k].completed
            BY Subscriber
          <5>2. s \notin job[j].subscribers
            BY <3>2, <5>1, Subscriber
          <5>3. stream'[s] = stream[s]
            BY <5>1, <5>2, FinishToStream
          <5>. QED
            BY <5>1, <5>3
        <4>. QED
          BY <1>2, <3>2, <4>1 DEF SubscribersAreOpen
      <3>. QED
        BY <3>1, <3>2
    <2>. QED
      BY <2>1, <2>2, <2>3 DEF JobInv
  <1>9. ASSUME NEW s \in Streams PROVE StreamInv(s)'
    <2>1. /\ stream'[s].pc = stream[s].pc /\ stream'[s].job = stream[s].job
          /\ stream[s].pc \notin Reading => stream'[s] = stream[s]
          /\ stream[s].pc \in Reading => ReaderInv(s, stream'[s], job'[stream[s].job])
      BY FinishToStream
    <2>2. \A k \in Jobs : worker[k].pc # "off" => worker'[k].pc # "off"
      BY <1>5
    <2>. QED
      BY <1>4, <2>1, <2>2 DEF StreamInv, Fresh, Reading, ReaderInv
  <1>10. RetainedUntilAged'
    BY <1>2, <1>3, <1>4, <1>5 DEF RetainedUntilAged, Scheduled
  <1>. QED
    BY <1>7, <1>8, <1>9, <1>10 DEF IInv

\* Registering a job preserves the invariant: nobody has read a job that was not there.
LEMMA SchedulePreserves ==
  ASSUME IInv, NEW j \in Jobs, NEW n \in 1..MaxEntries, Schedule(j, n)
  PROVE  IInv'
  <1>1. /\ worker[j].pc = "off" /\ registry' = registry \cup {j}
        /\ job' = [job EXCEPT ![j] = NewJob(n)] /\ worker' = [worker EXCEPT ![j].pc = "ensure"]
        /\ UNCHANGED <<stream, gone, shutdown, now>>
    BY DEF Schedule
  <1>2. /\ TypeOK /\ RetainedUntilAged /\ (\A k \in Jobs : JobInv(k)) /\ (\A s \in Streams : StreamInv(s))
    BY DEF IInv
  <1>3. /\ n \in Nat \ {0} /\ n <= MaxEntries
    BY MaxEntriesPositive
  <1>4. /\ NewJob(n).entries \in Seq(EntryStatus) /\ Len(NewJob(n).entries) = n
        /\ NewJob(n).events = <<>> /\ NewJob(n).subscribers = {} /\ NewJob(n).completed = FALSE
        /\ \A i \in 1..n : NewJob(n).entries[i] = "pending"
    BY <1>3 DEF NewJob, EntryStatus
  <1>5. NewJob(n) \in Job
    BY <1>4, EmptySeq DEF NewJob, Job
  <1>6. /\ worker' \in [Jobs -> WorkerState] /\ worker'[j].pc = "ensure"
        /\ \A k \in Jobs \ {j} : worker'[k] = worker[k]
    BY <1>1, <1>2 DEF TypeOK, WorkerState, WorkerPcs
  <1>7. job' \in [Jobs -> Job] /\ job'[j] = NewJob(n) /\ \A k \in Jobs \ {j} : job'[k] = job[k]
    BY <1>1, <1>2, <1>5 DEF TypeOK
  <1>8. TypeOK'
    BY <1>1, <1>2, <1>6, <1>7 DEF TypeOK
  <1>9. ASSUME NEW k \in Jobs PROVE JobInv(k)'
    <2>1. CASE k = j
      <3>1. Recorded(NewJob(n))
        <4>1. Len(NewJob(n).events) = 0 /\ Finished(NewJob(n)) = 0
          BY <1>4, EmptySeq DEF Finished
        <4>2. 0 \in 0..n /\ (\A i \in 1..0 : FALSE) /\ 0 + 1 = 1
          BY <1>3
        <4>. QED
          BY <1>3, <1>4, <4>1, <4>2 DEF Recorded
      <3>2. Len(NewJob(n).events) < Len(NewJob(n).entries)
        BY <1>3, <1>4, EmptySeq
      <3>3. WorkerInStep(k)'
        BY <1>4, <1>6, <1>7, <2>1, <3>2 DEF WorkerInStep
      <3>. QED
        BY <1>4, <1>7, <2>1, <3>1, <3>3 DEF JobInv, SubscribersAreOpen
    <2>2. CASE k # j
      BY <1>1, <1>2, <1>6, <1>7, <2>2 DEF JobInv, WorkerInStep, SubscribersAreOpen
    <2>. QED
      BY <2>1, <2>2
  <1>10. ASSUME NEW s \in Streams PROVE StreamInv(s)'
    <2>1. stream[s].pc \in Attached => stream[s].job \in Jobs \ {j}
      BY <1>1, <1>2 DEF StreamInv
    <2>2. stream[s].pc \in Reading => stream[s].pc \in Attached
      BY DEF Reading, Attached
    <2>. QED
      BY <1>1, <1>2, <1>6, <1>7, <2>1, <2>2 DEF StreamInv, Fresh
  <1>11. RetainedUntilAged'
    BY <1>1, <1>2, <1>6, <1>7 DEF RetainedUntilAged, Scheduled
  <1>. QED
    BY <1>8, <1>9, <1>10, <1>11 DEF IInv

\* The worker's two steps that only it sees preserve the invariant.
LEMMA WorkerOnlyPreserves ==
  ASSUME IInv, NEW j \in Jobs, RunEntry(j) \/ StampCompletion(j)
  PROVE  IInv'
  <1>1. /\ TypeOK /\ RetainedUntilAged /\ (\A k \in Jobs : JobInv(k)) /\ (\A s \in Streams : StreamInv(s))
    BY DEF IInv
  <1>2. UNCHANGED <<registry, job, stream, gone, shutdown, now>>
    BY DEF RunEntry, StampCompletion
  <1>3. /\ worker' \in [Jobs -> WorkerState] /\ \A k \in Jobs \ {j} : worker'[k] = worker[k]
        /\ \/ worker[j].pc = "ensure" /\ worker'[j].pc = "commit"
           \/ worker[j].pc = "stamp" /\ worker'[j].pc = "finish"
    <2>1. worker \in [Jobs -> WorkerState] /\ now \in Nat
      BY <1>1 DEF TypeOK
    <2>2. CASE RunEntry(j)
      <3>1. PICK r \in Results : worker' = [worker EXCEPT ![j].pc = "commit", ![j].result = r]
        BY <2>2 DEF RunEntry
      <3>2. worker[j].pc = "ensure"
        BY <2>2 DEF RunEntry
      <3>. QED
        BY <2>1, <3>1, <3>2 DEF WorkerState, WorkerPcs
    <2>3. CASE StampCompletion(j)
      BY <2>1, <2>3 DEF StampCompletion, WorkerState, WorkerPcs
    <2>. QED
      BY <2>2, <2>3
  <1>4. TypeOK'
    BY <1>1, <1>2, <1>3 DEF TypeOK
  <1>5. ASSUME NEW k \in Jobs PROVE JobInv(k)'
    BY <1>1, <1>2, <1>3 DEF JobInv, WorkerInStep, SubscribersAreOpen
  <1>6. ASSUME NEW s \in Streams PROVE StreamInv(s)'
    <2>1. \A k \in Jobs : worker[k].pc # "off" => worker'[k].pc # "off"
      BY <1>3
    <2>. QED
      BY <1>1, <1>2, <2>1 DEF StreamInv, Fresh, ReaderInv
  <1>7. RetainedUntilAged'
    BY <1>1, <1>2, <1>3 DEF RetainedUntilAged, Scheduled
  <1>. QED
    BY <1>4, <1>5, <1>6, <1>7 DEF IInv

-----------------------------------------------------------------------------
(* The other steps preserve the invariant.                                 *)

\* The sweep only takes what completed Retention ago.
LEMMA SweepRetains ==
  ASSUME IInv, registry' = Swept, UNCHANGED <<job, worker, now>>
  PROVE  RetainedUntilAged' /\ registry' \in SUBSET registry
  BY DEF IInv, RetainedUntilAged, Swept, Expired, Scheduled, JobInv, WorkerInStep, TypeOK

\* A step of stream s alone preserves the invariant when its new state is right for its
\* job and it keeps an open channel.
LEMMA OneStream ==
  ASSUME IInv, NEW s \in Streams, NEW st2, st2 \in StreamState, stream' = [stream EXCEPT ![s] = st2],
         UNCHANGED <<job, worker, gone, shutdown, now>>, registry' \in SUBSET registry, RetainedUntilAged',
         Len(st2.live) <= SubscriberBuffer, st2.open = stream[s].open,
         stream[s].open => st2.job = stream[s].job,
         st2.pc \in {"idle", "found", "unknown"} => Fresh(st2),
         st2.pc \in Attached => st2.job \in Jobs /\ worker[st2.job].pc # "off",
         st2.pc \in Reading => ReaderInv(s, st2, job[st2.job])
  PROVE  IInv'
  <1>1. TypeOK /\ (\A k \in Jobs : JobInv(k)) /\ (\A t \in Streams : StreamInv(t))
    BY DEF IInv
  <1>2. /\ stream' \in [Streams -> StreamState] /\ stream'[s] = st2
        /\ \A t \in Streams \ {s} : stream'[t] = stream[t]
    BY <1>1 DEF TypeOK
  <1>3. TypeOK'
    BY <1>1, <1>2 DEF TypeOK
  <1>4. ASSUME NEW k \in Jobs PROVE JobInv(k)'
    <2>1. ASSUME NEW t \in job[k].subscribers
          PROVE  stream'[t].job = k /\ stream'[t].open /\ ~job[k].completed
      <3>1. t \in Streams /\ stream[t].job = k /\ stream[t].open /\ ~job[k].completed
        BY Subscriber
      <3>. QED
        BY <1>2, <3>1
    <2>. QED
      BY <1>1, <2>1 DEF JobInv, WorkerInStep, SubscribersAreOpen
  <1>5. ASSUME NEW t \in Streams PROVE StreamInv(t)'
    BY <1>1, <1>2 DEF StreamInv, Fresh
  <1>. QED
    BY <1>3, <1>4, <1>5 DEF IInv

\* What writing an event makes of a stream.
LEMMA WroteFields ==
  ASSUME NEW st, st \in StreamState, NEW h, h \in Events
  PROVE  /\ Wrote(st, h) \in StreamState
         /\ Wrote(st, h).written = Append(st.written, h)
         /\ Wrote(st, h).pc = (IF h.kind = "summary" THEN "summary" ELSE st.pc)
         /\ Wrote(st, h).job = st.job /\ Wrote(st, h).open = st.open
         /\ Wrote(st, h).backlog = st.backlog /\ Wrote(st, h).live = st.live
  <1>1. Append(st.written, h) \in Seq(Events)
    BY AppendProperties DEF StreamState
  <1>. QED
    BY <1>1 DEF Wrote, StreamState, StreamPcs

\* What a stream that is replaying or following knows of its job.
LEMMA AtJob ==
  ASSUME IInv, NEW s \in Streams, stream[s].pc \in Attached
  PROVE  /\ stream[s].job \in Jobs /\ worker[stream[s].job].pc # "off"
         /\ job[stream[s].job] \in Job /\ job[stream[s].job].events \in Seq(Events)
         /\ job[stream[s].job].completed \in BOOLEAN
         /\ Sealed(job[stream[s].job].events, job[stream[s].job].completed)
         /\ stream[s].open => ~job[stream[s].job].completed
         /\ stream[s].pc \in Reading => ReaderInv(s, stream[s], job[stream[s].job])
  <1>1. stream[s].job \in Jobs /\ worker[stream[s].job].pc # "off"
    BY DEF IInv, StreamInv
  <1>2. /\ job[stream[s].job] \in Job /\ job[stream[s].job].events \in Seq(Events)
        /\ job[stream[s].job].completed \in BOOLEAN
        /\ Recorded(job[stream[s].job])
    BY <1>1, TypesOfJob DEF IInv, JobInv
  <1>3. stream[s].open => ~job[stream[s].job].completed
    BY <1>1, OpenReader DEF IInv, JobInv, SubscribersAreOpen
  <1>4. stream[s].pc \in Reading => ReaderInv(s, stream[s], job[stream[s].job])
    BY DEF IInv, StreamInv
  <1>. QED
    BY <1>1, <1>2, <1>3, <1>4, RecordedIsSealed

\* Replaying an event preserves the invariant.
LEMMA WriteBacklogPreserves ==
  ASSUME IInv, NEW s \in Streams, WriteBacklog(s)
  PROVE  IInv'
  <1>. DEFINE st == stream[s]
             r == job[st.job]
             h == Head(st.backlog)
             st2 == [Wrote(st, h) EXCEPT !.backlog = Tail(st.backlog)]
  <1>1. /\ st.pc = "backlog" /\ st.backlog # <<>> /\ stream' = [stream EXCEPT ![s] = st2]
        /\ UNCHANGED <<registry, job, worker, gone, shutdown, now>>
    BY DEF WriteBacklog, StreamOnly
  <1>2. /\ st \in StreamState /\ st.written \in Seq(Events) /\ st.backlog \in Seq(Events)
        /\ st.live \in Seq(Events) /\ Len(st.live) <= SubscriberBuffer
    BY TypesOfStream DEF IInv
  <1>3. /\ st.job \in Jobs /\ worker[st.job].pc # "off" /\ r.events \in Seq(Events)
        /\ Sealed(r.events, r.completed) /\ (st.open => ~r.completed)
        /\ Reader(st.pc, st.open, st.written, st.backlog, st.live, r.events, r.completed, s \in r.subscribers)
    BY <1>1, AtJob DEF Attached, Reading, ReaderInv
  <1>4. /\ Reads(Append(st.written, h), Tail(st.backlog), st.live, r.events)
        /\ Position(Append(st.written, h), Tail(st.backlog), st.live) = Position(st.written, st.backlog, st.live)
        /\ Len(st.written) + 1 \in 1..Len(r.events) /\ h = r.events[Len(st.written) + 1]
        /\ h \in Events /\ Tail(st.backlog) \in Seq(Events)
    <2>1. Reads(st.written, st.backlog, st.live, r.events)
      BY <1>3 DEF Reader
    <2>. QED
      BY <1>1, <1>2, <1>3, <2>1, ReadsBacklog
  <1>. HIDE DEF h
  <1>5. /\ st2 \in StreamState /\ st2.written = Append(st.written, h) /\ st2.job = st.job
        /\ st2.pc = (IF h.kind = "summary" THEN "summary" ELSE st.pc) /\ st2.open = st.open
        /\ st2.backlog = Tail(st.backlog) /\ st2.live = st.live
    <2>. DEFINE x == Wrote(st, h)
    <2>1. /\ x \in StreamState /\ x.written = Append(st.written, h) /\ x.job = st.job
          /\ x.pc = (IF h.kind = "summary" THEN "summary" ELSE st.pc) /\ x.open = st.open
          /\ x.backlog = st.backlog /\ x.live = st.live
      <3>1. st \in StreamState /\ h \in Events
        BY <1>2, <1>4
      <3>. HIDE DEF st
      <3>. QED
        BY <3>1, WroteFields
    <2>. HIDE DEF x
    <2>2. st2 = [x EXCEPT !.backlog = Tail(st.backlog)]
      BY DEF x
    <2>. QED
      BY <1>4, <2>1, <2>2 DEF StreamState
  <1>6. ReaderInv(s, st2, r)
    <2>1. Reader(IF h.kind = "summary" THEN "summary" ELSE st.pc, st.open, Append(st.written, h),
                 Tail(st.backlog), st.live, r.events, r.completed, s \in r.subscribers)
      BY <1>1, <1>2, <1>3, <1>4, ReaderWrites
    <2>. QED
      BY <1>5, <2>1 DEF ReaderInv
  <1>. QED
    <2>1. registry' \in SUBSET registry /\ RetainedUntilAged'
      BY <1>1 DEF IInv, RetainedUntilAged, Scheduled
    <2>. HIDE DEF st2
    <2>. QED
      BY <1>1, <1>2, <1>3, <1>5, <1>6, <2>1, OneStream DEF Attached

\* Writing an event of the channel preserves the invariant.
LEMMA WriteLivePreserves ==
  ASSUME IInv, NEW s \in Streams, WriteLive(s)
  PROVE  IInv'
  <1>. DEFINE st == stream[s]
             r == job[st.job]
             h == Head(st.live)
             st2 == [Wrote(st, h) EXCEPT !.live = Tail(st.live)]
  <1>1. /\ st.pc = "live" /\ st.live # <<>> /\ stream' = [stream EXCEPT ![s] = st2]
        /\ UNCHANGED <<registry, job, worker, gone, shutdown, now>>
    BY DEF WriteLive, StreamOnly
  <1>2. /\ st \in StreamState /\ st.written \in Seq(Events) /\ st.backlog \in Seq(Events)
        /\ st.live \in Seq(Events) /\ Len(st.live) <= SubscriberBuffer
    BY TypesOfStream DEF IInv
  <1>3. /\ st.job \in Jobs /\ worker[st.job].pc # "off" /\ r.events \in Seq(Events)
        /\ Sealed(r.events, r.completed) /\ (st.open => ~r.completed)
        /\ Reader(st.pc, st.open, st.written, st.backlog, st.live, r.events, r.completed, s \in r.subscribers)
    BY <1>1, AtJob DEF Attached, Reading, ReaderInv
  <1>4. /\ Reads(Append(st.written, h), <<>>, Tail(st.live), r.events)
        /\ Position(Append(st.written, h), <<>>, Tail(st.live)) = Position(st.written, st.backlog, st.live)
        /\ Len(st.written) + 1 \in 1..Len(r.events) /\ h = r.events[Len(st.written) + 1]
        /\ h \in Events /\ Tail(st.live) \in Seq(Events) /\ st.backlog = <<>>
    <2>1. Reads(st.written, <<>>, st.live, r.events) /\ st.backlog = <<>>
      BY <1>1, <1>3 DEF Reader
    <2>. QED
      BY <1>1, <1>2, <1>3, <2>1, ReadsLive
  <1>. HIDE DEF h
  <1>5. /\ st2 \in StreamState /\ st2.written = Append(st.written, h) /\ st2.job = st.job
        /\ st2.pc = (IF h.kind = "summary" THEN "summary" ELSE st.pc) /\ st2.open = st.open
        /\ st2.backlog = st.backlog /\ st2.live = Tail(st.live)
    <2>. DEFINE x == Wrote(st, h)
    <2>1. /\ x \in StreamState /\ x.written = Append(st.written, h) /\ x.job = st.job
          /\ x.pc = (IF h.kind = "summary" THEN "summary" ELSE st.pc) /\ x.open = st.open
          /\ x.backlog = st.backlog /\ x.live = st.live
      <3>1. st \in StreamState /\ h \in Events
        BY <1>2, <1>4
      <3>. HIDE DEF st
      <3>. QED
        BY <3>1, WroteFields
    <2>. HIDE DEF x
    <2>2. st2 = [x EXCEPT !.live = Tail(st.live)]
      BY DEF x
    <2>. QED
      BY <1>4, <2>1, <2>2 DEF StreamState
  <1>6. ReaderInv(s, st2, r)
    <2>1. Reader(IF h.kind = "summary" THEN "summary" ELSE st.pc, st.open, Append(st.written, h),
                 <<>>, Tail(st.live), r.events, r.completed, s \in r.subscribers)
      BY <1>1, <1>2, <1>3, <1>4, ReaderWrites
    <2>. QED
      BY <1>4, <1>5, <2>1 DEF ReaderInv
  <1>7. Len(st2.live) <= SubscriberBuffer
    <2>1. Len(st.live) \in Nat /\ Len(Tail(st.live)) = Len(st.live) - 1
      BY <1>1, <1>2, HeadTailProperties, LenProperties
    <2>2. PICK n \in Nat : Len(st.live) = n
      BY <2>1
    <2>3. n - 1 <= SubscriberBuffer
      BY <1>2, <2>2, SubscriberBufferPositive
    <2>. HIDE DEF st2
    <2>. QED
      BY <1>5, <2>1, <2>2, <2>3
  <1>. QED
    <2>1. registry' \in SUBSET registry /\ RetainedUntilAged'
      BY <1>1 DEF IInv, RetainedUntilAged, Scheduled
    <2>. HIDE DEF st2
    <2>. QED
      BY <1>1, <1>2, <1>3, <1>5, <1>6, <1>7, <2>1, OneStream DEF Attached

\* The steps of a stream that write no event preserve the invariant.
LEMMA TurnPreserves ==
  ASSUME IInv, NEW s \in Streams, BacklogDone(s) \/ StreamClosed(s) \/ ClientDone(s)
  PROVE  IInv'
  <1>. DEFINE st == stream[s]
             r == job[st.job]
  <1>1. /\ st \in StreamState /\ st.written \in Seq(Events) /\ Len(st.live) <= SubscriberBuffer
        /\ UNCHANGED <<registry, job, worker, gone, shutdown, now>>
        /\ st.pc \in {"backlog", "live"}
    BY TypesOfStream DEF IInv, BacklogDone, StreamClosed, ClientDone, StreamOnly
  <1>2. /\ st.job \in Jobs /\ worker[st.job].pc # "off" /\ r.events \in Seq(Events)
        /\ Sealed(r.events, r.completed)
        /\ Reader(st.pc, st.open, st.written, st.backlog, st.live, r.events, r.completed, s \in r.subscribers)
    BY <1>1, AtJob DEF Attached, Reading, ReaderInv
  <1>3. \E pc2 \in {"live", "error", "gone"} :
          /\ stream' = [stream EXCEPT ![s].pc = pc2]
          /\ Reader(pc2, st.open, st.written, st.backlog, st.live, r.events, r.completed, s \in r.subscribers)
    <2>1. CASE BacklogDone(s)
      <3>1. st.pc = "backlog" /\ st.backlog = <<>> /\ stream' = [stream EXCEPT ![s].pc = "live"]
        BY <2>1 DEF BacklogDone
      <3>2. Reader("live", st.open, st.written, st.backlog, st.live, r.events, r.completed, s \in r.subscribers)
        BY <1>2, <3>1, ReaderGoesLive
      <3>. QED
        BY <3>1, <3>2
    <2>2. CASE StreamClosed(s)
      <3>1. st.pc = "live" /\ st.live = <<>> /\ ~st.open /\ stream' = [stream EXCEPT ![s].pc = "error"]
        BY <2>2 DEF StreamClosed
      <3>2. Reader("error", st.open, st.written, st.backlog, st.live, r.events, r.completed, s \in r.subscribers)
        BY <1>1, <1>2, <3>1, ReaderErrs
      <3>. QED
        BY <3>1, <3>2
    <2>3. CASE ClientDone(s)
      <3>1. st.pc = "live" /\ stream' = [stream EXCEPT ![s].pc = "gone"]
        BY <2>3 DEF ClientDone
      <3>2. Reader("gone", st.open, st.written, st.backlog, st.live, r.events, r.completed, s \in r.subscribers)
        BY <1>2, <3>1, ReaderLeaves
      <3>. QED
        BY <3>1, <3>2
    <2>. QED
      BY <2>1, <2>2, <2>3
  <1>4. PICK pc2 \in {"live", "error", "gone"} :
          /\ stream' = [stream EXCEPT ![s].pc = pc2]
          /\ Reader(pc2, st.open, st.written, st.backlog, st.live, r.events, r.completed, s \in r.subscribers)
    BY <1>3
  <1>. DEFINE st2 == [st EXCEPT !.pc = pc2]
  <1>5. /\ st2 \in StreamState /\ st2.pc = pc2 /\ st2.job = st.job /\ st2.open = st.open
        /\ st2.written = st.written /\ st2.backlog = st.backlog /\ st2.live = st.live
    BY <1>1 DEF StreamState, StreamPcs
  <1>6. stream' = [stream EXCEPT ![s] = st2]
    BY <1>4
  <1>. HIDE DEF st2
  <1>7. ReaderInv(s, st2, r)
    BY <1>4, <1>5 DEF ReaderInv
  <1>8. registry' \in SUBSET registry /\ RetainedUntilAged'
    BY <1>1 DEF IInv, RetainedUntilAged, Scheduled
  <1>. QED
    BY <1>1, <1>2, <1>5, <1>6, <1>7, <1>8, OneStream DEF Attached

\* A lookup, with its sweep, preserves the invariant.
LEMMA LookupPreserves ==
  ASSUME IInv, NEW s \in Streams, NEW j \in Jobs, Lookup(s, j)
  PROVE  IInv'
  <1>. DEFINE st == stream[s]
             st2 == [st EXCEPT !.pc = IF j \in Swept THEN "found" ELSE "unknown", !.job = j]
  <1>1. /\ st.pc = "idle" /\ stream' = [stream EXCEPT ![s] = st2] /\ registry' = Swept
        /\ UNCHANGED <<job, worker, gone, shutdown, now>>
    BY DEF Lookup
  <1>2. st \in StreamState /\ Len(st.live) <= SubscriberBuffer /\ Fresh(st)
    BY <1>1, TypesOfStream DEF IInv, StreamInv
  <1>3. /\ st2 \in StreamState /\ st2.pc = (IF j \in Swept THEN "found" ELSE "unknown") /\ st2.job = j
        /\ st2.open = st.open /\ st2.written = st.written /\ st2.backlog = st.backlog /\ st2.live = st.live
    BY <1>2 DEF StreamState, StreamPcs
  <1>4. Fresh(st2) /\ ~st.open
    BY <1>2, <1>3 DEF Fresh
  <1>5. j \in Swept => worker[j].pc # "off"
    BY DEF IInv, JobInv, WorkerInStep, Swept
  <1>6. registry' \in SUBSET registry /\ RetainedUntilAged'
    BY <1>1, SweepRetains
  <1>. HIDE DEF st2
  <1>. QED
    BY <1>1, <1>2, <1>3, <1>4, <1>5, <1>6, OneStream DEF Attached, Reading

\* Subscribing, before or after the job completed, preserves the invariant.
LEMMA SubscribePreserves ==
  ASSUME IInv, NEW s \in Streams, Subscribe(s)
  PROVE  IInv'
  <1>. DEFINE st == stream[s]
             j == st.job
             r == job[j]
             st2 == [st EXCEPT !.pc = "backlog", !.backlog = r.events, !.open = ~r.completed]
             r2 == [r EXCEPT !.subscribers = r.subscribers \cup {s}]
  <1>1. /\ st.pc = "found" /\ stream' = [stream EXCEPT ![s] = st2]
        /\ job' = IF r.completed THEN job ELSE [job EXCEPT ![j] = r2]
        /\ UNCHANGED <<registry, worker, gone, shutdown, now>>
    BY DEF Subscribe
  <1>2. /\ TypeOK /\ RetainedUntilAged /\ (\A k \in Jobs : JobInv(k)) /\ (\A t \in Streams : StreamInv(t))
        /\ st \in StreamState /\ Len(st.live) <= SubscriberBuffer
    BY TypesOfStream DEF IInv
  <1>3. /\ j \in Jobs /\ worker[j].pc # "off" /\ r \in Job /\ r.events \in Seq(Events)
        /\ r.subscribers \subseteq Streams /\ r.completed \in BOOLEAN
    BY <1>1, <1>2, AtJob, TypesOfJob DEF Attached
  <1>4. st.written = <<>> /\ st.live = <<>> /\ ~st.open
    BY <1>1, <1>2 DEF StreamInv, Fresh
  <1>5. /\ st2 \in StreamState /\ st2.pc = "backlog" /\ st2.job = j /\ st2.open = ~r.completed
        /\ st2.written = <<>> /\ st2.backlog = r.events /\ st2.live = <<>>
    BY <1>2, <1>3, <1>4 DEF StreamState, StreamPcs
  <1>6. /\ r2 \in Job /\ r2.events = r.events /\ r2.completed = r.completed /\ r2.entries = r.entries
        /\ r2.subscribers = r.subscribers \cup {s} /\ r2.completedAt = r.completedAt
    BY <1>3 DEF Job
  <1>. HIDE DEF st2, r2
  <1>7. /\ stream' \in [Streams -> StreamState] /\ stream'[s] = st2
        /\ \A t \in Streams \ {s} : stream'[t] = stream[t]
    BY <1>1, <1>2, <1>5 DEF TypeOK
  <1>8. /\ job' \in [Jobs -> Job]
        /\ \A k \in Jobs : /\ job'[k].events = job[k].events /\ job'[k].completed = job[k].completed
                           /\ job'[k].entries = job[k].entries /\ job'[k].completedAt = job[k].completedAt
        /\ \A k \in Jobs \ {j} : job'[k] = job[k]
        /\ job'[j].subscribers = IF r.completed THEN r.subscribers ELSE r.subscribers \cup {s}
    <2>1. job \in [Jobs -> Job]
      BY <1>2 DEF TypeOK
    <2>. QED
      BY <1>1, <1>3, <1>6, <2>1
  <1>9. TypeOK'
    <2>1. \A t \in Streams : Len(stream'[t].live) <= SubscriberBuffer
      BY <1>2, <1>4, <1>5, <1>7 DEF TypeOK
    <2>. QED
      BY <1>1, <1>2, <1>7, <1>8, <2>1 DEF TypeOK
  <1>10. ASSUME NEW k \in Jobs PROVE JobInv(k)'
    <2>1. Recorded(job'[k])
      <3>1. Recorded(job[k])
        BY <1>2 DEF JobInv
      <3>2. /\ job'[k].events = job[k].events /\ job'[k].entries = job[k].entries
            /\ job'[k].completed = job[k].completed
        BY <1>8
      <3>3. Finished(job'[k]) = Finished(job[k])
        BY <3>2 DEF Finished
      <3>. HIDE DEF r, j, st
      <3>4. HowMany(job'[k], "success") = HowMany(job[k], "success")
            /\ HowMany(job'[k], "failed") = HowMany(job[k], "failed")
        BY <3>2 DEF HowMany
      <3>. QED
        BY <3>1, <3>2, <3>3, <3>4 DEF Recorded
    <2>2. WorkerInStep(k)'
      BY <1>1, <1>2, <1>3, <1>8 DEF JobInv, WorkerInStep
    <2>3. SubscribersAreOpen(k)'
      <3>1. ASSUME NEW t \in job'[k].subscribers
            PROVE  stream'[t].job = k /\ stream'[t].open /\ ~job'[k].completed
        <4>1. CASE t \in job[k].subscribers
          <5>1. t \in Streams /\ stream[t].job = k /\ stream[t].open /\ ~job[k].completed
            BY <4>1, Subscriber
          <5>. QED
            BY <1>4, <1>7, <1>8, <5>1
        <4>2. CASE t \notin job[k].subscribers
          <5>1. k = j /\ t = s /\ ~r.completed
            BY <1>8, <3>1, <4>2
          <5>. QED
            BY <1>5, <1>7, <1>8, <5>1
        <4>. QED
          BY <4>1, <4>2
      <3>. QED
        BY <3>1 DEF SubscribersAreOpen
    <2>. QED
      BY <2>1, <2>2, <2>3 DEF JobInv
  <1>11. ASSUME NEW t \in Streams PROVE StreamInv(t)'
    <2>1. CASE t = s
      <3>1. s \in job'[j].subscribers \/ r.completed
        BY <1>8
      <3>2. /\ Reads(<<>>, r.events, <<>>, r.events) /\ Position(<<>>, r.events, <<>>) = Len(r.events)
            /\ \A i \in 1..Len(<<>>) : FALSE
        BY <1>3, ReadsStart, EmptySeq
      <3>3. ReaderInv(s, st2, job'[j])
        <4>1. job'[j].events = r.events /\ job'[j].completed = r.completed /\ r.completed \in BOOLEAN
          BY <1>3, <1>8
        <4>. HIDE DEF r, j, st
        <4>2. CASE r.completed
          BY <1>5, <3>2, <4>1, <4>2 DEF ReaderInv, Reader
        <4>3. CASE ~r.completed
          BY <1>5, <3>1, <3>2, <4>1, <4>3 DEF ReaderInv, Reader
        <4>. QED
          BY <4>1, <4>2, <4>3
      <3>. QED
        BY <1>1, <1>3, <1>5, <1>7, <2>1, <3>3 DEF StreamInv
    <2>2. CASE t # s
      <3>1. stream'[t] = stream[t] /\ StreamInv(t)
        BY <1>2, <1>7, <2>2
      <3>2. ASSUME stream[t].pc \in Reading
            PROVE  ReaderInv(t, stream[t], job'[stream[t].job])
        <4>1. stream[t].job \in Jobs /\ ReaderInv(t, stream[t], job[stream[t].job])
          BY <3>1, <3>2 DEF StreamInv, Reading, Attached
        <4>2. (t \in job'[stream[t].job].subscribers) <=> (t \in job[stream[t].job].subscribers)
          BY <1>8, <2>2, <4>1
        <4>. QED
          BY <1>8, <4>1, <4>2 DEF ReaderInv, Reader
      <3>. QED
        BY <1>1, <3>1, <3>2 DEF StreamInv, Fresh
    <2>. QED
      BY <2>1, <2>2
  <1>12. RetainedUntilAged'
    BY <1>1, <1>2, <1>8 DEF RetainedUntilAged, Scheduled
  <1>. QED
    BY <1>9, <1>10, <1>11, <1>12 DEF IInv

\* So do the steps that leave jobs, workers and streams alone.
LEMMA RestPreserves ==
  ASSUME IInv, \/ Status \/ ShutdownBegins \/ ShutdownDrained \/ ShutdownForced \/ Tick
               \/ \E s \in Streams : Disconnect(s)
  PROVE  IInv'
  <1>1. /\ TypeOK /\ RetainedUntilAged /\ (\A k \in Jobs : JobInv(k)) /\ (\A t \in Streams : StreamInv(t))
    BY DEF IInv
  <1>2. UNCHANGED <<job, worker, stream>>
    BY DEF Status, ShutdownBegins, ShutdownDrained, ShutdownForced, Tick, Disconnect, ShutdownOnly
  <1>3. registry' \in SUBSET registry /\ RetainedUntilAged'
    <2>1. CASE Status
      BY <2>1, SweepRetains DEF Status
    <2>2. CASE Tick
      <3>1. registry' = registry /\ now \in Nat /\ now' = now + 1
        BY <1>1, <2>2 DEF Tick, TypeOK
      <3>2. ASSUME NEW j \in Jobs, worker[j].pc # "off", j \notin registry
            PROVE  worker[j].pc = "done" /\ now + 1 >= job[j].completedAt + Retention
        <4>1. worker[j].pc = "done" /\ now >= job[j].completedAt + Retention
          BY <1>1, <3>2 DEF RetainedUntilAged, Scheduled
        <4>2. PICK c \in Nat : job[j].completedAt = c
          BY <1>1, TypesOfJob
        <4>3. now + 1 >= c + Retention
          BY <3>1, <4>1, <4>2, RetentionPositive
        <4>. QED
          BY <4>1, <4>2, <4>3
      <3>. QED
        BY <1>2, <3>1, <3>2 DEF RetainedUntilAged, Scheduled
    <2>3. CASE UNCHANGED <<registry, now>>
      BY <1>1, <1>2, <2>3 DEF RetainedUntilAged, Scheduled
    <2>. QED
      BY <2>1, <2>2, <2>3 DEF ShutdownBegins, ShutdownDrained, ShutdownForced, Disconnect, ShutdownOnly
  <1>4. TypeOK'
    BY <1>1, <1>2, <1>3
       DEF TypeOK, Status, ShutdownBegins, ShutdownDrained, ShutdownForced, Tick, Disconnect, ShutdownOnly
  <1>5. ASSUME NEW k \in Jobs PROVE JobInv(k)'
    BY <1>1, <1>2, <1>3 DEF JobInv, WorkerInStep, SubscribersAreOpen
  <1>6. ASSUME NEW t \in Streams PROVE StreamInv(t)'
    BY <1>1, <1>2 DEF StreamInv, Fresh, ReaderInv
  <1>. QED
    BY <1>3, <1>4, <1>5, <1>6 DEF IInv

-----------------------------------------------------------------------------
(* The theorems.                                                           *)

\* The invariant holds before the first request.
LEMMA InitIInv == Init => IInv
  <1>. SUFFICES ASSUME Init PROVE IInv
    OBVIOUS
  <1>1. /\ \A j \in Jobs : job[j] = NewJob(0) /\ worker[j].pc = "off" /\ j \notin registry
        /\ \A s \in Streams : stream[s] = NoStream
    BY DEF Init
  <1>2. /\ NewJob(0).entries = <<>> /\ NewJob(0).events = <<>> /\ NewJob(0).subscribers = {}
        /\ NewJob(0).completed = FALSE /\ NewJob(0).completedAt = 0 /\ Len(<<>>) = 0
    BY EmptySeq DEF NewJob
  <1>3. NewJob(0) \in Job /\ NoStream \in StreamState /\ Len(NoStream.live) <= SubscriberBuffer
    BY <1>2, EmptySeq, SubscriberBufferPositive DEF NewJob, Job, NoStream, StreamState, StreamPcs
  <1>4. TypeOK
    BY <1>1, <1>3 DEF Init, TypeOK, WorkerState, WorkerPcs, Results
  <1>5. Recorded(NewJob(0))
    <2>1. 0 <= MaxEntries /\ 0 \in 0..0 /\ (\A i \in 1..0 : FALSE) /\ \A i \in (0 + 1)..0 : FALSE
      BY MaxEntriesPositive
    <2>2. Finished(NewJob(0)) = 0
      BY <1>2 DEF Finished
    <2>. QED
      BY <1>2, <2>1, <2>2 DEF Recorded
  <1>6. ASSUME NEW j \in Jobs PROVE JobInv(j)
    BY <1>1, <1>2, <1>5 DEF JobInv, WorkerInStep, SubscribersAreOpen
  <1>7. ASSUME NEW s \in Streams PROVE StreamInv(s)
    BY <1>1 DEF StreamInv, NoStream, Fresh, Attached, Reading
  <1>8. RetainedUntilAged
    BY <1>1 DEF RetainedUntilAged, Scheduled
  <1>. QED
    BY <1>4, <1>6, <1>7, <1>8 DEF IInv

\* The types and the invariant they rest on hold in every state.
THEOREM Invariant == Spec => []IInv
  <1>1. IInv /\ [Next]_vars => IInv'
    <2>. SUFFICES ASSUME IInv, [Next]_vars PROVE IInv'
      OBVIOUS
    <2>1. ASSUME NEW j \in Jobs, RunJob(j) PROVE IInv'
      BY <2>1, WorkerOnlyPreserves, AppendPreserves, FinishPreserves DEF RunJob
    <2>2. ASSUME NEW j \in Jobs, NEW n \in 1..MaxEntries, Schedule(j, n) PROVE IInv'
      BY <2>2, SchedulePreserves
    <2>3. ASSUME NEW s \in Streams, Serve(s) PROVE IInv'
      BY <2>3, SubscribePreserves, WriteBacklogPreserves, WriteLivePreserves, TurnPreserves DEF Serve
    <2>4. ASSUME NEW s \in Streams, NEW j \in Jobs, Lookup(s, j) PROVE IInv'
      BY <2>4, LookupPreserves
    <2>5. CASE \/ Status \/ ShutdownBegins \/ ShutdownDrained \/ ShutdownForced \/ Tick
               \/ \E s \in Streams : Disconnect(s)
      BY <2>5, RestPreserves
    <2>6. CASE UNCHANGED vars
      BY <2>6 DEF vars, IInv, TypeOK, JobInv, WorkerInStep, SubscribersAreOpen, StreamInv, Fresh, ReaderInv,
                  RetainedUntilAged, Scheduled
    <2>. QED
      BY <2>1, <2>2, <2>3, <2>4, <2>5, <2>6 DEF Next
  <1>. QED
    BY InitIInv, <1>1, PTL DEF Spec

\* Every variable keeps its type: no log outgrows one event per entry and the summary, and no
\* channel its buffer.
THEOREM TypeCorrect == Spec => []TypeOK
  <1>1. IInv => TypeOK
    BY DEF IInv
  <1>. QED
    BY Invariant, <1>1, PTL

\* A job leaves the registry only when its worker is done and it is Retention old, whatever
\* sweeps run and however long it took.
THEOREM RetainedUntilAgedHolds == Spec => []RetainedUntilAged
  <1>1. IInv => RetainedUntilAged
    BY DEF IInv
  <1>. QED
    BY Invariant, <1>1, PTL

\* No handler is left waiting on a channel that nobody will close.
THEOREM NoStreamStrandedHolds == Spec => []NoStreamStranded
  <1>1. IInv => NoStreamStranded
    <2>. SUFFICES ASSUME IInv, NEW s \in Streams, stream[s].open
                  PROVE  ~job[stream[s].job].completed /\ s \in job[stream[s].job].subscribers
      BY DEF NoStreamStranded
    <2>1. stream[s].job \in Jobs /\ s \in job[stream[s].job].subscribers
      BY OpenReader
    <2>. QED
      BY <2>1, Subscriber
  <1>. QED
    BY Invariant, <1>1, PTL

\* The status endpoint and the log agree on a recorded job.
LEMMA RecordedAgrees ==
  ASSUME IInv, NEW j \in Jobs
  PROVE  LET entries == job[j].entries
             events == job[j].events
             finished == {i \in DOMAIN entries : entries[i] # "pending"}
         IN  /\ \A i \in finished : i \in DOMAIN events /\ events[i] = Progress(i, entries[i])
             /\ Len(events) = Cardinality(finished) + IF job[j].completed THEN 1 ELSE 0
             /\ job[j].completed =>
                  /\ finished = DOMAIN entries
                  /\ events[Len(events)] = Summary(Counted(j, "success"), Counted(j, "failed"))
                  /\ events[Len(events)].succeeded + events[Len(events)].failed = Len(entries)
  <1>. DEFINE r == job[j]
             finished == {i \in DOMAIN r.entries : r.entries[i] # "pending"}
  <1>1. /\ Recorded(r) /\ r.completed \in BOOLEAN /\ r.entries \in Seq(EntryStatus)
        /\ r.events \in Seq(Events)
    BY TypesOfJob DEF IInv, JobInv
  <1>. HIDE DEF r
  <1>2. PICK n \in Nat, m \in Nat : Len(r.events) = n /\ Len(r.entries) = m
    BY <1>1, LenProperties
  <1>3. DOMAIN r.entries = 1..m /\ DOMAIN r.events = 1..n
    BY <1>1, <1>2, LenProperties
  <1>4. PICK f \in 0..m : Finished(r) = f
    BY <1>1, <1>2 DEF Recorded
  <1>5. n = f + (IF r.completed THEN 1 ELSE 0)
    BY <1>2, <1>4 DEF Finished
  <1>6. finished = 1..f
    <2>1. \A i \in 1..f : i \in 1..m /\ r.entries[i] # "pending"
      BY <1>1, <1>4 DEF Recorded, Results
    <2>2. \A i \in (f + 1)..m : r.entries[i] = "pending"
      BY <1>1, <1>2, <1>4 DEF Recorded
    <2>3. \A i \in 1..m : i \in 1..f \/ i \in (f + 1)..m
      BY <1>4
    <2>. QED
      BY <1>3, <2>1, <2>2, <2>3
  <1>7. Cardinality(finished) = f
    <2>1. Cardinality(1..f) = f
      BY <1>4, FS_Interval
    <2>. QED
      BY <1>6, <2>1
  <1>8. \A i \in 1..f : i \in 1..n /\ r.events[i] = Progress(i, r.entries[i])
    BY <1>1, <1>4, <1>5 DEF Recorded
  <1>9. ASSUME r.completed
        PROVE  /\ f = m /\ r.events[n] = Summary(HowMany(r, "success"), HowMany(r, "failed"))
               /\ r.events[n].succeeded + r.events[n].failed = m
    <2>1. PICK a \in 0..MaxEntries, b \in 0..MaxEntries :
            /\ r.events[n] = Summary(a, b) /\ a + b = m
            /\ a = HowMany(r, "success") /\ b = HowMany(r, "failed")
      BY <1>1, <1>2, <1>9 DEF Recorded
    <2>2. /\ Summary(a, b).kind = "summary" /\ Summary(a, b).succeeded = a
          /\ Summary(a, b).failed = b
      BY DEF Summary
    <2>3. f = m
      BY <1>1, <1>2, <1>4, <1>9 DEF Recorded
    <2>. QED
      BY <2>1, <2>2, <2>3
  <1>10. HowMany(r, "success") = Counted(j, "success") /\ HowMany(r, "failed") = Counted(j, "failed")
    BY DEF HowMany, Counted, r
  <1>. HIDE DEF finished
  <1>. QED
    BY <1>2, <1>3, <1>5, <1>6, <1>7, <1>8, <1>9, <1>10 DEF r, finished

\* What a reader is shown is the job as it is: the status endpoint, a stream that ended with
\* the summary and one that ended with an error frame all agree with the log.
THEOREM ReadersSeeTheJobHolds == Spec => []ReadersSeeTheJob
  <1>1. ASSUME IInv PROVE StatusAgreesWithLog
    BY <1>1, RecordedAgrees DEF StatusAgreesWithLog
  <1>2. ASSUME IInv PROVE SummaryEndsTheWholeLog
    <2>. SUFFICES ASSUME NEW s \in Streams, stream[s].pc = "summary"
                  PROVE  job[stream[s].job].completed /\ stream[s].written = job[stream[s].job].events
      BY DEF SummaryEndsTheWholeLog
    <2>. DEFINE w == stream[s].written
               log == job[stream[s].job].events
    <2>1. /\ w \in Seq(Events) /\ log \in Seq(Events)
          /\ ReaderInv(s, stream[s], job[stream[s].job])
      BY <1>2, AtJob, TypesOfStream DEF IInv, Attached, Reading
    <2>2. /\ job[stream[s].job].completed /\ Len(w) = Len(log)
          /\ \A i \in 1..Len(w) : w[i] = log[i]
      BY <2>1 DEF ReaderInv, Reader, Reads
    <2>. HIDE DEF w, log
    <2>3. w = log
      BY <2>1, <2>2, SeqEqual
    <2>. QED
      BY <2>2, <2>3 DEF w, log
  <1>3. ASSUME IInv PROVE ErrorOnlyWhenBehind
    <2>. SUFFICES ASSUME NEW s \in Streams, stream[s].pc = "error"
                  PROVE  /\ Len(stream[s].written) >= SubscriberBuffer
                         /\ Len(stream[s].written) < Len(job[stream[s].job].events)
      BY DEF ErrorOnlyWhenBehind
    <2>1. /\ stream[s].written \in Seq(Events) /\ ReaderInv(s, stream[s], job[stream[s].job])
      BY <1>3, AtJob, TypesOfStream DEF IInv, Attached, Reading
    <2>2. Len(stream[s].written) \in Nat
      BY <2>1, LenProperties
    <2>3. /\ SubscriberBuffer <= Len(stream[s].written)
          /\ Len(stream[s].written) < Len(job[stream[s].job].events)
      BY <2>1 DEF ReaderInv, Reader
    <2>. QED
      BY <2>2, <2>3, SubscriberBufferPositive
  <1>4. IInv => ReadersSeeTheJob
    BY <1>1, <1>2, <1>3 DEF ReadersSeeTheJob
  <1>. QED
    BY Invariant, <1>4, PTL

-----------------------------------------------------------------------------
(* Refinement of the feed.                                                 *)

\* The first request sees an empty feed.
LEMMA InitRefines == Init => Feed!Init
  <1>. SUFFICES ASSUME Init PROVE Feed!Init
    OBVIOUS
  <1>1. \A j \in Jobs : job[j].events = <<>>
    BY DEF Init, NewJob
  <1>2. \A s \in Streams : FeedOf(stream[s]) = Feed!Unread
    BY DEF Init, NoStream, FeedOf, Feed!Unread
  <1>. QED
    BY <1>1, <1>2 DEF Feed!Init

\* Whatever a stream writes is the next event of its job's log.
LEMMA WritesNext ==
  ASSUME IInv, NEW s \in Streams, WriteBacklog(s) \/ WriteLive(s)
  PROVE  LET st == stream[s]
             n == Len(st.written) + 1
             log == job[st.job].events
         IN  /\ st.pc \in {"backlog", "live"} /\ st.job \in Jobs /\ n \in 1..Len(log)
             /\ job' = job /\ \A t \in Streams \ {s} : stream'[t] = stream[t]
             /\ stream'[s].written = Append(st.written, log[n]) /\ stream'[s].job = st.job
             /\ stream'[s].pc = IF log[n].kind = "summary" THEN "summary" ELSE st.pc
  <1>. DEFINE st == stream[s]
             r == job[st.job]
  <1>1. /\ st \in StreamState /\ st.written \in Seq(Events) /\ st.backlog \in Seq(Events)
        /\ st.live \in Seq(Events) /\ stream \in [Streams -> StreamState]
    BY TypesOfStream DEF IInv, TypeOK
  <1>2. st.pc \in {"backlog", "live"} /\ job' = job
    BY DEF WriteBacklog, WriteLive, StreamOnly
  <1>3. /\ st.job \in Jobs /\ r.events \in Seq(Events)
        /\ Reads(st.written, st.backlog, st.live, r.events) /\ (st.pc = "live" => st.backlog = <<>>)
    BY <1>2, AtJob DEF Attached, Reading, ReaderInv, Reader
  <1>4. CASE WriteBacklog(s)
    <2>. DEFINE h == Head(st.backlog)
               x == Wrote(st, h)
               st2 == [x EXCEPT !.backlog = Tail(st.backlog)]
    <2>1. st.backlog # <<>> /\ stream' = [stream EXCEPT ![s] = st2]
      BY <1>4 DEF WriteBacklog
    <2>2. /\ Len(st.written) + 1 \in 1..Len(r.events) /\ h = r.events[Len(st.written) + 1]
          /\ h \in Events
      BY <1>1, <1>3, <2>1, ReadsBacklog
    <2>3. /\ x \in StreamState /\ x.written = Append(st.written, h) /\ x.job = st.job
          /\ x.pc = (IF h.kind = "summary" THEN "summary" ELSE st.pc)
      <3>1. st \in StreamState /\ h \in Events
        BY <1>1, <2>2
      <3>. HIDE DEF st, h
      <3>. QED
        BY <3>1, WroteFields
    <2>. HIDE DEF x
    <2>4. st2.written = Append(st.written, h) /\ st2.job = st.job
          /\ st2.pc = (IF h.kind = "summary" THEN "summary" ELSE st.pc)
      BY <2>3 DEF StreamState
    <2>. HIDE DEF st2
    <2>5. stream'[s] = st2 /\ \A t \in Streams \ {s} : stream'[t] = stream[t]
      BY <1>1, <2>1
    <2>. QED
      BY <1>2, <1>3, <2>2, <2>4, <2>5
  <1>5. CASE WriteLive(s)
    <2>. DEFINE h == Head(st.live)
               x == Wrote(st, h)
               st2 == [x EXCEPT !.live = Tail(st.live)]
    <2>1. st.pc = "live" /\ st.live # <<>> /\ stream' = [stream EXCEPT ![s] = st2]
      BY <1>5 DEF WriteLive
    <2>2. /\ Len(st.written) + 1 \in 1..Len(r.events) /\ h = r.events[Len(st.written) + 1]
          /\ h \in Events
      BY <1>1, <1>3, <2>1, ReadsLive
    <2>3. /\ x \in StreamState /\ x.written = Append(st.written, h) /\ x.job = st.job
          /\ x.pc = (IF h.kind = "summary" THEN "summary" ELSE st.pc)
      <3>1. st \in StreamState /\ h \in Events
        BY <1>1, <2>2
      <3>. HIDE DEF st, h
      <3>. QED
        BY <3>1, WroteFields
    <2>. HIDE DEF x
    <2>4. st2.written = Append(st.written, h) /\ st2.job = st.job
          /\ st2.pc = (IF h.kind = "summary" THEN "summary" ELSE st.pc)
      BY <2>3 DEF StreamState
    <2>. HIDE DEF st2
    <2>5. stream'[s] = st2 /\ \A t \in Streams \ {s} : stream'[t] = stream[t]
      BY <1>1, <2>1
    <2>. QED
      BY <1>2, <1>3, <2>2, <2>4, <2>5
  <1>. QED
    BY <1>4, <1>5

\* The feed that the registry implements.
Log == [j \in Jobs |-> job[j].events]
Feeds == [s \in Streams |-> FeedOf(stream[s])]

\* A step that leaves every log alone, and of every stream what the feed shows, is not one
\* of the feed's.
LEMMA Stutter ==
  ASSUME \A j \in Jobs : job'[j].events = job[j].events,
         \A s \in Streams : FeedOf(stream[s])' = FeedOf(stream[s])
  PROVE  Log' = Log /\ Feeds' = Feeds
  BY DEF Log, Feeds

\* What the feed shows of a stream is its progress, its job and what it wrote.
LEMMA SameFeed ==
  ASSUME NEW a, NEW b, a.pc = b.pc, a.job = b.job, a.written = b.written
  PROVE  FeedOf(a) = FeedOf(b)
  BY DEF FeedOf

\* A step of a worker that adds an event publishes it.
LEMMA PublishRefines ==
  ASSUME IInv, NEW j \in Jobs, NEW ev \in Events, ~job[j].completed,
         job'[j].events = Append(job[j].events, ev),
         \A k \in Jobs \ {j} : job'[k] = job[k],
         \A s \in Streams : /\ stream'[s].pc = stream[s].pc /\ stream'[s].job = stream[s].job
                            /\ stream'[s].written = stream[s].written
  PROVE  Feed!Publish(j)
  <1>1. Log' = [Log EXCEPT ![j] = Append(Log[j], ev)]
    BY DEF Log
  <1>2. Feeds' = Feeds
    BY SameFeed DEF Feeds
  <1>3. ~Feed!Closed(j)
    <2>1. job[j] \in Job /\ Recorded(job[j]) /\ job[j].events \in Seq(Events)
      BY TypesOfJob DEF IInv, JobInv
    <2>2. Sealed(job[j].events, job[j].completed)
      BY <2>1, RecordedIsSealed
    <2>3. ASSUME job[j].events # <<>> PROVE job[j].events[Len(job[j].events)].kind # "summary"
      <3>1. Len(job[j].events) \in 1..Len(job[j].events)
        BY <2>1, <2>3, EmptySeq, LenProperties
      <3>. QED
        BY <2>2, <3>1 DEF Sealed
    <2>. QED
      BY <2>3 DEF Feed!Closed
  <1>. QED
    BY <1>1, <1>2, <1>3 DEF Feed!Publish, Log, Feeds

\* A write is the feed's Read.
LEMMA WriteRefines ==
  ASSUME IInv, NEW s \in Streams, WriteBacklog(s) \/ WriteLive(s)
  PROVE  Feed!Read(s)
  <1>. DEFINE st == stream[s]
             j == st.job
             n == Len(st.written) + 1
             log == job[j].events
  <1>1. /\ st.pc \in {"backlog", "live"} /\ j \in Jobs /\ n \in 1..Len(log)
        /\ job' = job /\ \A t \in Streams \ {s} : stream'[t] = stream[t]
        /\ stream'[s].written = Append(st.written, log[n]) /\ stream'[s].job = j
        /\ stream'[s].pc = IF log[n].kind = "summary" THEN "summary" ELSE st.pc
    BY WritesNext
  <1>2. n <= Len(log)
    <2>1. log \in Seq(Events) /\ st.written \in Seq(Events)
      BY <1>1, TypesOfJob, TypesOfStream DEF IInv
    <2>2. PICK m \in Nat : Len(log) = m
      BY <2>1, LenProperties
    <2>. HIDE DEF n
    <2>. QED
      BY <1>1, <2>2
  <1>3. /\ Feeds[s].status = "open" /\ Feeds[s].job = j /\ Feeds[s].seen = st.written
        /\ Log[j] = log
    BY <1>1 DEF Feeds, FeedOf, Log
  <1>. HIDE DEF n, log
  <1>4. FeedOf(stream'[s]) = [status |-> IF log[n].kind = "summary" THEN "complete" ELSE "open",
                             job |-> j, seen |-> Append(st.written, log[n])]
    BY <1>1 DEF FeedOf
  <1>5. Feeds' = [Feeds EXCEPT ![s] = [status |-> IF log[n].kind = "summary" THEN "complete" ELSE "open",
                                       job |-> j, seen |-> Append(st.written, log[n])]]
    BY <1>1, <1>4 DEF Feeds
  <1>6. Log' = Log
    BY <1>1 DEF Log
  <1>. QED
    BY <1>2, <1>3, <1>5, <1>6 DEF Feed!Read, Feeds, Log, n

\* A stream that ends without the summary is cut.
LEMMA CutRefines ==
  ASSUME IInv, NEW s \in Streams, StreamClosed(s) \/ ClientDone(s)
  PROVE  Feed!Cut(s)
  <1>1. PICK pc2 \in {"error", "gone"} : stream' = [stream EXCEPT ![s].pc = pc2]
    BY DEF StreamClosed, ClientDone
  <1>2. stream[s].pc = "live" /\ job' = job
    BY DEF StreamClosed, ClientDone, StreamOnly
  <1>3. stream \in [Streams -> StreamState] /\ stream[s] \in StreamState
    BY DEF IInv, TypeOK
  <1>4. /\ stream'[s].pc = pc2 /\ stream'[s].job = stream[s].job
        /\ stream'[s].written = stream[s].written
        /\ \A t \in Streams \ {s} : stream'[t] = stream[t]
    BY <1>1, <1>3 DEF StreamState
  <1>5. /\ FeedOf(stream[s]) = [status |-> "open", job |-> stream[s].job, seen |-> stream[s].written]
        /\ FeedOf(stream'[s]) = [status |-> "cut", job |-> stream[s].job, seen |-> stream[s].written]
    BY <1>2, <1>4 DEF FeedOf
  <1>6. Feeds[s].status = "open" /\ Feeds' = [Feeds EXCEPT ![s].status = "cut"]
    <2>1. Feeds[s] = [status |-> "open", job |-> stream[s].job, seen |-> stream[s].written]
      BY <1>5 DEF Feeds
    <2>2. [Feeds[s] EXCEPT !.status = "cut"] = FeedOf(stream'[s])
      BY <1>5, <2>1
    <2>3. Feeds' = [Feeds EXCEPT ![s] = FeedOf(stream'[s])]
      BY <1>4 DEF Feeds
    <2>4. [Feeds EXCEPT ![s].status = "cut"] = [Feeds EXCEPT ![s] = [Feeds[s] EXCEPT !.status = "cut"]]
      OBVIOUS
    <2>5. Feeds' = [Feeds EXCEPT ![s].status = "cut"]
      BY <2>2, <2>3, <2>4, Zenon
    <2>. QED
      BY <2>1, <2>5
  <1>7. Log' = Log
    BY <1>2 DEF Log
  <1>. QED
    BY <1>6, <1>7 DEF Feed!Cut, Feeds, Log

\* Subscribing opens the feed.
LEMMA SubscribeRefines ==
  ASSUME IInv, NEW s \in Streams, Subscribe(s)
  PROVE  \E j \in Jobs : Feed!Open(s, j)
  <1>. DEFINE j == stream[s].job
  <1>1. stream[s].pc = "found" /\ j \in Jobs /\ stream[s].written = <<>>
    BY AtJob DEF Subscribe, Attached, IInv, StreamInv, Fresh
  <1>2. stream \in [Streams -> StreamState] /\ stream[s] \in StreamState /\ job \in [Jobs -> Job]
    BY DEF IInv, TypeOK
  <1>3. /\ stream'[s].pc = "backlog" /\ stream'[s].job = j /\ stream'[s].written = <<>>
        /\ \A t \in Streams \ {s} : stream'[t] = stream[t]
    BY <1>1, <1>2 DEF Subscribe, StreamState
  <1>4. \A k \in Jobs : job'[k].events = job[k].events
    <2>1. job' = job \/ job' = [job EXCEPT ![j].subscribers = job[j].subscribers \cup {s}]
      BY DEF Subscribe
    <2>. QED
      BY <1>2, <2>1 DEF Job
  <1>5. /\ FeedOf(stream[s]).status = "none"
        /\ FeedOf(stream'[s]) = [status |-> "open", job |-> j, seen |-> <<>>]
    BY <1>1, <1>3 DEF FeedOf
  <1>6. /\ Feeds[s].status = "none"
        /\ Feeds' = [Feeds EXCEPT ![s] = [status |-> "open", job |-> j, seen |-> <<>>]]
    BY <1>3, <1>5 DEF Feeds
  <1>7. Log' = Log
    BY <1>4 DEF Log
  <1>8. Feed!Open(s, j)
    BY <1>6, <1>7 DEF Feed!Open, Feeds, Log
  <1>. QED
    BY <1>1, <1>8

\* The other steps leave the feed alone.
LEMMA RestStutters ==
  ASSUME IInv, [Next]_vars,
         \A j \in Jobs : ~AppendAndFanOut(j) /\ ~FinishJob(j),
         \A s \in Streams : ~Subscribe(s) /\ ~WriteBacklog(s) /\ ~WriteLive(s)
                            /\ ~StreamClosed(s) /\ ~ClientDone(s)
  PROVE  Log' = Log /\ Feeds' = Feeds
  <1>1. /\ job \in [Jobs -> Job] /\ stream \in [Streams -> StreamState]
        /\ \A j \in Jobs : worker[j].pc = "off" => job[j].events = <<>>
    BY DEF IInv, TypeOK, JobInv, WorkerInStep, NewJob
  <1>2. ASSUME NEW j \in Jobs, NEW n \in 1..MaxEntries, Schedule(j, n)
        PROVE  Log' = Log /\ Feeds' = Feeds
    <2>1. job[j].events = <<>> /\ job' = [job EXCEPT ![j] = NewJob(n)] /\ stream' = stream
      BY <1>1, <1>2 DEF Schedule
    <2>2. NewJob(n).events = <<>>
      BY DEF NewJob
    <2>. QED
      BY <1>1, <2>1, <2>2 DEF Log, Feeds
  <1>3. ASSUME NEW s \in Streams, BacklogDone(s)
        PROVE  Log' = Log /\ Feeds' = Feeds
    <2>1. /\ stream[s].pc = "backlog" /\ stream' = [stream EXCEPT ![s].pc = "live"] /\ job' = job
      BY <1>3 DEF BacklogDone, StreamOnly
    <2>2. /\ stream'[s].pc = "live" /\ stream'[s].job = stream[s].job
          /\ stream'[s].written = stream[s].written
          /\ \A t \in Streams \ {s} : stream'[t] = stream[t]
      BY <1>1, <2>1 DEF StreamState
    <2>3. FeedOf(stream'[s]) = FeedOf(stream[s])
      BY <2>1, <2>2 DEF FeedOf
    <2>4. \A t \in Streams : FeedOf(stream'[t]) = FeedOf(stream[t])
      BY <2>2, <2>3
    <2>. QED
      BY <2>1, <2>4 DEF Log, Feeds
  <1>4. ASSUME NEW s \in Streams, NEW j \in Jobs, Lookup(s, j)
        PROVE  Log' = Log /\ Feeds' = Feeds
    <2>1. /\ stream[s].pc = "idle" /\ job' = job
          /\ stream' = [stream EXCEPT ![s].pc = IF j \in Swept THEN "found" ELSE "unknown", ![s].job = j]
      BY <1>4 DEF Lookup
    <2>2. /\ stream'[s].pc \in {"found", "unknown"}
          /\ \A t \in Streams \ {s} : stream'[t] = stream[t]
      BY <1>1, <2>1 DEF StreamState
    <2>3. FeedOf(stream'[s]) = FeedOf(stream[s])
      BY <2>1, <2>2 DEF FeedOf
    <2>4. \A t \in Streams : FeedOf(stream'[t]) = FeedOf(stream[t])
      BY <2>2, <2>3
    <2>. QED
      BY <2>1, <2>4 DEF Log, Feeds
  <1>5. CASE UNCHANGED <<job, stream>>
    BY <1>5 DEF Log, Feeds
  <1>. QED
    BY <1>2, <1>3, <1>4, <1>5
       DEF Next, RunJob, RunEntry, StampCompletion, Serve, Status, Disconnect, ShutdownBegins,
           ShutdownDrained, ShutdownForced, ShutdownOnly, Tick, vars

\* The registry with its channels, buffers and locks implements the feed: every stream reads
\* its job's one log from the beginning, in order, skipping and repeating nothing, and ends
\* with the summary or is cut.
THEOREM ImplementsFeedHolds == Spec => ImplementsFeed
  <1>1. ASSUME IInv, [Next]_vars PROVE [Feed!Next]_<<Log, Feeds>>
    <2>1. ASSUME NEW j \in Jobs, AppendAndFanOut(j) PROVE Feed!Publish(j)
      <3>1. PICK ev \in Events :
              /\ ~job[j].completed /\ job'[j].events = Append(job[j].events, ev)
              /\ \A k \in Jobs \ {j} : job'[k] = job[k]
        BY <1>1, <2>1, AppendChanges
      <3>2. \A s \in Streams : /\ stream'[s].pc = stream[s].pc /\ stream'[s].job = stream[s].job
                               /\ stream'[s].written = stream[s].written
        BY <1>1, <2>1, AppendToStream
      <3>. QED
        BY <1>1, <3>1, <3>2, PublishRefines
    <2>2. ASSUME NEW j \in Jobs, FinishJob(j) PROVE Feed!Publish(j)
      <3>1. PICK a \in 0..MaxEntries, b \in 0..MaxEntries : FinishedWith(j, a, b)
        BY <1>1, <2>2, FinishChanges
      <3>2. /\ ~job[j].completed /\ job'[j].events = Append(job[j].events, Summary(a, b))
            /\ Summary(a, b) \in Events /\ \A k \in Jobs \ {j} : job'[k] = job[k]
        BY <3>1 DEF FinishedWith
      <3>3. \A s \in Streams : /\ stream'[s].pc = stream[s].pc /\ stream'[s].job = stream[s].job
                               /\ stream'[s].written = stream[s].written
        BY <1>1, <2>2, FinishToStream
      <3>. QED
        BY <1>1, <3>2, <3>3, PublishRefines
    <2>3. ASSUME NEW s \in Streams, Subscribe(s) PROVE \E j \in Jobs : Feed!Open(s, j)
      BY <1>1, <2>3, SubscribeRefines
    <2>4. ASSUME NEW s \in Streams, WriteBacklog(s) \/ WriteLive(s) PROVE Feed!Read(s)
      BY <1>1, <2>4, WriteRefines
    <2>5. ASSUME NEW s \in Streams, StreamClosed(s) \/ ClientDone(s) PROVE Feed!Cut(s)
      BY <1>1, <2>5, CutRefines
    <2>6. CASE /\ \A j \in Jobs : ~AppendAndFanOut(j) /\ ~FinishJob(j)
               /\ \A s \in Streams : ~Subscribe(s) /\ ~WriteBacklog(s) /\ ~WriteLive(s)
                                     /\ ~StreamClosed(s) /\ ~ClientDone(s)
      BY <1>1, <2>6, RestStutters
    <2>. QED
      BY <2>1, <2>2, <2>3, <2>4, <2>5, <2>6 DEF Feed!Next
  <1>2. [Feed!Next]_<<Log, Feeds>> <=>
        [Feed!Next]_<<[j \in Jobs |-> job[j].events], [s \in Streams |-> FeedOf(stream[s])]>>
    BY DEF Log, Feeds
  <1>3. IInv /\ [Next]_vars =>
        [Feed!Next]_<<[j \in Jobs |-> job[j].events], [s \in Streams |-> FeedOf(stream[s])]>>
    BY <1>1, <1>2
  <1>. QED
    BY Invariant, InitRefines, <1>3, PTL DEF Spec, ImplementsFeed, Feed!Spec

=============================================================================
