------------------------- MODULE EventStream_proof -------------------------
(***************************************************************************)
(* Proofs about EventStream, for every length of the turn, every capacity  *)
(* of the two queues and every number of faults: the stream a browser is   *)
(* given has no silent hole, and a connection queues the events in order.  *)
(*                                                                         *)
(* The argument follows the frames.  A run of frames carries a connection  *)
(* from sequence l to sequence m when its events lie between them, in      *)
(* order, and none is skipped unless a stream.gap says so.  Runs compose   *)
(* (Compose), what the pump and a resume send are runs (PumpRun,           *)
(* ResumeRun), and the send queue is a run from what the browser has to    *)
(* _last_sequences (Line).                                                 *)
(***************************************************************************)
EXTENDS EventStream, SequenceTheorems, TLAPS

Frames == Seq(-1..End)

\* The frames fs lead from l towards m, for a browser that holds the events
\* of K already: in order, and nothing skipped without a stream.gap.
Part(K, fs, l, m) ==
    /\ fs \in Frames
    /\ \A i \in 1..Len(fs) :
           /\ fs[i] =< m
           /\ fs[i] > 0 => fs[i] > l /\ \A j \in 1..(i - 1) : fs[j] < fs[i]
    /\ \A i \in 1..Len(fs) : fs[i] > 0 =>
           \/ \E j \in 1..(i - 1) : fs[j] = Gap
           \/ \A n \in (l + 1)..(fs[i] - 1) : n \in K \/ \E j \in 1..(i - 1) : fs[j] = n

\* A connection that stands at l sends the frames fs and stands at m.
Run(K, fs, l, m) ==
    /\ Part(K, fs, l, m)
    /\ \/ \E j \in 1..Len(fs) : fs[j] = Gap
       \/ \A n \in (l + 1)..m : n \in K \/ \E j \in 1..Len(fs) : fs[j] = n

-----------------------------------------------------------------------------
LEMMA EmptyRun == ASSUME NEW K, NEW l \in 0..End PROVE Run(K, <<>>, l, l)
BY DEF Run, Part, Frames

LEMMA ControlRun == ASSUME NEW l \in 0..End PROVE Run({}, <<Control>>, l, l)
BY StreamAssumption DEF Run, Part, Frames, Control

LEMMA GapRun ==
    ASSUME NEW l \in 0..End, NEW m \in 0..End, l =< m
    PROVE  Run({}, <<Gap>>, l, m)
BY StreamAssumption DEF Run, Part, Frames, Gap

\* Runs compose.
LEMMA Compose ==
    ASSUME NEW l \in 0..End, NEW k \in 0..End, NEW m \in 0..End, l =< k, k =< m,
           NEW K, NEW fs, NEW gs, Run(K, fs, l, k), Run({}, gs, k, m)
    PROVE  Run(K, fs \o gs, l, m)
<1> DEFINE hs == fs \o gs
<1>1. fs \in Frames /\ gs \in Frames
  BY DEF Run, Part
<1>2. hs \in Frames /\ Len(fs) \in Nat /\ Len(gs) \in Nat /\ Len(hs) = Len(fs) + Len(gs)
  BY <1>1 DEF Frames
<1>3. \A i \in 1..(Len(fs) + Len(gs)) : hs[i] = IF i <= Len(fs) THEN fs[i] ELSE gs[i - Len(fs)]
  BY <1>1, ConcatProperties DEF Frames
<1> HIDE DEF hs
<1>4. /\ \A i \in 1..Len(fs) : fs[i] \in -1..End
      /\ \A i \in 1..Len(gs) : gs[i] \in -1..End
  BY <1>1, ElementOfSeq DEF Frames
<1>5. \A i \in 1..Len(fs) : hs[i] = fs[i] /\ fs[i] \in -1..End
  BY <1>2, <1>3, <1>4
<1>6. \A i \in 1..Len(gs) : hs[Len(fs) + i] = gs[i] /\ gs[i] \in -1..End
  <2> SUFFICES ASSUME NEW i \in 1..Len(gs) PROVE hs[Len(fs) + i] = gs[i]
    BY <1>4
  <2>1. /\ Len(fs) + i \in 1..(Len(fs) + Len(gs))
        /\ ~(Len(fs) + i <= Len(fs)) /\ (Len(fs) + i) - Len(fs) = i
    BY <1>2
  <2> QED BY <2>1, <1>3
<1>7. End \in Int /\ l \in Int /\ k \in Int /\ m \in Int
  BY StreamAssumption
<1>8. \A i \in (Len(fs) + 1)..Len(hs) : \E p \in 1..Len(gs) : i = Len(fs) + p /\ hs[i] = gs[p]
  <2> SUFFICES ASSUME NEW i \in (Len(fs) + 1)..Len(hs)
               PROVE  \E p \in 1..Len(gs) : i = Len(fs) + p /\ hs[i] = gs[p]
    OBVIOUS
  <2>1. i - Len(fs) \in 1..Len(gs) /\ i = Len(fs) + (i - Len(fs))
    BY <1>2
  <2> QED BY <2>1, <1>6
<1>9. /\ fs \in Frames /\ gs \in Frames /\ hs \in Frames
      /\ Len(fs) \in Nat /\ Len(gs) \in Nat
      /\ Len(hs) = Len(fs) + Len(gs)
      /\ \A i \in 1..Len(fs) : hs[i] = fs[i] /\ fs[i] \in Int
      /\ \A i \in 1..Len(gs) : hs[Len(fs) + i] = gs[i] /\ gs[i] \in Int
  BY <1>1, <1>2, <1>5, <1>6, <1>7
<1>10. \A i \in 1..Len(hs) :
           /\ hs[i] =< m
           /\ hs[i] > 0 => hs[i] > l /\ \A j \in 1..(i - 1) : hs[j] < hs[i]
  <2> SUFFICES ASSUME NEW i \in 1..Len(hs)
               PROVE  /\ hs[i] =< m
                      /\ hs[i] > 0 => hs[i] > l /\ \A j \in 1..(i - 1) : hs[j] < hs[i]
    OBVIOUS
  <2>1. CASE i =< Len(fs)
    <3>1. hs[i] = fs[i] /\ \A j \in 1..(i - 1) : hs[j] = fs[j]
      BY <1>9, <2>1
    <3>2. /\ fs[i] =< k
          /\ fs[i] > 0 => fs[i] > l /\ \A j \in 1..(i - 1) : fs[j] < fs[i]
      BY <2>1, <1>9 DEF Run, Part
    <3>3. fs[i] =< m
      BY <3>2, <2>1, <1>9, <1>7
    <3> QED BY <3>1, <3>2, <3>3
  <2>2. CASE i > Len(fs)
    <3>1. PICK p \in 1..Len(gs) : i = Len(fs) + p /\ hs[i] = gs[p]
      <4>1. i \in (Len(fs) + 1)..Len(hs)
        BY <1>9, <2>2
      <4> QED BY <4>1, <1>8
    <3>2. hs[i] =< m /\ (hs[i] > 0 => hs[i] > k)
      BY <3>1 DEF Run, Part
    <3>3. ASSUME hs[i] > 0, NEW j \in 1..(i - 1) PROVE hs[j] < hs[i]
      <4>1. CASE j =< Len(fs)
        <5>1. fs[j] =< k /\ hs[j] = fs[j] /\ fs[j] \in Int
          BY <1>9, <4>1, <3>1 DEF Run, Part
        <5>2. hs[i] > k /\ hs[i] \in Int
          BY <1>9, <3>1, <3>2, <3>3
        <5> QED BY <5>1, <5>2, <1>7
      <4>2. CASE j > Len(fs)
        <5>1. PICK q \in 1..Len(gs) : j = Len(fs) + q /\ hs[j] = gs[q]
          <6>1. j \in (Len(fs) + 1)..Len(hs)
            BY <1>9, <4>2
          <6> QED BY <6>1, <1>8
        <5>2. q \in 1..(p - 1)
          BY <1>9, <3>1, <5>1, <3>3
        <5> QED BY <3>1, <3>3, <5>1, <5>2 DEF Run, Part
      <4> QED BY <1>9, <4>1, <4>2
    <3> QED BY <1>9, <3>1, <3>2, <3>3
  <2> QED BY <1>9, <2>1, <2>2
<1>11. \A i \in 1..Len(hs) : hs[i] > 0 =>
           \/ \E j \in 1..(i - 1) : hs[j] = Gap
           \/ \A n \in (l + 1)..(hs[i] - 1) : n \in K \/ \E j \in 1..(i - 1) : hs[j] = n
  <2> SUFFICES ASSUME NEW i \in 1..Len(hs), hs[i] > 0,
                      ~ \E j \in 1..(i - 1) : hs[j] = Gap,
                      NEW n \in (l + 1)..(hs[i] - 1)
               PROVE  n \in K \/ \E j \in 1..(i - 1) : hs[j] = n
    OBVIOUS
  <2>1. CASE i =< Len(fs)
    <3>1. hs[i] = fs[i] /\ \A j \in 1..(i - 1) : hs[j] = fs[j]
      BY <1>9, <2>1
    <3>2. fs[i] > 0 /\ i \in 1..Len(fs) /\ n \in (l + 1)..(fs[i] - 1)
      BY <2>1, <3>1, <1>9
    <3>3. ~ \E j \in 1..(i - 1) : fs[j] = Gap
      BY <3>1
    <3>4. n \in K \/ \E j \in 1..(i - 1) : fs[j] = n
      BY <3>2, <3>3 DEF Run, Part
    <3> QED BY <3>1, <3>4
  <2>2. CASE i > Len(fs)
    <3>1. PICK p \in 1..Len(gs) : i = Len(fs) + p /\ hs[i] = gs[p]
      <4>1. i \in (Len(fs) + 1)..Len(hs)
        BY <1>9, <2>2
      <4> QED BY <4>1, <1>8
    <3>2. \A j \in 1..Len(fs) : j \in 1..(i - 1) /\ hs[j] = fs[j]
      BY <1>9, <3>1
    <3>3. \A j \in 1..(p - 1) : Len(fs) + j \in 1..(i - 1) /\ hs[Len(fs) + j] = gs[j]
      BY <1>9, <3>1
    <3>4. CASE n =< k
      <4>1. n \in (l + 1)..k
        BY <3>4
      <4>2. ~ \E j \in 1..Len(fs) : fs[j] = Gap
        BY <3>2
      <4>3. n \in K \/ \E j \in 1..Len(fs) : fs[j] = n
        BY <4>1, <4>2 DEF Run, Part
      <4> QED BY <4>3, <3>2
    <3>5. CASE n > k
      <4>1. n \in (k + 1)..(gs[p] - 1) /\ gs[p] > 0
        BY <3>5, <3>1, <1>9
      <4>2. ~ \E j \in 1..(p - 1) : gs[j] = Gap
        BY <3>3
      <4>3. \E j \in 1..(p - 1) : gs[j] = n
        BY <4>1, <4>2 DEF Run, Part
      <4> QED BY <4>3, <3>3
    <3> QED BY <3>4, <3>5
  <2> QED BY <1>9, <2>1, <2>2
<1>12. \/ \E j \in 1..Len(hs) : hs[j] = Gap
      \/ \A n \in (l + 1)..m : n \in K \/ \E j \in 1..Len(hs) : hs[j] = n
  <2> SUFFICES ASSUME ~ \E j \in 1..Len(hs) : hs[j] = Gap, NEW n \in (l + 1)..m
               PROVE  n \in K \/ \E j \in 1..Len(hs) : hs[j] = n
    OBVIOUS
  <2>0. /\ \A j \in 1..Len(fs) : j \in 1..Len(hs) /\ hs[j] = fs[j]
        /\ \A j \in 1..Len(gs) : Len(fs) + j \in 1..Len(hs) /\ hs[Len(fs) + j] = gs[j]
    BY <1>9
  <2>1. CASE n =< k
    <3>1. n \in (l + 1)..k
      BY <2>1, <1>7
    <3>2. ~ \E j \in 1..Len(fs) : fs[j] = Gap
      BY <2>0
    <3>3. n \in K \/ \E j \in 1..Len(fs) : fs[j] = n
      BY <3>1, <3>2 DEF Run, Part
    <3> QED BY <3>3, <2>0
  <2>2. CASE n > k
    <3>1. n \in (k + 1)..m
      BY <2>2, <1>7
    <3>2. ~ \E j \in 1..Len(gs) : gs[j] = Gap
      BY <2>0
    <3>3. \E j \in 1..Len(gs) : gs[j] = n
      BY <3>1, <3>2 DEF Run, Part
    <3> QED BY <3>3, <2>0
  <2> QED BY <2>1, <2>2
<1> QED BY <1>9, <1>10, <1>11, <1>12 DEF Run, Part, hs

\* The events of the log that follow l, up to m.
LEMMA EventRun ==
    ASSUME NEW l \in 0..End, NEW m \in 0..End, l =< m
    PROVE  Run({}, EventFrames(l + 1, m), l, m)
<1> DEFINE es == [i \in 1..(m - (l + 1) + 1) |-> (l + 1) + i - 1]
           cs == IF l + 1 =< m /\ m = End THEN <<Control>> ELSE <<>>
<1>1. /\ m - (l + 1) + 1 \in Nat
      /\ \A i \in 1..(m - l) : l + i \in -1..End
  BY StreamAssumption
<1>2. es \in Frames /\ Len(es) = m - l /\ \A i \in 1..(m - l) : es[i] = l + i
  BY <1>1, StreamAssumption DEF Frames
<1> HIDE DEF es
<1>3. \A n \in (l + 1)..m : n - l \in 1..(m - l) /\ es[n - l] = n
  BY <1>2, StreamAssumption
<1>4. ASSUME NEW i \in 1..Len(es), NEW n \in (l + 1)..(es[i] - 1)
      PROVE  \E j \in 1..(i - 1) : es[j] = n
  <2>1. n - l \in 1..(i - 1) /\ n \in (l + 1)..m
    BY <1>2, <1>4, StreamAssumption
  <2> QED BY <2>1, <1>3
<1>5. Run({}, es, l, m)
  BY <1>2, <1>3, <1>4, StreamAssumption DEF Run, Part
<1>6. Run({}, cs, m, m)
  BY EmptyRun, ControlRun
<1>7. Run({}, es \o cs, l, m)
  BY <1>5, <1>6, Compose
<1> QED BY <1>7 DEF EventFrames, es
LEMMA NoEvents ==
    ASSUME NEW first \in 1..(End + 1), NEW final \in 0..End, final < first,
           NEW l \in 0..End
    PROVE  Run({}, EventFrames(first, final), l, l)
<1>1. 1..(final - first + 1) = {}
  BY StreamAssumption
<1>2. [i \in 1..(final - first + 1) |-> first + i - 1] = <<>>
  BY <1>1
<1>3. ~(first =< final)
  BY StreamAssumption
<1>4. Run({}, <<>> \o <<>>, l, l)
  BY EmptyRun, Compose
<1> QED BY <1>2, <1>3, <1>4 DEF EventFrames

LEMMA FirstRowRange ==
    ASSUME TypeOK
    PROVE  FirstRow(last) \in (last + 1)..(End + 1) /\ FirstRow(last) \in 1..(End + 1)
BY StreamAssumption DEF TypeOK, FirstRow

\* _replay_locked carries the connection to the last row it finds.
LEMMA ReplayRun ==
    ASSUME TypeOK, NEW target \in 0..End
    PROVE  /\ Replayed(target) \in 0..End /\ Replayed(target) >= last
           /\ Replayed(target) =< (IF last =< target THEN target ELSE last)
           /\ Run({}, ReplayFrames(target), last, Replayed(target))
<1> DEFINE first == FirstRow(last)
           gs == IF first > last + 1 /\ first =< target THEN <<Gap>> ELSE <<>>
<1>1. first \in (last + 1)..(End + 1) /\ first \in 1..(End + 1) /\ last \in 0..End /\ last \in Int
      /\ target \in Int /\ End \in Int /\ first \in Int
  BY FirstRowRange, StreamAssumption DEF TypeOK
<1>2. ReplayFrames(target) = gs \o EventFrames(first, target)
  BY DEF ReplayFrames
<1>3. Replayed(target) = IF first =< target THEN target ELSE last
  BY DEF Replayed
<1> HIDE DEF first
<1>4. CASE first =< target
  <2>1. first - 1 \in 0..End /\ last =< first - 1 /\ first - 1 =< target /\ (first - 1) + 1 = first
    BY <1>1, <1>4
  <2>2. Run({}, gs, last, first - 1)
    <3>1. CASE first > last + 1
      BY <3>1, <1>4, <1>1, <2>1, GapRun
    <3>2. CASE ~(first > last + 1)
      <4>1. first - 1 = last /\ gs = <<>>
        BY <3>2, <1>1
      <4> QED BY <4>1, <1>1, EmptyRun
    <3> QED BY <3>1, <3>2
  <2>3. Run({}, EventFrames(first, target), first - 1, target)
    <3>1. Run({}, EventFrames((first - 1) + 1, target), first - 1, target)
      BY <2>1, EventRun
    <3> QED BY <3>1, <2>1
  <2>4. Run({}, gs \o EventFrames(first, target), last, target)
    BY <2>1, <2>2, <2>3, <1>1, Compose
  <2> QED BY <2>4, <1>1, <1>2, <1>3, <1>4
<1>5. CASE ~(first =< target)
  <2>1. gs = <<>>
    BY <1>5
  <2>2. Run({}, EventFrames(first, target), last, last)
    BY <1>1, <1>5, NoEvents
  <2>3. Run({}, <<>> \o EventFrames(first, target), last, last)
    BY <2>2, <1>1, EmptyRun, Compose
  <2> QED BY <2>1, <2>3, <1>1, <1>2, <1>3, <1>5
<1> QED BY <1>4, <1>5

LEMMA ResumeRun ==
    ASSUME TypeOK
    PROVE  /\ Run({}, ReplayFrames(cmd.target) \o <<Control>>, last, Replayed(cmd.target))
           /\ Replayed(cmd.target) \in 0..End /\ Replayed(cmd.target) >= last
<1>1. cmd.target \in 0..End /\ last \in 0..End
  BY DEF TypeOK
<1> QED BY <1>1, ReplayRun, ControlRun, Compose

LEMMA PumpRun ==
    ASSUME TypeOK, NEW e \in 1..End, e > last + 1
    PROVE  LET hole == IF Replayed(e - 1) < e - 1 THEN <<Gap>> ELSE <<>>
           IN  Run({}, ReplayFrames(e - 1) \o hole \o EventFrames(e, e), last, e)
<1> DEFINE r == Replayed(e - 1)
           hole == IF r < e - 1 THEN <<Gap>> ELSE <<>>
<1>1. e - 1 \in 0..End /\ last \in 0..End /\ last =< e - 1 /\ e \in 0..End /\ (e - 1) + 1 = e
  BY StreamAssumption DEF TypeOK
<1>2. r \in 0..End /\ r >= last /\ r =< e - 1 /\ Run({}, ReplayFrames(e - 1), last, r)
  BY <1>1, ReplayRun
<1> HIDE DEF r
<1>3. Run({}, hole, r, e - 1)
  <2>1. CASE r < e - 1
    BY <2>1, <1>1, <1>2, GapRun
  <2>2. CASE ~(r < e - 1)
    <3>1. r = e - 1
      BY <2>2, <1>1, <1>2, StreamAssumption
    <3> QED BY <3>1, <1>2, EmptyRun
  <2> QED BY <2>1, <2>2
<1>4. Run({}, ReplayFrames(e - 1) \o hole, last, e - 1)
  BY <1>1, <1>2, <1>3, Compose
<1>5. Run({}, EventFrames(e, e), e - 1, e)
  <2>1. Run({}, EventFrames((e - 1) + 1, e), e - 1, e)
    BY <1>1, EventRun, StreamAssumption
  <2> QED BY <2>1, <1>1
<1>6. Run({}, (ReplayFrames(e - 1) \o hole) \o EventFrames(e, e), last, e)
  BY <1>1, <1>4, <1>5, Compose, StreamAssumption
<1> QED BY <1>6 DEF r

LEMMA NextRun ==
    ASSUME TypeOK, NEW e \in 1..End, e = last + 1
    PROVE  Run({}, EventFrames(e, e), last, e)
<1>1. e \in 0..End /\ last \in 0..End /\ last =< e
  BY StreamAssumption DEF TypeOK
<1> QED BY <1>1, EventRun

-----------------------------------------------------------------------------
\* What a browser need not be sent any more: a stream.gap made it reload.
Held == IF gapped THEN 1..End ELSE got

\* The connection closes: part of what it had to send may be missing.
Closing == link \in {"woken", "ending", "stuck"}

\* The send queue leads from what the browser holds to _last_sequences, or
\* part of the way when the connection closes.
Line ==
    /\ Part(Held, sendq, 0, last)
    /\ ~Closing => Run(Held, sendq, 0, last)

\* Where the browser stands, and where its stream.resume starts, it holds
\* everything.
Settled ==
    /\ \A n \in Held : 1..n \subseteq Held
    /\ 1..seen \subseteq Held
    /\ 1..cmd.after \subseteq Held

\* The pump replays under the lock: nobody else moves _last_sequences.  Both
\* tasks stop when the connection closes.
Locking ==
    /\ cmd.at # "idle" \/ pump.at # "none" => link = "open"
    /\ pump.at = "lock" => pump.event > 0
    /\ pump.at = "replay" => last + 1 < pump.event /\ cmd.at # "replay"

Inv == TypeOK /\ Locking /\ Line /\ Settled

-----------------------------------------------------------------------------
\* The first frames of a part are a part.
LEMMA FirstFrames ==
    ASSUME NEW K, NEW l \in 0..End, NEW m \in 0..End, NEW hs, Part(K, hs, l, m),
           NEW gs \in Frames, Len(gs) =< Len(hs), \A i \in 1..Len(gs) : gs[i] = hs[i]
    PROVE  Part(K, gs, l, m)
<1>1. hs \in Frames /\ Len(gs) \in Nat /\ Len(hs) \in Nat
  BY DEF Part, Frames
<1>2. \A i \in 1..Len(gs) : i \in 1..Len(hs) /\ \A j \in 1..(i - 1) : gs[j] = hs[j]
  BY <1>1
<1>3. ASSUME NEW i \in 1..Len(gs)
      PROVE  /\ gs[i] =< m
             /\ gs[i] > 0 => gs[i] > l /\ \A j \in 1..(i - 1) : gs[j] < gs[i]
  <2>1. gs[i] = hs[i] /\ i \in 1..Len(hs) /\ \A j \in 1..(i - 1) : gs[j] = hs[j]
    BY <1>2
  <2>2. /\ hs[i] =< m
        /\ hs[i] > 0 => hs[i] > l /\ \A j \in 1..(i - 1) : hs[j] < hs[i]
    BY <2>1 DEF Part
  <2> QED BY <2>1, <2>2
<1>4. ASSUME NEW i \in 1..Len(gs), gs[i] > 0
      PROVE  \/ \E j \in 1..(i - 1) : gs[j] = Gap
             \/ \A n \in (l + 1)..(gs[i] - 1) : n \in K \/ \E j \in 1..(i - 1) : gs[j] = n
  <2>1. gs[i] = hs[i] /\ i \in 1..Len(hs) /\ \A j \in 1..(i - 1) : gs[j] = hs[j]
    BY <1>2
  <2>2. \/ \E j \in 1..(i - 1) : hs[j] = Gap
        \/ \A n \in (l + 1)..(hs[i] - 1) : n \in K \/ \E j \in 1..(i - 1) : hs[j] = n
    BY <2>1, <1>4 DEF Part
  <2> QED BY <2>1, <2>2
<1> QED BY <1>3, <1>4 DEF Part

\* Frames that are a run can be sent: the queue is typed and stays a line,
\* cut off where the queue is full.
LEMMA SendStep ==
    ASSUME TypeOK, link = "open", UNCHANGED browser,
           NEW l \in 0..End, Run(Held, sendq, 0, l),
           NEW fs, NEW m \in 0..End, l =< m, Run({}, fs, l, m),
           NEW c, NEW p, Send(fs, c, p, m)
    PROVE  /\ Line'
           /\ last' \in 0..End /\ sendq' \in Seq(-1..End) /\ Len(sendq') =< SendMax
<1>0. Held' = Held /\ 0 \in 0..End /\ 0 =< l /\ last' = m
  BY StreamAssumption DEF Held, browser, Send
<1>1. Run(Held, sendq \o fs, 0, m)
  BY <1>0, Compose
<1>2. fs \in Frames /\ sendq \in Frames
  BY DEF Run, Part, TypeOK, Frames
<1>3. Len(sendq \o fs) = Len(sendq) + Len(fs) /\ sendq \o fs \in Frames
      /\ Len(sendq) \in Nat /\ Len(fs) \in Nat
  BY <1>2 DEF Frames
<1>4. CASE Len(sendq) + Len(fs) > SendMax
  <2> DEFINE k == SendMax - Len(sendq)
             gs == SubSeq(fs, 1, k)
  <2>1. k \in Nat /\ k =< Len(fs) /\ SendMax \in Nat
    BY <1>3, <1>4, StreamAssumption DEF TypeOK
  <2>2. sendq' = sendq \o gs /\ Closing'
    BY <1>4 DEF Send, Stop, Closing
  <2> HIDE DEF k
  <2>3. gs \in Frames /\ Len(gs) = k /\ \A i \in 1..k : gs[i] = fs[i]
    <3>1. 1..k \subseteq 1..Len(fs) /\ \A i \in 1..k : fs[i] \in -1..End
      <4>1. 1..k \subseteq 1..Len(fs)
        BY <1>3, <2>1
      <4>2. \A i \in 1..Len(fs) : fs[i] \in -1..End
        BY <1>2, ElementOfSeq DEF Frames
      <4> QED BY <4>1, <4>2
    <3>2. gs = [i \in 1..k |-> fs[i]]
      BY <1>2, <2>1, SubSeqProperties DEF Frames
    <3> HIDE DEF gs
    <3> QED BY <3>1, <3>2, <2>1 DEF Frames
  <2> HIDE DEF gs
  <2>4. sendq \o gs \in Frames /\ Len(sendq \o gs) = SendMax
    BY <1>2, <1>3, <2>1, <2>3 DEF Frames, k
  <2>5. \A i \in 1..Len(sendq \o gs) : (sendq \o gs)[i] = (sendq \o fs)[i]
    <3> SUFFICES ASSUME NEW i \in 1..(Len(sendq) + k)
                 PROVE  (sendq \o gs)[i] = (sendq \o fs)[i]
      BY <1>3, <2>1, <2>4 DEF k
    <3>1. i \in 1..(Len(sendq) + Len(fs)) /\ i \in 1..(Len(sendq) + Len(gs))
      BY <1>3, <2>1, <2>3
    <3>2. (sendq \o gs)[i] = IF i <= Len(sendq) THEN sendq[i] ELSE gs[i - Len(sendq)]
      BY <1>2, <2>3, <3>1, ConcatProperties DEF Frames
    <3>3. (sendq \o fs)[i] = IF i <= Len(sendq) THEN sendq[i] ELSE fs[i - Len(sendq)]
      BY <1>2, <3>1, ConcatProperties DEF Frames
    <3>4. ~(i <= Len(sendq)) => i - Len(sendq) \in 1..k
      BY <1>3, <2>1
    <3> QED BY <2>3, <3>2, <3>3, <3>4
  <2>6. Part(Held, sendq \o gs, 0, m)
    <3>1. Len(sendq \o gs) =< Len(sendq \o fs)
      BY <1>3, <1>4, <2>1, <2>4
    <3>2. Part(Held, sendq \o fs, 0, m)
      BY <1>1 DEF Run
    <3> QED BY <1>0, <2>4, <2>5, <3>1, <3>2, FirstFrames
  <2> QED BY <1>0, <2>1, <2>2, <2>4, <2>6 DEF Line, Frames
<1>5. CASE ~(Len(sendq) + Len(fs) > SendMax)
  <2>1. sendq' = sendq \o fs
    BY <1>5 DEF Send
  <2>2. Line'
    <3>1. Part(Held, sendq \o fs, 0, m)
      BY <1>1 DEF Run
    <3> QED BY <1>0, <1>1, <2>1, <3>1 DEF Line
  <2> QED BY <1>0, <1>3, <1>5, <2>1, <2>2, StreamAssumption DEF Frames
<1> QED BY <1>4, <1>5

LEMMA PutStep ==
    ASSUME TypeOK, NEW e \in 0..End, Offer(e)
    PROVE  queue' \in Seq(0..End) /\ Len(queue') =< QueueMax
<1>1. CASE Subscribed /\ Len(queue) = QueueMax
  <2>1. queue # <<>> /\ queue \in Seq(0..End)
    BY <1>1, StreamAssumption DEF TypeOK
  <2>2. Tail(queue) \in Seq(0..End) /\ Len(Tail(queue)) = Len(queue) - 1
    BY <2>1, HeadTailProperties
  <2> QED BY <1>1, <2>2, StreamAssumption DEF Offer, Put
<1>2. CASE Subscribed /\ Len(queue) # QueueMax
  <2>1. queue \in Seq(0..End) /\ Len(queue) + 1 =< QueueMax /\ Len(queue) \in Nat
    BY <1>2, StreamAssumption DEF TypeOK
  <2>2. queue' = Append(queue, e)
    BY <1>2 DEF Offer, Put
  <2>3. Append(queue, e) \in Seq(0..End) /\ Len(Append(queue, e)) = Len(queue) + 1
    BY <2>1
  <2> QED BY <2>1, <2>2, <2>3
<1>3. CASE ~Subscribed
  BY <1>3 DEF Offer, TypeOK
<1> QED BY <1>1, <1>2, <1>3

-----------------------------------------------------------------------------
LEMMA FaultTypes ==
    ASSUME TypeOK, NEW kind \in {"drop", "outage", "silent", "db"}, Fault(kind)
    PROVE  faults' \in [{"drop", "outage", "silent", "db"} -> Nat]
<1>1. faults \in [{"drop", "outage", "silent", "db"} -> Nat] /\ faults[kind] \in Nat /\ faults[kind] > 0
  BY DEF TypeOK, Fault
<1>2. faults[kind] - 1 \in Nat
  BY <1>1
<1> QED BY <1>1, <1>2 DEF Fault

\* The actions that move events to the broker.
LEMMA TransportStep ==
    ASSUME Inv,
           \/ Emit \/ Notice \/ Recover \/ Outage
           \/ \E e \in 1..End : Deliver(e) \/ Miss(e) \/ PublishFails(e)
           \/ \E n \in 1..(End - 1) : Prune(n)
    PROVE  Inv'
<1> USE DEF Inv
<1>1. UNCHANGED <<link, cmd, pump, last, sendq, browser>>
  BY DEF Emit, Notice, Recover, Outage, Deliver, Miss, PublishFails, Prune, connVars
<1>2. Locking' /\ Line' /\ Settled'
  BY <1>1 DEF Locking, Line, Closing, Settled, Held, browser
<1>3. queue' \in Seq(0..End) /\ Len(queue') =< QueueMax
  <2>1. CASE Notice \/ Recover
    BY <2>1, PutStep, StreamAssumption DEF Notice, Recover, InterruptAll, Interrupted
  <2>2. ASSUME NEW e \in 1..End, Deliver(e) PROVE queue' \in Seq(0..End) /\ Len(queue') =< QueueMax
    <3>1. e \in 0..End
      BY StreamAssumption
    <3> QED BY <2>2, <3>1, PutStep DEF Deliver
  <2>3. CASE UNCHANGED queue
    BY <2>3 DEF TypeOK
  <2> QED BY <2>1, <2>2, <2>3 DEF Emit, Outage, Miss, PublishFails, Prune, connVars
<1>4. /\ top' \in 0..End /\ floor' \in 0..(End - 1) /\ wire' \subseteq 1..top' /\ silent' \subseteq 1..top'
      /\ bridge' \in {"up", "broken", "down"}
      /\ faults' \in [{"drop", "outage", "silent", "db"} -> Nat]
  <2>1. CASE Emit
    <3>1. top \in 0..End /\ top' = top + 1 /\ top < End /\ wire' = wire \cup {top'}
      BY <2>1 DEF Emit, TypeOK
    <3>2. top' \in 0..End /\ top' \in 1..top' /\ 1..top \subseteq 1..top'
      BY <3>1, StreamAssumption
    <3>3. wire' \subseteq 1..top' /\ silent' \subseteq 1..top'
      BY <2>1, <3>1, <3>2 DEF Emit, TypeOK
    <3> QED BY <2>1, <3>2, <3>3 DEF Emit, TypeOK
  <2>2. CASE Notice \/ Recover
    BY <2>2 DEF Notice, Recover, TypeOK, logVars
  <2>3. CASE Outage
    <3>1. faults' \in [{"drop", "outage", "silent", "db"} -> Nat]
      BY <2>3, FaultTypes DEF Outage
    <3> QED BY <2>3, <3>1 DEF Outage, TypeOK, logVars
  <2>4. ASSUME NEW e \in 1..End, Deliver(e) \/ Miss(e)
        PROVE  UNCHANGED <<top, floor, silent, bridge, faults>> /\ wire' \subseteq wire
    BY <2>4 DEF Deliver, Miss, logVars
  <2>5. ASSUME NEW e \in 1..End, PublishFails(e)
        PROVE  /\ UNCHANGED <<top, floor, bridge>> /\ wire' \subseteq 1..top /\ silent' \subseteq 1..top
               /\ faults' \in [{"drop", "outage", "silent", "db"} -> Nat]
    <3>1. faults' \in [{"drop", "outage", "silent", "db"} -> Nat]
      BY <2>5, FaultTypes DEF PublishFails
    <3> QED BY <2>5, <3>1 DEF PublishFails, Published, TypeOK
  <2>6. ASSUME NEW n \in 1..(End - 1), Prune(n)
        PROVE  UNCHANGED <<top, wire, silent, bridge, faults>> /\ floor' \in 0..(End - 1)
    BY <2>6, StreamAssumption DEF Prune
  <2> QED BY <2>1, <2>2, <2>3, <2>4, <2>5, <2>6 DEF TypeOK
<1>5. TypeOK'
  BY <1>1, <1>3, <1>4 DEF TypeOK, browser
<1> QED BY <1>2, <1>5

\* The state outside the connection is untouched by its handlers.
LEMMA ConnectionTypes ==
    ASSUME TypeOK, UNCHANGED <<logVars, wire, bridge, browser, faults>>,
           link' \in Links,
           cmd' \in [at : {"idle", "subscribe", "resume", "lock", "replay"},
                     after : -1..End, target : 0..End],
           pump' \in [at : {"none", "idle", "lock", "replay", "dead"}, event : 0..End],
           queue' \in Seq(0..End) /\ Len(queue') =< QueueMax,
           last' \in 0..End,
           sendq' \in Seq(-1..End) /\ Len(sendq') =< SendMax
    PROVE  TypeOK'
BY DEF TypeOK, logVars, browser

\* A connection whose tasks stop, with a line in its queue.
LEMMA StopStep ==
    ASSUME Inv, NEW how \in Links, Stop(how), UNCHANGED <<logVars, wire, bridge, browser>>,
           faults' \in [{"drop", "outage", "silent", "db"} -> Nat],
           Line', last' \in 0..End, sendq' \in Seq(-1..End) /\ Len(sendq') =< SendMax
    PROVE  Inv'
<1> USE DEF Inv
<1>1. link' = how /\ cmd' = Idle /\ queue' = <<>> /\ pump' = NoPump
  BY DEF Stop
<1>2. Locking' /\ cmd'.after = 0
  BY <1>1 DEF Locking, Idle, NoPump
<1>3. Settled'
  <2>1. 1..(cmd'.after) = {}
    BY <1>2
  <2> QED BY <2>1 DEF Settled, Held, browser
<1>4. /\ cmd' \in [at : {"idle", "subscribe", "resume", "lock", "replay"},
                   after : -1..End, target : 0..End]
      /\ pump' \in [at : {"none", "idle", "lock", "replay", "dead"}, event : 0..End]
  BY <1>1, StreamAssumption DEF Idle, NoPump
<1>5. queue' \in Seq(0..End) /\ Len(queue') =< QueueMax
  <2>1. <<>> \in Seq(0..End) /\ Len(<<>>) = 0
    OBVIOUS
  <2> QED BY <1>1, <2>1, StreamAssumption
<1>6. TypeOK'
  BY <1>1, <1>4, <1>5 DEF TypeOK, logVars, browser
<1> QED BY <1>2, <1>3, <1>6

\* A connection that ends, whoever ends it: what is queued stays a part of
\* the way, or is dropped.
LEMMA ClosedStep ==
    ASSUME Inv, Terminate \/ Closed, UNCHANGED <<logVars, wire, bridge, browser>>,
           faults' \in [{"drop", "outage", "silent", "db"} -> Nat]
    PROVE  Inv'
<1> USE DEF Inv
<1>1. CASE Terminate
  <2>1. Stop("ending") /\ UNCHANGED <<last, sendq>> /\ link' = "ending" /\ "ending" \in Links
    BY <1>1 DEF Terminate, Stop, Links
  <2>2. Line'
    BY <2>1 DEF Line, Closing, Held, browser
  <2>3. last' \in 0..End /\ sendq' \in Seq(-1..End) /\ Len(sendq') =< SendMax
    BY <2>1 DEF TypeOK
  <2> QED BY <2>1, <2>2, <2>3, StopStep
<1>2. CASE Closed
  <2>1. Stop("closed") /\ last' = 0 /\ sendq' = <<>> /\ "closed" \in Links
    BY <1>2 DEF Closed, Links
  <2>2. Run(Held', <<>>, 0, 0)
    BY EmptyRun, StreamAssumption
  <2>3. Line'
    BY <2>1, <2>2 DEF Line, Run
  <2>4. <<>> \in Seq(-1..End) /\ Len(<<>>) = 0
    OBVIOUS
  <2>5. last' \in 0..End /\ sendq' \in Seq(-1..End) /\ Len(sendq') =< SendMax
    BY <2>1, <2>4, StreamAssumption
  <2> QED BY <2>1, <2>3, <2>5, StopStep
<1> QED BY <1>1, <1>2

LEMMA SenderStep == ASSUME Inv, SenderEnds \/ SenderSurvives PROVE Inv'
<1> USE DEF Inv
<1>1. CASE SenderEnds
  <2>1. Closed /\ UNCHANGED <<logVars, wire, bridge, browser, faults>>
    BY <1>1 DEF SenderEnds
  <2>2. faults' \in [{"drop", "outage", "silent", "db"} -> Nat]
    BY <2>1 DEF TypeOK
  <2> QED BY <2>1, <2>2, ClosedStep
<1>2. CASE SenderSurvives
  <2>1. /\ link = "ending" /\ link' = "stuck" /\ link' \in Links
        /\ UNCHANGED <<logVars, wire, bridge, cmd, queue, pump, last, sendq, browser, faults>>
    BY <1>2 DEF SenderSurvives, Links
  <2>2. TypeOK'
    BY <2>1 DEF TypeOK, logVars, browser
  <2> QED BY <2>1, <2>2 DEF Locking, Line, Closing, Settled, Held, browser
<1> QED BY <1>1, <1>2

\* A handler that sends a run and leaves a command and a pump behind.
LEMMA SentStep ==
    ASSUME Inv, link = "open", UNCHANGED <<logVars, wire, bridge, browser, faults>>,
           NEW l \in 0..End, Run(Held, sendq, 0, l),
           NEW fs, NEW m \in 0..End, l =< m, Run({}, fs, l, m),
           NEW c, NEW p, Send(fs, c, p, m),
           c \in [at : {"idle", "subscribe", "resume", "lock", "replay"},
                  after : -1..End, target : 0..End],
           p \in [at : {"none", "idle", "lock", "replay", "dead"}, event : 0..End],
           c.after = cmd.after \/ c.after = 0,
           p.at = "lock" => p.event > 0,
           p.at # "replay"
    PROVE  Inv'
<1> USE DEF Inv
<1>1. /\ Line'
      /\ last' \in 0..End /\ sendq' \in Seq(-1..End) /\ Len(sendq') =< SendMax
  BY SendStep
<1>2. CASE Len(sendq) + Len(fs) > SendMax
  <2>1. PICK how \in Links : Stop(how)
    BY <1>2 DEF Send, Links
  <2>2. faults' \in [{"drop", "outage", "silent", "db"} -> Nat]
    BY DEF TypeOK
  <2> QED BY <1>1, <2>1, <2>2, StopStep
<1>3. CASE ~(Len(sendq) + Len(fs) > SendMax)
  <2>1. cmd' = c /\ pump' = p /\ last' = m /\ UNCHANGED <<link, queue>>
    BY <1>3 DEF Send
  <2>2. TypeOK'
    BY <1>1, <2>1, ConnectionTypes DEF TypeOK
  <2>3. Locking'
    BY <2>1 DEF Locking
  <2>4. Settled'
    <3>1. 1..0 = {}
      OBVIOUS
    <3> QED BY <2>1, <3>1 DEF Settled, Held, browser
  <2> QED BY <1>1, <2>2, <2>3, <2>4
<1> QED BY <1>2, <1>3

\* While the connection is open the line is complete.
LEMMA OpenLine ==
    ASSUME Inv, cmd.at # "idle" \/ pump.at # "none"
    PROVE  link = "open" /\ Run(Held, sendq, 0, last) /\ last \in 0..End
BY DEF Inv, Locking, Line, Closing, TypeOK

-----------------------------------------------------------------------------
\* The handlers of the connection.
LEMMA ConnectStep == ASSUME Inv, Connect PROVE Inv'
<1> USE DEF Inv
<1>1. UNCHANGED <<logVars, wire, bridge, queue, pump, last, sendq, browser, faults>>
  BY DEF Connect
<1>2. /\ cmd' = [at |-> "subscribe", after |-> IF following THEN seen ELSE -1, target |-> 0]
      /\ cmd'.at = "subscribe" /\ (cmd'.after = seen \/ cmd'.after = -1)
  BY DEF Connect
<1>3. TypeOK'
  <2>1. cmd' \in [at : {"idle", "subscribe", "resume", "lock", "replay"},
                  after : -1..End, target : 0..End]
    <3>1. (IF following THEN seen ELSE -1) \in -1..End /\ 0 \in 0..End
      BY StreamAssumption DEF TypeOK
    <3> QED BY <1>2, <3>1
  <2>2. link' \in Links
    BY DEF Connect, Links
  <2> QED BY <1>1, <2>1, <2>2, ConnectionTypes DEF TypeOK
<1>4. Settled'
  <2>1. 1..(-1) = {}
    OBVIOUS
  <2> QED BY <1>1, <1>2, <2>1 DEF Settled, Held, browser
<1>5. Line' /\ Locking'
  BY <1>1, <1>2 DEF Connect, Line, Closing, Locking, Held, browser
<1> QED BY <1>3, <1>4, <1>5

LEMMA SubscribeStep == ASSUME Inv, Subscribe PROVE Inv'
<1> USE DEF Inv
<1> DEFINE c == IF cmd.after >= 0 THEN [cmd EXCEPT !.at = "resume"] ELSE Idle
<1>1. link = "open" /\ Run(Held, sendq, 0, last) /\ last \in 0..End /\ last =< last
  BY OpenLine, StreamAssumption DEF Subscribe
<1>2. Run({}, <<Control>>, last, last)
  BY <1>1, ControlRun
<1>3. /\ c \in [at : {"idle", "subscribe", "resume", "lock", "replay"},
                after : -1..End, target : 0..End]
      /\ c.after = cmd.after \/ c.after = 0
  <2>1. CASE cmd.after >= 0
    BY <2>1 DEF TypeOK
  <2>2. CASE ~(cmd.after >= 0)
    BY <2>2, StreamAssumption DEF Idle
  <2> QED BY <2>1, <2>2
<1>4. /\ PumpIdle \in [at : {"none", "idle", "lock", "replay", "dead"}, event : 0..End]
      /\ PumpIdle.at = "idle"
  BY StreamAssumption DEF PumpIdle
<1>5. Send(<<Control>>, c, PumpIdle, last) /\ UNCHANGED <<logVars, wire, bridge, browser, faults>>
  BY DEF Subscribe
<1> HIDE DEF c
<1> QED BY <1>1, <1>2, <1>3, <1>4, <1>5, SentStep

LEMMA ResumeTargetStep == ASSUME Inv, ResumeTarget PROVE Inv'
<1> USE DEF Inv
<1>1. /\ UNCHANGED <<logVars, wire, bridge, link, queue, pump, last, sendq, browser, faults>>
      /\ cmd' = [cmd EXCEPT !.at = "lock", !.target = top]
      /\ top \in 0..End
  BY DEF ResumeTarget, TypeOK
<1>2. /\ cmd' \in [at : {"idle", "subscribe", "resume", "lock", "replay"},
                   after : -1..End, target : 0..End]
      /\ cmd'.after = cmd.after /\ cmd'.at = "lock"
  BY <1>1 DEF TypeOK
<1>3. TypeOK'
  BY <1>1, <1>2, ConnectionTypes DEF TypeOK
<1>4. link = "open"
  BY OpenLine DEF ResumeTarget
<1> QED BY <1>1, <1>2, <1>3, <1>4 DEF Line, Closing, Locking, Settled, Held, browser

\* The resume starts behind what the browser says it has: it does have it.
LEMMA Skip ==
    ASSUME TypeOK, Run(Held, sendq, 0, last), Settled, NEW start \in 0..End, start = last \/ (start = cmd.after /\ last < start)
    PROVE  Run(Held, sendq, 0, start)
<1>0. last \in Int /\ start \in Int /\ last =< start
  BY StreamAssumption DEF TypeOK
<1>1. CASE start = last
  BY <1>1
<1>2. CASE start = cmd.after
  <2>1. \A n \in 1..start : n \in Held
    BY <1>2 DEF Settled
  <2>2. ASSUME NEW i \in 1..Len(sendq) PROVE sendq[i] =< start
    <3>1. sendq[i] \in -1..End
      BY ElementOfSeq DEF TypeOK
    <3>2. sendq[i] =< last
      BY DEF Run, Part
    <3> QED BY <1>0, <3>1, <3>2, StreamAssumption
  <2>3. \A n \in (0 + 1)..start : n \in Held
    BY <2>1
  <2> QED BY <2>2, <2>3 DEF Run, Part
<1> QED BY <1>1, <1>2

LEMMA ResumeLockStep == ASSUME Inv, ResumeLock PROVE Inv'
<1> USE DEF Inv
<1> DEFINE start == IF last < cmd.after THEN cmd.after ELSE last
<1>1. start \in 0..End /\ (start = last \/ (start = cmd.after /\ last < start)) /\ last =< start
  BY StreamAssumption DEF TypeOK
<1>2. link = "open" /\ Run(Held, sendq, 0, start)
  BY <1>1, OpenLine, Skip DEF ResumeLock
<1>3. /\ UNCHANGED <<logVars, wire, bridge, browser, faults>> /\ Held' = Held
      /\ cmd.at = "lock" /\ pump.at # "replay"
      /\ IF start < cmd.target
           THEN /\ cmd' = [cmd EXCEPT !.at = "replay"]
                /\ last' = start
                /\ UNCHANGED <<link, queue, pump, sendq>>
           ELSE Send(<<Control>>, Idle, pump, start)
  BY DEF ResumeLock, Unlocked, Held, browser
<1> HIDE DEF start
<1>4. CASE start < cmd.target
  <2>1. TypeOK'
    BY <1>1, <1>3, <1>4, ConnectionTypes DEF TypeOK
  <2>2. Line'
    BY <1>2, <1>3, <1>4 DEF Line, Run
  <2>3. cmd'.after = cmd.after
    BY <1>3, <1>4 DEF TypeOK
  <2>4. Settled'
    BY <2>3, <1>3 DEF Settled, browser
  <2>5. Locking'
    BY <1>2, <1>3, <1>4 DEF Locking
  <2> QED BY <2>1, <2>2, <2>4, <2>5
<1>5. CASE ~(start < cmd.target)
  <2>1. Run({}, <<Control>>, start, start)
    BY <1>1, ControlRun
  <2>2. Send(<<Control>>, Idle, pump, start)
    BY <1>3, <1>5
  <2>3. /\ Idle \in [at : {"idle", "subscribe", "resume", "lock", "replay"},
                     after : -1..End, target : 0..End]
        /\ Idle.after = 0 /\ start =< start
    BY <1>1, StreamAssumption DEF Idle
  <2>4. /\ pump \in [at : {"none", "idle", "lock", "replay", "dead"}, event : 0..End]
        /\ pump.at = "lock" => pump.event > 0
    BY DEF TypeOK, Locking
  <2> QED BY <1>1, <1>2, <1>3, <2>1, <2>2, <2>3, <2>4, SentStep
<1> QED BY <1>4, <1>5

LEMMA ResumeReplayStep == ASSUME Inv, ResumeReplay PROVE Inv'
<1> USE DEF Inv
<1>1. /\ Run({}, ReplayFrames(cmd.target) \o <<Control>>, last, Replayed(cmd.target))
      /\ Replayed(cmd.target) \in 0..End /\ last =< Replayed(cmd.target)
  BY ResumeRun, StreamAssumption DEF TypeOK
<1>2. /\ Idle \in [at : {"idle", "subscribe", "resume", "lock", "replay"},
                   after : -1..End, target : 0..End]
      /\ Idle.after = 0
  BY StreamAssumption DEF Idle
<1>3. /\ pump \in [at : {"none", "idle", "lock", "replay", "dead"}, event : 0..End]
      /\ pump.at = "lock" => pump.event > 0
      /\ pump.at # "replay"
  BY DEF TypeOK, Locking, ResumeReplay
<1>4. link = "open" /\ Run(Held, sendq, 0, last) /\ last \in 0..End
  BY OpenLine DEF ResumeReplay
<1> QED BY <1>1, <1>2, <1>3, <1>4, SentStep DEF ResumeReplay

LEMMA PumpTakeStep == ASSUME Inv, PumpTake PROVE Inv'
<1> USE DEF Inv
<1>1. CASE Head(queue) = Interrupted
  <2>1. Terminate /\ UNCHANGED <<logVars, wire, bridge, browser, faults>>
    BY <1>1 DEF PumpTake
  <2>2. faults' \in [{"drop", "outage", "silent", "db"} -> Nat]
    BY <2>1 DEF TypeOK
  <2> QED BY <2>1, <2>2, ClosedStep
<1>2. CASE Head(queue) # Interrupted
  <2>1. /\ pump' = [at |-> "lock", event |-> Head(queue)] /\ queue' = Tail(queue)
        /\ UNCHANGED <<link, cmd, last, sendq, logVars, wire, bridge, browser, faults>>
        /\ queue # <<>> /\ queue \in Seq(0..End)
    BY <1>2 DEF PumpTake, TypeOK
  <2>2. /\ Head(queue) \in 0..End /\ Tail(queue) \in Seq(0..End)
        /\ Len(Tail(queue)) = Len(queue) - 1
    BY <2>1, HeadTailProperties
  <2>3. Head(queue) > 0 /\ Len(queue') =< QueueMax
    <3>1. Len(queue) \in Nat /\ Len(queue) =< QueueMax
      BY DEF TypeOK
    <3>2. Head(queue) > 0
      BY <1>2, <2>2, StreamAssumption DEF Interrupted
    <3> QED BY <2>1, <2>2, <3>1, <3>2, StreamAssumption
  <2>4. pump' \in [at : {"none", "idle", "lock", "replay", "dead"}, event : 0..End]
    BY <2>1, <2>2
  <2>5. TypeOK'
    BY <2>1, <2>2, <2>3, <2>4, ConnectionTypes DEF TypeOK
  <2>6. Locking'
    BY <2>1, <2>3, OpenLine DEF Locking, PumpTake
  <2> QED BY <2>1, <2>5, <2>6 DEF Line, Closing, Settled, Held, browser
<1> QED BY <1>1, <1>2

LEMMA PumpLockStep == ASSUME Inv, PumpLock PROVE Inv'
<1> USE DEF Inv
<1>1. /\ pump.at = "lock" /\ Unlocked /\ UNCHANGED <<logVars, wire, bridge, browser, faults>>
      /\ pump.event \in 1..End /\ pump.event \in 0..End
  <2>1. pump.at = "lock" /\ Unlocked /\ UNCHANGED <<logVars, wire, bridge, browser, faults>>
    BY DEF PumpLock
  <2>2. pump.event \in 0..End /\ pump.event > 0
    BY <2>1 DEF Locking, TypeOK
  <2> QED BY <2>1, <2>2, StreamAssumption
<1>2. /\ PumpIdle \in [at : {"none", "idle", "lock", "replay", "dead"}, event : 0..End]
      /\ PumpIdle.at = "idle"
  BY StreamAssumption DEF PumpIdle
<1>0. link = "open" /\ Run(Held, sendq, 0, last) /\ last \in 0..End
  BY <1>1, OpenLine
<1>3. CASE pump' = PumpIdle /\ UNCHANGED <<link, cmd, queue, last, sendq>>
  <2>1. TypeOK'
    BY <1>1, <1>2, <1>3, ConnectionTypes DEF TypeOK
  <2> QED BY <2>1, <1>0, <1>1, <1>2, <1>3 DEF Locking, Line, Closing, Settled, Held, browser
<1>4. CASE pump.event = last + 1 /\ Send(EventFrames(pump.event, pump.event), cmd, PumpIdle, pump.event)
  <2>1. Run({}, EventFrames(pump.event, pump.event), last, pump.event) /\ last =< pump.event
    <3>1. last \in 0..End /\ last =< pump.event
      BY <1>1, <1>4, StreamAssumption DEF TypeOK
    <3> QED BY <1>1, <1>4, <3>1, NextRun
  <2>2. cmd \in [at : {"idle", "subscribe", "resume", "lock", "replay"},
                 after : -1..End, target : 0..End]
    BY DEF TypeOK
  <2> QED BY <1>0, <1>1, <1>2, <1>4, <2>1, <2>2, SentStep
<1>5. CASE /\ pump.event > last + 1 /\ pump' = [pump EXCEPT !.at = "replay"]
           /\ UNCHANGED <<link, cmd, queue, last, sendq>>
  <2>1. /\ pump' \in [at : {"none", "idle", "lock", "replay", "dead"}, event : 0..End]
        /\ pump'.event = pump.event /\ pump'.at = "replay"
    BY <1>5 DEF TypeOK
  <2>2. TypeOK'
    BY <1>1, <1>5, <2>1, ConnectionTypes DEF TypeOK
  <2>3. Locking'
    BY <1>0, <1>1, <1>5, <2>1, StreamAssumption DEF Locking, Unlocked, TypeOK
  <2> QED BY <2>2, <2>3, <1>1, <1>5 DEF Line, Closing, Settled, Held, browser
<1> QED BY <1>3, <1>4, <1>5 DEF PumpLock

LEMMA PumpReplayStep == ASSUME Inv, PumpReplay PROVE Inv'
<1> USE DEF Inv
<1> DEFINE e == pump.event
           fs == ReplayFrames(e - 1) \o (IF Replayed(e - 1) < e - 1 THEN <<Gap>> ELSE <<>>)
                     \o EventFrames(e, e)
<1>1. e \in 1..End /\ e \in 0..End /\ e > last + 1 /\ last =< e
  BY StreamAssumption DEF PumpReplay, Locking, TypeOK
<1>2. Send(fs, cmd, PumpIdle, e) /\ UNCHANGED <<logVars, wire, bridge, browser, faults>>
  BY DEF PumpReplay
<1>3. Run({}, fs, last, e)
  BY <1>1, PumpRun
<1>4. /\ PumpIdle \in [at : {"none", "idle", "lock", "replay", "dead"}, event : 0..End]
      /\ PumpIdle.at = "idle"
      /\ cmd \in [at : {"idle", "subscribe", "resume", "lock", "replay"},
                  after : -1..End, target : 0..End]
  BY StreamAssumption DEF PumpIdle, TypeOK
<1>5. link = "open" /\ Run(Held, sendq, 0, last) /\ last \in 0..End
  BY OpenLine DEF PumpReplay
<1> HIDE DEF fs, e
<1> QED BY <1>1, <1>2, <1>3, <1>4, <1>5, SentStep

LEMMA PumpFailsStep == ASSUME Inv, PumpFails PROVE Inv'
<1> USE DEF Inv
<1>1. /\ pump' = [at |-> "dead", event |-> 0] /\ queue' = <<>>
      /\ UNCHANGED <<logVars, wire, bridge, link, cmd, last, sendq, browser>>
      /\ faults' \in [{"drop", "outage", "silent", "db"} -> Nat]
  BY FaultTypes DEF PumpFails
<1>2. /\ pump' \in [at : {"none", "idle", "lock", "replay", "dead"}, event : 0..End]
      /\ pump'.at = "dead"
  BY <1>1, StreamAssumption
<1>3. <<>> \in Seq(0..End) /\ Len(<<>>) = 0 /\ 0 =< QueueMax
  BY StreamAssumption
<1>4. TypeOK'
  BY <1>1, <1>2, <1>3 DEF TypeOK, logVars, browser
<1>5. link = "open"
  BY OpenLine DEF PumpFails
<1> QED BY <1>1, <1>2, <1>4, <1>5 DEF Locking, Line, Closing, Settled, Held, browser

LEMMA CutStep == ASSUME Inv, Drop \/ ResumeFails PROVE Inv'
<1>1. (Terminate \/ Closed) /\ UNCHANGED <<logVars, wire, bridge, browser>>
  BY DEF Drop, ResumeFails
<1>2. faults' \in [{"drop", "outage", "silent", "db"} -> Nat]
  BY FaultTypes DEF Drop, ResumeFails, Inv
<1> QED BY <1>1, <1>2, ClosedStep

-----------------------------------------------------------------------------
\* The browser takes the head of the line.
LEMMA ReceiveStep == ASSUME Inv, Receive PROVE Inv'
<1> USE DEF Inv
<1> DEFINE f == Head(sendq)
<1>1. /\ sendq \in Seq(-1..End) /\ sendq # <<>> /\ sendq' = Tail(sendq) /\ f = sendq[1]
      /\ gapped' = (gapped \/ f = Gap)
      /\ IF f > 0
              THEN /\ got' = got \cup {f}
                   /\ following' = (f # End)
                   /\ seen' = IF f = End THEN 0 ELSE IF f > seen THEN f ELSE seen
              ELSE UNCHANGED <<got, following, seen>>
      /\ UNCHANGED <<logVars, wire, bridge, cmd, queue, pump, last, faults>>
      /\ link' \in Links /\ (link = "open" => link' = "open") /\ (Closing => Closing')
  BY DEF Receive, TypeOK, Links, Closing
<1>2. /\ f \in -1..End /\ Tail(sendq) \in Seq(-1..End) /\ Len(Tail(sendq)) = Len(sendq) - 1
      /\ \A i \in 1..Len(Tail(sendq)) : Tail(sendq)[i] = sendq[i + 1]
  BY <1>1, HeadTailProperties
<1>3. Len(sendq) \in Nat /\ Len(sendq) > 0 /\ 1 \in 1..Len(sendq)
  BY <1>1
<1>4. /\ Len(sendq') = Len(sendq) - 1
      /\ \A i \in 1..Len(sendq') : sendq'[i] = sendq[i + 1] /\ i + 1 \in 1..Len(sendq)
  BY <1>1, <1>2, <1>3
<1> HIDE DEF f
<1>5. \A i \in 1..Len(sendq) : sendq[i] \in -1..End /\ sendq[i] \in Int
  BY <1>1, ElementOfSeq, StreamAssumption
<1>6. Held \subseteq Held' /\ (f > 0 => f \in Held') /\ (f = Gap => Held' = 1..End)
  <2>1. got \subseteq got' /\ (f > 0 => f \in got')
    BY <1>1
  <2>2. got \subseteq 1..End /\ (f > 0 => f \in 1..End)
    BY <1>2, StreamAssumption DEF TypeOK
  <2>3. (gapped => gapped') /\ (f = Gap => gapped')
    BY <1>1
  <2> QED BY <2>1, <2>2, <2>3 DEF Held
<1>7. f > 0 => 1..(f - 1) \subseteq Held
  <2> SUFFICES ASSUME f > 0, NEW n \in 1..(f - 1) PROVE n \in Held
    OBVIOUS
  <2>1. sendq[1] > 0 /\ n \in (0 + 1)..(sendq[1] - 1)
    BY <1>1
  <2>2. /\ ~ \E j \in 1..(1 - 1) : sendq[j] = Gap
        /\ ~ \E j \in 1..(1 - 1) : sendq[j] = n
    OBVIOUS
  <2> QED BY <1>3, <2>1, <2>2 DEF Line, Part
<1>8. f > 0 => 1..f \subseteq Held'
  <2> SUFFICES ASSUME f > 0, NEW n \in 1..f PROVE n \in Held'
    OBVIOUS
  <2>1. n = f \/ n \in 1..(f - 1)
    BY <1>2, StreamAssumption
  <2> QED BY <2>1, <1>6, <1>7
<1>9. Settled'
  <2>1. \A n \in Held' : 1..n \subseteq Held'
    <3>1. CASE gapped'
      <4>1. Held' = 1..End
        BY <3>1 DEF Held
      <4> QED BY <4>1, StreamAssumption
    <3>2. CASE ~gapped'
      <4>1. ~gapped /\ Held = got /\ Held' = got'
        BY <3>2, <1>1 DEF Held
      <4>2. CASE f > 0
        <5>1. got' = got \cup {f}
          BY <1>1, <4>2
        <5> QED BY <4>1, <4>2, <5>1, <1>6, <1>8 DEF Settled
      <4>3. CASE ~(f > 0)
        <5>1. got' = got
          BY <1>1, <4>3
        <5> QED BY <4>1, <5>1 DEF Settled
      <4> QED BY <4>2, <4>3
    <3> QED BY <3>1, <3>2
  <2>2. 1..(seen') \subseteq Held'
    <3>1. CASE f > 0
      <4>1. seen' = 0 \/ seen' = f \/ seen' = seen
        BY <1>1, <3>1
      <4>2. 1..0 = {}
        OBVIOUS
      <4> QED BY <4>1, <4>2, <1>6, <1>8, <3>1 DEF Settled
    <3>2. CASE ~(f > 0)
      BY <3>2, <1>1, <1>6 DEF Settled
    <3> QED BY <3>1, <3>2
  <2> QED BY <2>1, <2>2, <1>1, <1>6 DEF Settled
<1>10. Locking'
  BY <1>1 DEF Locking
<1>11. TypeOK'
  <2>1. seen' \in 0..End /\ following' \in BOOLEAN /\ got' \subseteq 1..End /\ gapped' \in BOOLEAN
    <3>1. CASE f > 0
      <4>1. f \in 1..End /\ f \in 0..End /\ 0 \in 0..End
        BY <3>1, <1>2, StreamAssumption
      <4>2. seen' \in 0..End /\ got' \subseteq 1..End
        BY <3>1, <4>1, <1>1 DEF TypeOK
      <4> QED BY <3>1, <4>2, <1>1 DEF TypeOK
    <3>2. CASE ~(f > 0)
      BY <3>2, <1>1 DEF TypeOK
    <3> QED BY <3>1, <3>2
  <2>2. sendq' \in Seq(-1..End) /\ Len(sendq') =< SendMax
    <3>1. Len(sendq) =< SendMax
      BY DEF TypeOK
    <3> QED BY <3>1, <1>1, <1>2, <1>3, StreamAssumption
  <2> QED BY <1>1, <2>1, <2>2 DEF TypeOK, logVars
<1>12. Line'
  <2>1. sendq' \in Frames
    BY <1>1, <1>2 DEF Frames
  <2>2. \A i \in 1..Len(sendq') :
           /\ sendq'[i] =< last
           /\ sendq'[i] > 0 => sendq'[i] > 0 /\ \A j \in 1..(i - 1) : sendq'[j] < sendq'[i]
    <3> SUFFICES ASSUME NEW i \in 1..Len(sendq')
                 PROVE  /\ sendq'[i] =< last
                        /\ sendq'[i] > 0 => \A j \in 1..(i - 1) : sendq'[j] < sendq'[i]
      OBVIOUS
    <3>1. sendq'[i] = sendq[i + 1] /\ i + 1 \in 1..Len(sendq)
      BY <1>4
    <3>2. \A j \in 1..(i - 1) : sendq'[j] = sendq[j + 1] /\ j + 1 \in 1..((i + 1) - 1)
      BY <1>4, <1>3
    <3>3. /\ sendq[i + 1] =< last
          /\ sendq[i + 1] > 0 => \A j \in 1..((i + 1) - 1) : sendq[j] < sendq[i + 1]
      BY <3>1 DEF Line, Part
    <3> QED BY <3>1, <3>2, <3>3
  <2>3. \A i \in 1..Len(sendq') : sendq'[i] > 0 =>
           \/ \E j \in 1..(i - 1) : sendq'[j] = Gap
           \/ \A n \in (0 + 1)..(sendq'[i] - 1) : n \in Held' \/ \E j \in 1..(i - 1) : sendq'[j] = n
    <3> SUFFICES ASSUME NEW i \in 1..Len(sendq'), sendq'[i] > 0,
                        ~ \E j \in 1..(i - 1) : sendq'[j] = Gap,
                        NEW n \in (0 + 1)..(sendq'[i] - 1), n \notin Held'
                 PROVE  \E j \in 1..(i - 1) : sendq'[j] = n
      OBVIOUS
    <3>1. sendq'[i] = sendq[i + 1] /\ i + 1 \in 1..Len(sendq)
      BY <1>4
    <3>2. \A j \in 2..((i + 1) - 1) : j - 1 \in 1..(i - 1) /\ sendq'[j - 1] = sendq[j]
      BY <1>4, <1>3
    <3>3. n \in 1..End
      BY <3>1, <1>5, StreamAssumption
    <3>4. sendq[1] # Gap
      BY <1>1, <1>6, <3>3
    <3>5. ~ \E j \in 1..((i + 1) - 1) : sendq[j] = Gap
      <4>1. \A j \in 1..((i + 1) - 1) : j = 1 \/ j \in 2..((i + 1) - 1)
        OBVIOUS
      <4> QED BY <4>1, <3>2, <3>4
    <3>6. \E j \in 1..((i + 1) - 1) : sendq[j] = n
      <4>1. n \notin Held
        BY <1>6
      <4> QED BY <3>1, <3>5, <4>1 DEF Line, Part
    <3>7. sendq[1] # n
      BY <1>1, <1>6, <3>3, StreamAssumption
    <3>8. PICK j \in 2..((i + 1) - 1) : sendq[j] = n
      <4>1. \A j \in 1..((i + 1) - 1) : j = 1 \/ j \in 2..((i + 1) - 1)
        OBVIOUS
      <4> QED BY <4>1, <3>6, <3>7
    <3> QED BY <3>2, <3>8
  <2>4. ~Closing' =>
        \/ \E j \in 1..Len(sendq') : sendq'[j] = Gap
        \/ \A n \in (0 + 1)..last : n \in Held' \/ \E j \in 1..Len(sendq') : sendq'[j] = n
    <3> SUFFICES ASSUME ~Closing', ~ \E j \in 1..Len(sendq') : sendq'[j] = Gap,
                        NEW n \in (0 + 1)..last, n \notin Held'
                 PROVE  \E j \in 1..Len(sendq') : sendq'[j] = n
      OBVIOUS
    <3>1. \A j \in 2..Len(sendq) : j - 1 \in 1..Len(sendq') /\ sendq'[j - 1] = sendq[j]
      BY <1>4, <1>3
    <3>2. \A j \in 1..Len(sendq) : j = 1 \/ j \in 2..Len(sendq)
      BY <1>3
    <3>3. n \in 1..End
      BY StreamAssumption DEF TypeOK
    <3>4. sendq[1] # Gap /\ sendq[1] # n
      BY <1>1, <1>6, <3>3, StreamAssumption
    <3>5. ~ \E j \in 1..Len(sendq) : sendq[j] = Gap
      BY <3>1, <3>2, <3>4
    <3>6. \E j \in 1..Len(sendq) : sendq[j] = n
      <4>1. n \notin Held
        BY <1>6
      <4>2. Run(Held, sendq, 0, last)
        BY <1>1 DEF Line
      <4> QED BY <3>5, <4>1, <4>2 DEF Run
    <3>7. PICK j \in 2..Len(sendq) : sendq[j] = n
      BY <3>2, <3>4, <3>6
    <3> QED BY <3>1, <3>7
  <2>5. Part(Held', sendq', 0, last)
    BY <2>1, <2>2, <2>3 DEF Part
  <2>6. ~Closing' => Run(Held', sendq', 0, last)
    BY <2>4, <2>5 DEF Run
  <2> QED BY <2>5, <2>6, <1>1 DEF Line
<1> QED BY <1>9, <1>10, <1>11, <1>12

-----------------------------------------------------------------------------
LEMMA InvInit == Init => Inv
<1> SUFFICES ASSUME Init PROVE Inv
  OBVIOUS
<1>1. Held = {} /\ cmd.after = 0 /\ seen = 0 /\ 1..0 = {}
  BY DEF Init, Held, Idle
<1>2. TypeOK
  <2>1. Len(<<>>) = 0 /\ <<>> \in Seq(0..End) /\ <<>> \in Seq(-1..End)
    OBVIOUS
  <2>2. faults \in [{"drop", "outage", "silent", "db"} -> Nat]
    BY StreamAssumption DEF Init
  <2>3. /\ cmd \in [at : {"idle", "subscribe", "resume", "lock", "replay"},
                    after : -1..End, target : 0..End]
        /\ pump \in [at : {"none", "idle", "lock", "replay", "dead"}, event : 0..End]
    BY StreamAssumption DEF Init, Idle, NoPump
  <2>4. /\ queue \in Seq(0..End) /\ Len(queue) =< QueueMax
        /\ sendq \in Seq(-1..End) /\ Len(sendq) =< SendMax
    BY <2>1, StreamAssumption DEF Init
  <2>5. top \in 0..End /\ floor \in 0..(End - 1) /\ last \in 0..End /\ seen \in 0..End
    BY StreamAssumption DEF Init
  <2> QED BY <2>2, <2>3, <2>4, <2>5 DEF Init, TypeOK, Links
<1>3. Line
  BY EmptyRun, StreamAssumption DEF Init, Line, Run
<1>4. Settled /\ Locking
  BY <1>1 DEF Settled, Locking, Init, NoPump, Idle
<1> QED BY <1>2, <1>3, <1>4 DEF Inv

LEMMA InvStep == Inv /\ [Next]_vars => Inv'
<1> SUFFICES ASSUME Inv, [Next]_vars PROVE Inv'
  OBVIOUS
<1>1. CASE Next
  BY <1>1, TransportStep, ConnectStep, SubscribeStep, ResumeTargetStep, ResumeLockStep,
     ResumeReplayStep, PumpTakeStep, PumpLockStep, PumpReplayStep, PumpFailsStep,
     CutStep, ReceiveStep, SenderStep
     DEF Next, Transport, Connection, Environment
<1>2. CASE UNCHANGED vars
  BY <1>2 DEF vars, logVars, connVars, browser, Inv, TypeOK, Locking, Line, Closing, Settled, Held
<1> QED BY <1>1, <1>2

\* The invariant holds, for every turn, every capacity and every fault.
THEOREM Invariance == Spec => []Inv
BY InvInit, InvStep, PTL DEF Spec

\* Type correctness of the stream's state; the two queues of the connection
\* never outgrow their limits (GatewayEventBroker.publish, send).
THEOREM TypesHold == Spec => []TypeOK
<1>1. Inv => TypeOK
  BY DEF Inv
<1> QED BY <1>1, Invariance, PTL

\* The browser is never handed an event with a hole before it, whatever
\* Pub/Sub, the queues and the connections lose, unless stream.gap said so
\* (_deliver_gateway_event, replay_turn, lastSequences).
THEOREM NothingIsSkipped == Spec => []NoSilentGap
<1>1. Inv => NoSilentGap
  BY DEF Inv, Settled, Held, NoSilentGap
<1> QED BY <1>1, Invariance, PTL

\* A connection queues an event once and after all the earlier ones,
\* although a resume and the pump send concurrently (_turn_locks,
\* _send_gateway_event_locked).
THEOREM FramesAreOrdered == Spec => []InOrder
<1>1. Inv => InOrder
  <2> SUFFICES ASSUME Inv PROVE InOrder
    OBVIOUS
  <2>1. DOMAIN sendq = 1..Len(sendq)
    BY DEF Inv, TypeOK
  <2> QED BY <2>1 DEF Inv, Line, Part, InOrder
<1> QED BY <1>1, Invariance, PTL

=============================================================================
