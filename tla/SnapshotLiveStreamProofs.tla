---------------------- MODULE SnapshotLiveStreamProofs ----------------------
(***************************************************************************)
(* Theorems about SnapshotLiveStream, for every subject, replay limit and  *)
(* buffer capacity, and any number of commits, purges, lost connections,   *)
(* evictions and restarts.                                                 *)
(***************************************************************************)
EXTENDS SnapshotLiveStream, TLAPS

-----------------------------------------------------------------------------
(* The invariant *)

\* The log of a purged subject is empty, and stays empty; nothing else takes its events away.
Whole == IF exists THEN Subject \cap (1 .. last) \subseteq rows ELSE Subject \cap rows = {}

\* The subscription is attached while there is a stream.
Attached ==
    IF phase = "off" THEN position[ui] = Detached /\ Quiet ELSE position[ui] \in 0 .. published

Within(s, r) == \E i \in DOMAIN s : s[i] = r
Rising(s) == \A i, j \in DOMAIN s : i < j => s[i] < s[j]
Before(s, t) == \A a, b : Within(s, a) /\ Within(t, b) => a < b

\* An event has arrived and the client has not taken it yet.
Waiting(r) == Within(queue, r) \/ Within(chunk, r) \/ Within(buffer, r)

\* The events that wait are in order, and the lag counts at least those that the queue has not.
InLine ==
    /\ Rising(queue) /\ Rising(chunk) /\ Rising(buffer)
    /\ Before(queue, chunk) /\ Before(queue, buffer) /\ Before(chunk, buffer)
    /\ \A r : Waiting(r) => r \in Subject /\ r \in 1 .. position[ui]
    /\ Len(buffer) + Len(chunk) <= lag

\* No event is missing in front of one that waits or, while nothing was lost, up to the last received.
Complete ==
    phase \in {"check", "fenced", "replay", "live"} =>
        /\ hw <= last
        /\ \A r \in rows \cap Subject :
             /\ hw < r /\ r <= position[ui]
             /\ ~lost \/ \E e : Waiting(e) /\ r < e
             => Waiting(r) \/ (phase = "live" /\ r <= cursor)

\* What each phase knows of the cursor it will leave behind.
Phased ==
    /\ phase \in {"head", "check"} => resume = cursor /\ cursor # None
    /\ phase \in {"loaded", "fenced"} => snap <= last /\ (loaded # None => snap <= loaded)
    /\ phase = "fenced" => \A r \in rows \cap Subject : hw < r => snap < r
    /\ phase = "replay" => at = cursor /\ cursor # None /\ \A r \in rows \cap Subject : hw < r => cursor < r
    /\ phase = "live" =>
         /\ cursor # None
         /\ \A r \in rows \cap Subject :
              /\ r <= hw => r <= cursor
              /\ hw < r /\ (Waiting(r) \/ position[ui] < r) => cursor < r

\* The view contains what is in the log up to the cursor.
Vouches ==
    cursor # None => cursor <= last /\ \A r \in rows \cap Subject : r <= cursor => r \in has

IInv == TypeOK /\ Whole /\ Attached /\ InLine /\ Complete /\ Phased /\ Vouches /\ (exists => ~again)

-----------------------------------------------------------------------------
(* Sequences in ascending order *)

\* An element more at the end.
LEMMA AppendedFacts ==
  ASSUME NEW S, NEW s \in Seq(S), NEW e \in S
  PROVE  /\ Append(s, e) \in Seq(S) /\ Len(Append(s, e)) = Len(s) + 1
         /\ \A r : Within(Append(s, e), r) <=> Within(s, r) \/ r = e
         /\ Rising(s) /\ (\A r : Within(s, r) => r < e) => Rising(Append(s, e))
<1> DEFINE t == Append(s, e)
           n == Len(s) + 1
<1>1. /\ t \in Seq(S) /\ Len(t) = n /\ Len(s) \in Nat /\ DOMAIN s = 1 .. Len(s)
      /\ DOMAIN t = DOMAIN s \cup {n} /\ n \notin DOMAIN s /\ t[n] = e /\ \A i \in DOMAIN s : t[i] = s[i]
  OBVIOUS
<1> HIDE DEF t
<1>2. \A r : Within(t, r) <=> Within(s, r) \/ r = e
  BY <1>1 DEF Within
<1>3. ASSUME Rising(s), \A r : Within(s, r) => r < e PROVE Rising(t)
  <2>1. \A i \in DOMAIN s : s[i] < e
    BY <1>3 DEF Within
  <2>2. QED
    BY <1>1, <1>3, <2>1 DEF Rising
<1>4. QED
  BY <1>1, <1>2, <1>3 DEF t

\* The first element is taken.
LEMMA TakenFacts ==
  ASSUME NEW S, NEW s \in Seq(S), s # <<>>
  PROVE  /\ Head(s) \in S /\ Tail(s) \in Seq(S) /\ Len(Tail(s)) = Len(s) - 1 /\ Len(s) \in Nat \ {0}
         /\ \A r : Within(s, r) <=> r = Head(s) \/ Within(Tail(s), r)
         /\ Rising(s) => Rising(Tail(s)) /\ \A r : Within(Tail(s), r) => Head(s) < r
<1> DEFINE t == Tail(s)
<1>1. /\ t \in Seq(S) /\ Len(t) = Len(s) - 1 /\ Len(s) \in Nat \ {0} /\ DOMAIN s = 1 .. Len(s)
      /\ DOMAIN t = 1 .. Len(s) - 1 /\ Head(s) = s[1] /\ Head(s) \in S
      /\ \A i \in DOMAIN t : t[i] = s[i + 1] /\ i + 1 \in DOMAIN s /\ 1 < i + 1
  OBVIOUS
<1> HIDE DEF t
<1>2. \A r : Within(s, r) <=> r = Head(s) \/ Within(t, r)
  <2>1. ASSUME NEW r, Within(s, r) PROVE r = Head(s) \/ Within(t, r)
    <3>1. PICK i \in DOMAIN s : s[i] = r
      BY <2>1 DEF Within
    <3>2. CASE i = 1
      BY <1>1, <3>1, <3>2
    <3>3. CASE i # 1
      <4>1. i - 1 \in DOMAIN t /\ t[i - 1] = r
        BY <1>1, <3>1, <3>3
      <4>2. QED
        BY <4>1 DEF Within
    <3>4. QED
      BY <3>2, <3>3
  <2>2. ASSUME NEW r, r = Head(s) \/ Within(t, r) PROVE Within(s, r)
    BY <1>1, <2>2 DEF Within
  <2>3. QED
    BY <2>1, <2>2
<1>3. ASSUME Rising(s) PROVE Rising(t) /\ \A r : Within(t, r) => Head(s) < r
  <2>1. Rising(t)
    BY <1>1, <1>3 DEF Rising
  <2>2. \A i \in DOMAIN t : Head(s) < t[i]
    <3>1. 1 \in DOMAIN s
      BY <1>1
    <3>2. QED
      BY <1>1, <1>3, <3>1 DEF Rising
  <2>3. QED
    BY <2>1, <2>2 DEF Within
<1>4. QED
  BY <1>1, <1>2, <1>3 DEF t

\* The first n elements are taken.
LEMMA SplitFacts ==
  ASSUME NEW S, NEW s \in Seq(S), NEW n \in 1 .. Len(s)
  PROVE  LET a == SubSeq(s, 1, n)
             b == SubSeq(s, n + 1, Len(s))
         IN  /\ a \in Seq(S) /\ b \in Seq(S) /\ Len(a) + Len(b) = Len(s)
             /\ \A r : Within(s, r) <=> Within(a, r) \/ Within(b, r)
             /\ Rising(s) => Rising(a) /\ Rising(b) /\ Before(a, b)
<1> DEFINE a == SubSeq(s, 1, n)
           b == SubSeq(s, n + 1, Len(s))
<1>1. /\ a \in Seq(S) /\ Len(a) = n /\ DOMAIN a = 1 .. n /\ \A i \in 1 .. n : a[i] = s[i]
      /\ DOMAIN s = 1 .. Len(s) /\ Len(s) \in Nat
  OBVIOUS
<1>2. /\ b \in Seq(S) /\ Len(b) = Len(s) - n /\ DOMAIN b = 1 .. Len(s) - n
      /\ \A i \in 1 .. Len(s) - n : b[i] = s[i + n]
  OBVIOUS
<1> HIDE DEF a, b
<1>3. \A r : Within(s, r) <=> Within(a, r) \/ Within(b, r)
  <2>1. ASSUME NEW r, Within(s, r) PROVE Within(a, r) \/ Within(b, r)
    <3>1. PICK i \in DOMAIN s : s[i] = r
      BY <2>1 DEF Within
    <3>2. CASE i <= n
      <4>1. i \in DOMAIN a /\ a[i] = r
        BY <1>1, <3>1, <3>2
      <4>2. QED
        BY <4>1 DEF Within
    <3>3. CASE n < i
      <4>1. i - n \in DOMAIN b /\ b[i - n] = r
        BY <1>1, <1>2, <3>1, <3>3
      <4>2. QED
        BY <4>1 DEF Within
    <3>4. QED
      BY <1>1, <3>2, <3>3
  <2>2. \A i \in DOMAIN a : i \in DOMAIN s /\ a[i] = s[i]
    BY <1>1
  <2>3. \A i \in DOMAIN b : i + n \in DOMAIN s /\ b[i] = s[i + n]
    BY <1>1, <1>2
  <2>4. QED
    BY <2>1, <2>2, <2>3 DEF Within
<1>4. ASSUME Rising(s) PROVE Rising(a) /\ Rising(b) /\ Before(a, b)
  <2>1. Rising(a)
    BY <1>1, <1>4 DEF Rising
  <2>2. Rising(b)
    <3>1. ASSUME NEW i \in DOMAIN b, NEW j \in DOMAIN b, i < j PROVE b[i] < b[j]
      <4>1. i + n \in DOMAIN s /\ j + n \in DOMAIN s /\ i + n < j + n
        BY <1>1, <1>2, <3>1
      <4>2. QED
        BY <1>2, <1>4, <4>1 DEF Rising
    <3>2. QED
      BY <3>1 DEF Rising
  <2>3. \A i \in DOMAIN a, j \in DOMAIN b : a[i] < b[j]
    <3>1. ASSUME NEW i \in DOMAIN a, NEW j \in DOMAIN b PROVE a[i] < b[j]
      <4>1. i \in DOMAIN s /\ j + n \in DOMAIN s /\ i < j + n
        BY <1>1, <1>2, <3>1
      <4>2. QED
        BY <1>1, <1>2, <1>4, <4>1 DEF Rising
    <3>2. QED
      BY <3>1
  <2>4. QED
    BY <2>1, <2>2, <2>3 DEF Before, Within
<1>5. Len(a) + Len(b) = Len(s)
  BY <1>1, <1>2
<1>6. a \in Seq(S) /\ b \in Seq(S)
  BY <1>1, <1>2
<1>7. QED
  BY <1>3, <1>4, <1>5, <1>6 DEF a, b

-----------------------------------------------------------------------------
(* The server *)

\* Sequences, cursors and positions are numbers within the log.
LEMMA Numbers ==
  ASSUME IInv
  PROVE  /\ {last, published, fence, hw, snap, at} \subseteq Nat
         /\ published <= last /\ fence <= last /\ last <= MaxSequence /\ MaxSequence \in Nat
         /\ \A r \in rows : r \in Nat /\ 1 <= r /\ r <= last
         /\ position[ui] \in Int /\ position[ui] <= published
         /\ cursor # None => cursor \in Nat /\ cursor <= MaxSequence /\ cursor <= last
         /\ \A n \in Nat : n # None
BY SizeAssumption, NoneAssumption DEF IInv, TypeOK, Cursors, Vouches

\* Steps away from the stream leave the events that wait where they are.
LEMMA LineStays ==
  ASSUME IInv, UNCHANGED liveVars, position' = position
  PROVE  /\ UNCHANGED <<buffer, lag, lost, chunk, queue>> /\ InLine'
         /\ \A r : Waiting(r)' <=> Waiting(r)
<1>1. UNCHANGED <<buffer, lag, lost, chunk, queue>>
  BY DEF liveVars
<1>2. \A r : Waiting(r)' <=> Waiting(r)
  BY <1>1 DEF Waiting
<1>3. QED
  BY <1>1, <1>2 DEF IInv, InLine, Waiting, Within

\* Rows are added behind every cursor, or taken away.
LEMMA LogMoves ==
  ASSUME IInv, UNCHANGED <<phase, startVars, liveVars, clientVars, position, published, fence>>,
         last' \in last .. MaxSequence, rows' \subseteq 1 .. last', \A r \in rows' : r \in rows \/ last < r,
         Whole', exists' \in BOOLEAN, exists' => exists, deleted' \in BOOLEAN
  PROVE  IInv'
<1>1. /\ UNCHANGED <<resume, snap, loaded, hw, at, cursor, has, again>>
      /\ UNCHANGED <<buffer, lag, lost, chunk, queue>> /\ InLine' /\ \A r : Waiting(r)' <=> Waiting(r)
  BY LineStays DEF startVars, clientVars
<1>2. last' \in Nat /\ last <= last' /\ last' <= MaxSequence /\ published <= last' /\ fence <= last'
  BY Numbers
<1>3. TypeOK'
  <2>1. last' \in 0 .. MaxSequence /\ published' \in 0 .. last' /\ fence' \in 0 .. last' /\ rows' \subseteq 1 .. last'
    BY <1>2, Numbers DEF IInv, TypeOK
  <2>2. QED
    BY <1>1, <2>1 DEF IInv, TypeOK
<1>4. Attached'
  BY <1>1 DEF IInv, Attached, Quiet
<1>5. Complete'
  <2>1. \A r \in rows' : r <= position[ui] => r \in rows
    BY <1>2, Numbers
  <2>2. hw <= last => hw <= last'
    BY <1>2, Numbers
  <2>3. QED
    BY <1>1, <2>1, <2>2 DEF IInv, Complete
<1>6. Phased'
  <2>1. ASSUME NEW r \in rows', r \notin rows
        PROVE  (phase = "fenced" => snap < r) /\ (cursor # None => cursor < r) /\ (phase = "live" => hw < r)
    <3>1. last < r /\ r \in Nat
      BY <1>2, <2>1
    <3>2. QED
      BY <3>1, Numbers DEF IInv, Phased, Complete
  <2>2. phase \in {"loaded", "fenced"} => snap <= last'
    BY <1>2, Numbers DEF IInv, Phased
  <2>3. ASSUME phase = "live", NEW r \in rows' \cap Subject
        PROVE  /\ r <= hw => r <= cursor
               /\ hw < r /\ (Waiting(r) \/ position[ui] < r) => cursor < r
    <3>1. CASE r \in rows
      BY <2>3, <3>1 DEF IInv, Phased
    <3>2. CASE r \notin rows
      <4>1. cursor < r /\ hw < r /\ r \in Nat /\ hw \in Nat
        BY <1>2, <2>1, <2>3, <3>2, Numbers DEF IInv, Phased
      <4>2. QED
        BY <4>1
    <3>3. QED
      BY <3>1, <3>2
  <2>4. QED
    BY <1>1, <2>1, <2>2, <2>3 DEF IInv, Phased
<1>7. Vouches'
  <2>1. \A r \in rows' : cursor # None /\ r <= cursor => r \in rows
    BY <1>2, Numbers
  <2>2. cursor # None => cursor <= last'
    BY <1>2, Numbers
  <2>3. QED
    BY <1>1, <2>1, <2>2 DEF IInv, Vouches
<1>8. QED
  BY <1>1, <1>3, <1>4, <1>5, <1>6, <1>7 DEF IInv

LEMMA CommitStep == ASSUME IInv, Commit PROVE IInv'
<1>1. /\ last' \in last + 1 .. MaxSequence /\ rows' = rows \cup (last + 1 .. last') /\ UNCHANGED <<published, position>>
      /\ exists \/ (last + 1 .. last') \cap Subject = {}
      /\ UNCHANGED <<fence, exists, phase, startVars, liveVars, clientVars>> /\ deleted' \in {deleted, TRUE}
  BY DEF Commit, AppendRows
<1>2. last \in Nat /\ MaxSequence \in Nat /\ last' \in Nat /\ rows \subseteq 1 .. last
  BY <1>1, Numbers DEF IInv, TypeOK
<1>3. last' \in last .. MaxSequence /\ rows' \subseteq 1 .. last' /\ \A r \in rows' : r \in rows \/ last < r
  BY <1>1, <1>2
<1>4. Whole'
  BY <1>1, <1>2 DEF IInv, Whole
<1>5. QED
  BY <1>1, <1>3, <1>4, LogMoves DEF IInv, TypeOK

LEMMA PublishStep == ASSUME IInv, Publish PROVE IInv'
<1>1. /\ published' \in published .. last /\ UNCHANGED <<rows, last, position, fence, exists, deleted, phase, startVars, liveVars, clientVars>>
  BY DEF Publish, Announce, storeVars
<1>2. /\ UNCHANGED <<resume, snap, loaded, hw, at, cursor, has, again>>
      /\ UNCHANGED <<buffer, lag, lost, chunk, queue>> /\ InLine' /\ \A r : Waiting(r)' <=> Waiting(r)
  BY <1>1, LineStays DEF startVars, clientVars
<1>3. published' \in 0 .. last /\ published' \in Nat /\ published <= published'
  BY <1>1, Numbers
<1>4. TypeOK' /\ Attached'
  <2>1. position[ui] \in -1 .. published' /\ (position[ui] \in 0 .. published => position[ui] \in 0 .. published')
    BY <1>3, Numbers DEF IInv, TypeOK
  <2>2. QED
    BY <1>1, <1>2, <1>3, <2>1 DEF IInv, TypeOK, Attached, Quiet
<1>5. Whole' /\ Complete' /\ Phased' /\ Vouches'
  BY <1>1, <1>2 DEF IInv, Whole, Complete, Phased, Vouches
<1>6. QED
  BY <1>1, <1>2, <1>4, <1>5 DEF IInv

LEMMA ProjectStep == ASSUME IInv, Project PROVE IInv'
<1>1. fence' \in fence + 1 .. last /\ UNCHANGED <<rows, last, published, position, exists, deleted, phase, startVars, liveVars, clientVars>>
  BY DEF Project, readerVars
<1>2. /\ UNCHANGED <<resume, snap, loaded, hw, at, cursor, has, again>>
      /\ UNCHANGED <<buffer, lag, lost, chunk, queue>> /\ InLine' /\ \A r : Waiting(r)' <=> Waiting(r)
  BY <1>1, LineStays DEF startVars, clientVars
<1>3. fence' \in 0 .. last
  BY <1>1, Numbers
<1>4. TypeOK' /\ Attached'
  BY <1>1, <1>2, <1>3 DEF IInv, TypeOK, Attached, Quiet
<1>5. Whole' /\ Complete' /\ Phased' /\ Vouches'
  BY <1>1, <1>2 DEF IInv, Whole, Complete, Phased, Vouches
<1>6. QED
  BY <1>1, <1>2, <1>4, <1>5 DEF IInv

LEMMA PurgeStep == ASSUME IInv, PurgeThread PROVE IInv'
<1>1. /\ rows' \subseteq rows /\ UNCHANGED <<last, published, position, fence, deleted, phase, startVars, liveVars, clientVars>>
      /\ \/ rows' = rows \ Subject /\ exists' = FALSE
         \/ rows \ rows' \subseteq (1 .. last) \ Subject /\ exists' = exists
  BY DEF PurgeThread, Purge
<1>2. Whole'
  BY <1>1 DEF IInv, Whole
<1>3. exists' \in BOOLEAN /\ (exists' => exists) /\ deleted' \in BOOLEAN
  <2>1. exists \in BOOLEAN /\ deleted' \in BOOLEAN
    BY <1>1 DEF IInv, TypeOK
  <2>2. CASE exists' = FALSE
    BY <2>1, <2>2
  <2>3. CASE exists' = exists
    BY <2>1, <2>3
  <2>4. QED
    BY <1>1, <2>2, <2>3
<1>4. last' \in last .. MaxSequence /\ rows' \subseteq 1 .. last'
  BY <1>1, Numbers DEF IInv, TypeOK
<1>5. QED
  BY <1>1, <1>2, <1>3, <1>4, LogMoves

-----------------------------------------------------------------------------
(* Live events *)

LEMMA PullStep == ASSUME IInv, PullChunk PROVE IInv'
<1>1. /\ UNCHANGED <<rows, last, published, position, fence, exists, deleted, phase, resume, snap, loaded, hw, at, lag, lost, queue,
                     cursor, has, again>>
      /\ chunk = <<>> /\ buffer # <<>>
      /\ \E n \in 1 .. Len(buffer) : chunk' = SubSeq(buffer, 1, n) /\ buffer' = SubSeq(buffer, n + 1, Len(buffer))
  BY DEF PullChunk, readerVars, storeVars, startVars, clientVars
<1>2. buffer \in Seq(Subject) /\ Rising(buffer) /\ Before(queue, buffer) /\ Len(buffer) + Len(chunk) <= lag
  BY DEF IInv, TypeOK, InLine
<1>3. /\ chunk' \in Seq(Subject) /\ buffer' \in Seq(Subject) /\ Len(chunk') + Len(buffer') = Len(buffer)
      /\ \A r : Within(buffer, r) <=> Within(chunk', r) \/ Within(buffer', r)
      /\ Rising(chunk') /\ Rising(buffer') /\ Before(chunk', buffer')
  BY <1>1, <1>2, SplitFacts
<1>4. \A r : ~Within(chunk, r)
  BY <1>1 DEF Within
<1>5. \A r : Waiting(r)' <=> Waiting(r)
  <2>1. \A r : /\ Waiting(r)' <=> Within(queue, r) \/ Within(chunk', r) \/ Within(buffer', r)
               /\ Waiting(r) <=> Within(queue, r) \/ Within(buffer, r)
    BY <1>1, <1>4 DEF Waiting, Within
  <2>2. QED
    BY <1>3, <2>1
<1>6. InLine'
  <2>1. Before(queue, chunk') /\ Before(queue, buffer')
    BY <1>2, <1>3 DEF Before
  <2>2. Len(buffer') + Len(chunk') <= lag
    BY <1>1, <1>2, <1>3 DEF IInv, TypeOK
  <2>3. Rising(queue)
    BY DEF IInv, InLine
  <2>4. \A r : Waiting(r)' => r \in Subject /\ r \in 1 .. position[ui]
    BY <1>5 DEF IInv, InLine
  <2>5. Rising(queue)' /\ Rising(chunk)' /\ Rising(buffer)' /\ Before(queue, chunk)' /\ Before(queue, buffer)'
        /\ Before(chunk, buffer)'
    BY <1>1, <1>3, <2>1, <2>3 DEF Rising, Before, Within
  <2>6. QED
    BY <1>1, <2>2, <2>4, <2>5 DEF InLine
<1>7. TypeOK'
  BY <1>1, <1>3 DEF IInv, TypeOK
<1>8. phase # "off"
  BY <1>1 DEF IInv, Attached, Quiet
<1>9. Attached' /\ Whole' /\ Complete' /\ Phased' /\ Vouches'
  BY <1>1, <1>5, <1>8 DEF IInv, Attached, Whole, Complete, Phased, Vouches
<1>10. QED
  BY <1>1, <1>6, <1>7, <1>9 DEF IInv

LEMMA HandOverStep == ASSUME IInv, HandOver PROVE IInv'
<1>1. /\ UNCHANGED <<rows, last, published, position, fence, exists, deleted, phase, resume, snap, loaded, hw, at, lost, buffer,
                     cursor, has, again>>
      /\ chunk # <<>> /\ queue' = Append(queue, Head(chunk)) /\ chunk' = Tail(chunk) /\ lag' = lag - 1
  BY DEF HandOver, readerVars, storeVars, startVars, clientVars
<1>2. /\ queue \in Seq(Subject) /\ chunk \in Seq(Subject) /\ buffer \in Seq(Subject) /\ lag \in Nat
      /\ Rising(queue) /\ Rising(chunk) /\ Rising(buffer)
      /\ Before(queue, chunk) /\ Before(queue, buffer) /\ Before(chunk, buffer) /\ Len(buffer) + Len(chunk) <= lag
  BY DEF IInv, TypeOK, InLine
<1> DEFINE e == Head(chunk)
<1>3. /\ e \in Subject /\ chunk' \in Seq(Subject) /\ Len(chunk') = Len(chunk) - 1 /\ Len(chunk) \in Nat \ {0}
      /\ \A r : Within(chunk, r) <=> r = e \/ Within(chunk', r)
      /\ Rising(chunk') /\ \A r : Within(chunk', r) => e < r
  BY <1>1, <1>2, TakenFacts
<1>4. \A r : Within(queue, r) => r < e
  BY <1>2, <1>3 DEF Before
<1>5. /\ queue' \in Seq(Subject) /\ Rising(queue')
      /\ \A r : Within(queue', r) <=> Within(queue, r) \/ r = e
  BY <1>1, <1>2, <1>3, <1>4, AppendedFacts
<1> HIDE DEF e
<1>6. \A r : Waiting(r)' <=> Waiting(r)
  <2>1. \A r : Waiting(r)' <=> Within(queue', r) \/ Within(chunk', r) \/ Within(buffer, r)
    BY <1>1 DEF Waiting, Within
  <2>2. QED
    BY <1>3, <1>5, <2>1 DEF Waiting
<1>7. InLine'
  <2>1. Before(queue', chunk') /\ Before(queue', buffer) /\ Before(chunk', buffer)
    BY <1>2, <1>3, <1>5 DEF Before
  <2>2. Len(buffer) + Len(chunk') <= lag'
    BY <1>1, <1>2, <1>3
  <2>3. \A r : Waiting(r)' => r \in Subject /\ r \in 1 .. position[ui]
    BY <1>6 DEF IInv, InLine
  <2>4. Rising(queue') /\ Rising(chunk') /\ Rising(buffer)
    BY <1>2, <1>3, <1>5
  <2>5. QED
    BY <1>1, <2>1, <2>2, <2>3, <2>4 DEF InLine, Rising, Before, Within
<1>8. lag' \in Nat
  <2>1. Len(buffer) \in Nat
    BY <1>2
  <2>2. QED
    BY <1>1, <1>2, <1>3, <2>1
<1>9. TypeOK'
  BY <1>1, <1>3, <1>5, <1>8 DEF IInv, TypeOK
<1>10. phase # "off"
  BY <1>1 DEF IInv, Attached, Quiet
<1>11. Attached' /\ Whole' /\ Complete' /\ Phased' /\ Vouches'
  BY <1>1, <1>6, <1>10 DEF IInv, Attached, Whole, Complete, Phased, Vouches
<1>12. QED
  BY <1>1, <1>7, <1>9, <1>11 DEF IInv

\* The next event is received: no row is between it and the position.
LEMMA ArrivalFacts ==
  ASSUME IInv, LiveArrives
  PROVE  LET e == position'[ui]
         IN  /\ UNCHANGED <<rows, last, published, fence, exists, deleted, phase, resume, snap, loaded, hw, at, chunk, queue,
                            cursor, has, again>>
             /\ phase # "off" /\ ~lost /\ position' \in [Readers -> Int] /\ position[ui] \in Nat
             /\ e \in Nat /\ position[ui] < e /\ e <= published
             /\ \A r \in rows : r <= e => r <= position[ui] \/ r = e
             /\ IF e \in Subject
                THEN /\ lag' = lag + 1 /\ lost' \in BOOLEAN
                     /\ \/ lost' /\ buffer' = buffer
                        \/ ~lost' /\ buffer' = Append(buffer, e)
                ELSE UNCHANGED <<buffer, lag, lost>>
<1>1. /\ UNCHANGED <<rows, last, published, fence, exists, deleted, phase, resume, snap, loaded, hw, at, chunk, queue,
                     cursor, has, again>>
      /\ phase # "off" /\ ~lost /\ Receive(ui)
  BY DEF LiveArrives, Receive, storeVars, startVars, clientVars
<1>2. position[ui] \in 0 .. published /\ position \in [Readers -> Int] /\ ui \in Readers /\ published \in Nat
  BY <1>1, Numbers, UiAssumption DEF IInv, Attached, TypeOK
<1>3. PICK q \in position[ui] + 1 .. published :
        /\ \A r \in rows : ~(position[ui] < r /\ r < q)
        /\ position' = [position EXCEPT ![ui] = q]
  BY <1>1 DEF Receive
<1>4. q \in Nat /\ position[ui] < q /\ q <= published /\ position[ui] \in Nat
  BY <1>2, <1>3
<1>5. position' \in [Readers -> Int] /\ position'[ui] = q
  BY <1>2, <1>3, <1>4
<1>6. \A r \in rows : r <= q => r <= position[ui] \/ r = q
  BY <1>3, <1>4, Numbers
<1>7. IF q \in Subject
      THEN /\ lag' = lag + 1 /\ lost' = (lag + 1 > Capacity)
           /\ buffer' = IF lost' THEN buffer ELSE Slide(buffer, q)
      ELSE UNCHANGED <<buffer, lag, lost>>
  BY <1>5 DEF LiveArrives
<1>8. ASSUME q \in Subject
      PROVE  /\ lag' = lag + 1 /\ lost' \in BOOLEAN
             /\ \/ lost' /\ buffer' = buffer
                \/ ~lost' /\ buffer' = Append(buffer, q)
  <2>1. lag' = lag + 1 /\ lost' = (lag + 1 > Capacity) /\ buffer' = IF lost' THEN buffer ELSE Slide(buffer, q)
    BY <1>7, <1>8
  <2>2. lost' \in BOOLEAN
    BY <2>1
  <2>3. CASE lost'
    BY <2>1, <2>2, <2>3
  <2>4. CASE ~lost'
    <3>1. Len(buffer) + Len(chunk) <= lag /\ lag \in Nat /\ Capacity \in Nat /\ Len(buffer) \in Nat /\ Len(chunk) \in Nat
      BY SizeAssumption DEF IInv, InLine, TypeOK
    <3>2. ~(lag + 1 > Capacity)
      BY <2>1, <2>4
    <3>3. Len(buffer) < Capacity
      BY <3>1, <3>2
    <3>4. buffer' = Append(buffer, q)
      BY <2>1, <2>4, <3>3 DEF Slide
    <3>5. QED
      BY <2>1, <2>2, <2>4, <3>4
  <2>5. QED
    BY <2>2, <2>3, <2>4
<1>9. QED
  BY <1>1, <1>4, <1>5, <1>6, <1>7, <1>8

LEMMA ArriveStep == ASSUME IInv, LiveArrives PROVE IInv'
<1> DEFINE e == position'[ui]
           p == position[ui]
<1>1. /\ UNCHANGED <<rows, last, published, fence, exists, deleted, phase, resume, snap, loaded, hw, at, chunk, queue,
                     cursor, has, again>>
      /\ phase # "off" /\ ~lost /\ position' \in [Readers -> Int] /\ p \in Nat
      /\ e \in Nat /\ p < e /\ e <= published
      /\ \A r \in rows : r <= e => r <= p \/ r = e
  BY ArrivalFacts
<1>2. \/ e \in Subject /\ ~lost' /\ buffer' = Append(buffer, e) /\ lag' = lag + 1
      \/ e \in Subject /\ lost' /\ buffer' = buffer /\ lag' = lag + 1
      \/ e \notin Subject /\ UNCHANGED <<buffer, lag, lost>>
  BY ArrivalFacts
<1>3. lost' \in BOOLEAN /\ lost \in BOOLEAN
  <2>1. lost \in BOOLEAN
    BY DEF IInv, TypeOK
  <2>2. (e \in Subject => lost' \in BOOLEAN) /\ (e \notin Subject => lost' = lost)
    BY ArrivalFacts
  <2>3. QED
    BY <2>1, <2>2
<1>4. /\ buffer \in Seq(Subject) /\ lag \in Nat /\ Rising(buffer) /\ Len(buffer) + Len(chunk) <= lag
      /\ Len(buffer) \in Nat /\ Len(chunk) \in Nat
      /\ \A r : Waiting(r) => r \in Subject /\ r \in 1 .. p
  BY DEF IInv, TypeOK, InLine
<1>5. \A r : Within(buffer, r) => r < e
  BY <1>1, <1>4 DEF Waiting
<1>6. /\ buffer' \in Seq(Subject) /\ Rising(buffer') /\ lag' \in Nat /\ Len(buffer') + Len(chunk) <= lag'
      /\ \A r : Within(buffer', r) <=> Within(buffer, r) \/ (r = e /\ e \in Subject /\ ~lost')
  <2>1. CASE e \in Subject /\ ~lost' /\ buffer' = Append(buffer, e) /\ lag' = lag + 1
    <3>1. /\ buffer' \in Seq(Subject) /\ Rising(buffer') /\ Len(buffer') = Len(buffer) + 1
          /\ \A r : Within(buffer', r) <=> Within(buffer, r) \/ r = e
      BY <1>4, <1>5, <2>1, AppendedFacts
    <3>2. QED
      BY <1>4, <2>1, <3>1
  <2>2. CASE buffer' = buffer /\ (e \notin Subject \/ lost') /\ lag' \in {lag, lag + 1}
    BY <1>4, <2>2
  <2>3. QED
    BY <1>2, <2>1, <2>2
<1> HIDE DEF e, p
<1>7. \A r : Waiting(r)' <=> Waiting(r) \/ (r = e /\ e \in Subject /\ ~lost')
  <2>1. \A r : Waiting(r)' <=> Within(queue, r) \/ Within(chunk, r) \/ Within(buffer', r)
    BY <1>1 DEF Waiting, Within
  <2>2. QED
    BY <1>6, <2>1 DEF Waiting
<1>8. InLine'
  <2>1. Before(queue, buffer') /\ Before(chunk, buffer')
    <3>1. \A r : Within(queue, r) \/ Within(chunk, r) => r < e
      BY <1>1, <1>4 DEF Waiting
    <3>2. QED
      BY <1>6, <3>1 DEF IInv, InLine, Before
  <2>2. \A r : Waiting(r)' => r \in Subject /\ r \in 1 .. e
    BY <1>1, <1>4, <1>7
  <2>3. Rising(queue)' /\ Rising(chunk)' /\ Rising(buffer)' /\ Before(queue, chunk)' /\ Before(queue, buffer)'
        /\ Before(chunk, buffer)'
    BY <1>1, <1>6, <2>1 DEF IInv, InLine, Rising, Before, Within
  <2>4. QED
    BY <1>1, <1>6, <2>2, <2>3 DEF InLine, e
<1>9. TypeOK'
  <2>1. position'[ui] \in -1 .. published
    BY <1>1, Numbers DEF e
  <2>2. QED
    BY <1>1, <1>3, <1>6, <2>1 DEF IInv, TypeOK
<1>10. Attached'
  <2>1. position'[ui] \in 0 .. published
    BY <1>1, Numbers DEF e
  <2>2. QED
    BY <1>1, <2>1 DEF Attached
<1>11. Complete'
  <2>1. ASSUME phase \in {"check", "fenced", "replay", "live"}, NEW r \in rows \cap Subject, hw < r, r <= e,
               ~lost' \/ \E w : Waiting(w)' /\ r < w
        PROVE  Waiting(r)' \/ (phase = "live" /\ r <= cursor)
    <3>1. CASE r <= p
      BY <1>1, <1>7, <2>1, <3>1 DEF IInv, Complete, p
    <3>2. CASE r = e
      <4>1. ~lost'
        <5>1. SUFFICES ASSUME NEW w, Waiting(w)', r < w PROVE ~lost'
          BY <2>1
        <5>2. Waiting(w) => w <= p /\ w \in Nat
          BY <1>4
        <5>3. QED
          BY <1>1, <1>7, <3>2, <5>1, <5>2
      <4>2. QED
        BY <1>7, <2>1, <3>2, <4>1
    <3>3. QED
      BY <1>1, <2>1, <3>1, <3>2
  <2>2. QED
    BY <1>1, <2>1 DEF IInv, Complete, e
<1>12. Phased'
  <2>1. ASSUME phase = "live", NEW r \in rows \cap Subject, hw < r, Waiting(r)' \/ e < r PROVE cursor < r
    <3>1. Waiting(r) \/ p < r
      BY <1>1, <1>7, <2>1, Numbers
    <3>2. QED
      BY <2>1, <3>1 DEF IInv, Phased, p
  <2>2. QED
    BY <1>1, <2>1 DEF IInv, Phased, e
<1>13. Whole' /\ Vouches'
  BY <1>1 DEF IInv, Whole, Vouches
<1>14. QED
  BY <1>1, <1>8, <1>9, <1>10, <1>11, <1>12, <1>13 DEF IInv

-----------------------------------------------------------------------------
(* The stream *)

\* Steps of the stream that leave the log, the waiting events and the client alone.
LEMMA PhaseMoves ==
  ASSUME IInv, UNCHANGED <<rows, last, published, position, fence, exists, deleted, buffer, lag, lost, chunk, queue, cursor, has, again>>,
         phase # "off", phase' \in Phases \ {"off"}, resume' \in Cursors, loaded' \in Cursors,
         {snap', hw', at'} \subseteq 0 .. MaxSequence, Complete', Phased'
  PROVE  IInv'
<1>1. UNCHANGED liveVars /\ position' = position
  BY DEF liveVars
<1>2. InLine'
  BY <1>1, LineStays
<1>3. TypeOK'
  BY DEF IInv, TypeOK
<1>4. Attached'
  BY DEF IInv, Attached
<1>5. Whole' /\ Vouches'
  BY DEF IInv, Whole, Vouches
<1>6. QED
  BY <1>2, <1>3, <1>4, <1>5 DEF IInv

\* No row is above a high water.
LEMMA HighWaterFacts ==
  ASSUME IInv, NEW h \in 0 .. last, HighWater(h)
  PROVE  h \in 0 .. MaxSequence /\ h <= last /\ \A r \in rows : ~(h < r)
<1>1. h \in Nat /\ h <= last /\ last <= MaxSequence /\ last \in Nat
  BY Numbers
<1>2. \A r \in rows : ~(h < r)
  BY <1>1, Numbers DEF HighWater
<1>3. QED
  BY <1>1, <1>2, Numbers

LEMMA SubscribeStep == ASSUME IInv, Subscribe PROVE IInv'
<1>1. /\ UNCHANGED <<rows, last, published, fence, exists, deleted, snap, loaded, hw, at, buffer, lag, lost, chunk, queue,
                     cursor, has, again>>
      /\ phase = "off" /\ position' = [position EXCEPT ![ui] = published]
      /\ resume' \in {None, cursor} /\ phase' = IF resume' = None THEN "load" ELSE "head"
  BY DEF Subscribe, Join, storeVars, liveVars, clientVars
<1>2. position \in [Readers -> Int] /\ ui \in Readers /\ published \in Nat
  BY Numbers, UiAssumption DEF IInv, TypeOK
<1>3. position' \in [Readers -> Int] /\ position'[ui] = published
  BY <1>1, <1>2
<1>4. Quiet
  BY <1>1 DEF IInv, Attached
<1>5. \A r : ~Within(queue, r) /\ ~Within(chunk, r) /\ ~Within(buffer, r)
  BY <1>4 DEF Quiet, Within
<1>6. InLine'
  <2>1. \A r : ~Waiting(r)'
    BY <1>1, <1>5 DEF Waiting, Within
  <2>2. QED
    BY <1>1, <2>1 DEF IInv, InLine, Rising, Before, Within
<1>7. TypeOK'
  <2>1. resume' \in Cursors /\ phase' \in Phases
    BY <1>1 DEF IInv, TypeOK, Phases, Cursors
  <2>2. position'[ui] \in -1 .. published
    BY <1>2, <1>3
  <2>3. QED
    BY <1>1, <1>3, <2>1, <2>2 DEF IInv, TypeOK
<1>8. Attached'
  BY <1>1, <1>2, <1>3 DEF Attached
<1>9. Whole' /\ Vouches'
  BY <1>1 DEF IInv, Whole, Vouches
<1>10. Complete' /\ Phased'
  BY <1>1 DEF Complete, Phased
<1>11. QED
  BY <1>1, <1>6, <1>7, <1>8, <1>9, <1>10 DEF IInv

LEMMA HeadStep == ASSUME IInv, ReadResumeHead \/ ReadHead PROVE IInv'
<1>1. /\ UNCHANGED <<rows, last, published, position, fence, exists, deleted, buffer, lag, lost, chunk, queue, cursor, has, again>>
      /\ UNCHANGED <<resume, snap, loaded, at>>
      /\ \/ phase = "head" /\ phase' = "check"
         \/ phase = "loaded" /\ phase' = "fenced"
  BY DEF ReadResumeHead, ReadHead, readerVars, storeVars, liveVars, clientVars
<1>2. PICK h \in 0 .. last : HighWater(h) /\ hw' = h
  BY DEF ReadResumeHead, ReadHead
<1>3. h \in 0 .. MaxSequence /\ h <= last /\ \A r \in rows : ~(h < r)
  BY <1>2, HighWaterFacts
<1>4. Complete'
  BY <1>1, <1>2, <1>3 DEF Complete
<1>5. Phased'
  BY <1>1, <1>2, <1>3 DEF IInv, Phased
<1>6. phase # "off" /\ phase' \in Phases \ {"off"} /\ resume \in Cursors /\ loaded \in Cursors
      /\ {snap, at} \subseteq 0 .. MaxSequence
  BY <1>1 DEF Phases, IInv, TypeOK
<1>7. QED
  BY <1>1, <1>2, <1>3, <1>4, <1>5, <1>6, PhaseMoves

LEMMA ResumeStep == ASSUME IInv, Resume PROVE IInv'
<1>1. /\ UNCHANGED <<rows, last, published, position, fence, exists, deleted, buffer, lag, lost, chunk, queue, cursor, has, again>>
      /\ UNCHANGED <<resume, snap, loaded, hw>>
      /\ phase = "check" /\ phase' = "replay" /\ at' = resume /\ hw - resume \in 0 .. Limit
  BY DEF Resume, CanResume, readerVars, storeVars, liveVars, clientVars
<1>2. resume = cursor /\ cursor # None /\ cursor \in Nat /\ cursor <= MaxSequence /\ hw \in Nat
  BY <1>1, Numbers DEF IInv, Phased
<1>3. cursor <= hw
  BY <1>1, <1>2, SizeAssumption
<1>4. Complete'
  <2>1. \A r : Waiting(r)' <=> Waiting(r)
    BY <1>1 DEF Waiting
  <2>2. QED
    BY <1>1, <2>1 DEF IInv, Complete
<1>5. Phased'
  <2>1. \A r \in rows : hw < r => cursor < r
    BY <1>2, <1>3, Numbers
  <2>2. QED
    BY <1>1, <1>2, <2>1 DEF Phased
<1>6. phase # "off" /\ phase' \in Phases \ {"off"} /\ resume \in Cursors /\ loaded \in Cursors
      /\ {snap, hw} \subseteq 0 .. MaxSequence
  BY <1>1 DEF Phases, IInv, TypeOK
<1>7. at' \in 0 .. MaxSequence
  BY <1>1, <1>2, Numbers
<1>8. QED
  BY <1>1, <1>4, <1>5, <1>6, <1>7, PhaseMoves

LEMMA RefuseStep == ASSUME IInv, RefuseResume PROVE IInv'
<1>1. /\ UNCHANGED <<rows, last, published, position, fence, exists, deleted, buffer, lag, lost, chunk, queue, cursor, has, again>>
      /\ UNCHANGED <<resume, snap, loaded, at>>
      /\ phase = "check" /\ phase' = "load" /\ hw' = 0
  BY DEF RefuseResume, readerVars, storeVars, liveVars, clientVars
<1>2. Complete' /\ Phased'
  BY <1>1 DEF Complete, Phased
<1>3. phase # "off" /\ phase' \in Phases \ {"off"} /\ resume \in Cursors /\ loaded \in Cursors
      /\ {snap, at} \subseteq 0 .. MaxSequence
  BY <1>1 DEF Phases, IInv, TypeOK
<1>4. 0 \in 0 .. MaxSequence
  BY SizeAssumption
<1>5. QED
  BY <1>1, <1>2, <1>3, <1>4, PhaseMoves

LEMMA LoadStep == ASSUME IInv, Load PROVE IInv'
<1>1. /\ UNCHANGED <<rows, last, published, position, fence, exists, deleted, buffer, lag, lost, chunk, queue, cursor, has, again>>
      /\ UNCHANGED <<resume, hw, at>> /\ phase = "load" /\ phase' = "loaded" /\ snap' = fence
      /\ loaded' = IF deleted THEN None ELSE last
  BY DEF Load, readerVars, storeVars, liveVars, clientVars
<1>2. fence \in Nat /\ fence <= last /\ last \in Nat /\ last <= MaxSequence /\ MaxSequence \in Nat
  BY Numbers
<1>3. Complete'
  BY <1>1 DEF Complete
<1>4. Phased'
  BY <1>1, <1>2 DEF Phased
<1>5. phase # "off" /\ phase' \in Phases \ {"off"} /\ resume \in Cursors /\ {hw, at} \subseteq 0 .. MaxSequence
  BY <1>1 DEF Phases, IInv, TypeOK
<1>6. snap' \in 0 .. MaxSequence /\ loaded' \in Cursors
  BY <1>1, <1>2 DEF Cursors
<1>7. QED
  BY <1>1, <1>3, <1>4, <1>5, <1>6, PhaseMoves

\* The stream is over, and the client keeps its view or loses its cursor.
LEMMA StreamEnds ==
  ASSUME IInv, UNCHANGED <<rows, last, fence, exists, deleted, has, again>>, published' \in 0 .. last,
         position' \in [Readers -> Int], position'[ui] = Detached, phase' = "off",
         resume' = None, snap' = 0, loaded' = None, hw' = 0, at' = 0,
         buffer' = <<>>, lag' = 0, lost' = FALSE, chunk' = <<>>, queue' = <<>>,
         cursor' \in {cursor, None}
  PROVE  IInv'
<1>1. \A r : ~Within(<<>>, r)
  BY DEF Within
<1>2. InLine'
  <2>1. \A r : ~Waiting(r)'
    BY <1>1 DEF Waiting, Within
  <2>2. Len(<<>>) + Len(<<>>) <= 0 /\ DOMAIN <<>> = {}
    OBVIOUS
  <2>3. Rising(queue)' /\ Rising(chunk)' /\ Rising(buffer)'
    BY <2>2 DEF Rising
  <2>4. Before(queue, chunk)' /\ Before(queue, buffer)' /\ Before(chunk, buffer)'
    BY <1>1 DEF Before, Within
  <2>5. QED
    BY <2>1, <2>2, <2>3, <2>4 DEF InLine
<1>3. TypeOK'
  <2>1. 0 \in 0 .. MaxSequence /\ None \in Cursors /\ cursor' \in Cursors /\ <<>> \in Seq(Subject)
    BY SizeAssumption DEF Cursors, IInv, TypeOK
  <2>2. position'[ui] \in -1 .. published'
    BY Numbers DEF Detached
  <2>3. "off" \in Phases /\ 0 \in Nat /\ lost' \in BOOLEAN
    BY DEF Phases
  <2>4. QED
    BY <2>1, <2>2, <2>3 DEF IInv, TypeOK
<1>4. Attached'
  BY DEF Attached, Quiet
<1>5. Whole' /\ Complete' /\ Phased' /\ Vouches'
  BY DEF IInv, Whole, Complete, Phased, Vouches
<1>6. QED
  BY <1>2, <1>3, <1>4, <1>5 DEF IInv

LEMMA CloseStep == ASSUME IInv, Close, UNCHANGED <<storeVars, clientVars>> PROVE IInv'
<1>1. /\ UNCHANGED <<rows, last, published, fence, exists, deleted, has, again, cursor>>
      /\ position' = [position EXCEPT ![ui] = Detached]
      /\ phase' = "off" /\ resume' = None /\ snap' = 0 /\ loaded' = None /\ hw' = 0 /\ at' = 0
      /\ buffer' = <<>> /\ lag' = 0 /\ lost' = FALSE /\ chunk' = <<>> /\ queue' = <<>>
  BY DEF Close, Leave, storeVars, clientVars
<1>2. position' \in [Readers -> Int] /\ position'[ui] = Detached
  BY <1>1, UiAssumption DEF IInv, TypeOK, Detached
<1>3. published' \in 0 .. last
  BY <1>1 DEF IInv, TypeOK
<1>4. QED
  BY <1>1, <1>2, <1>3, StreamEnds

LEMMA RestartStep == ASSUME IInv, Restart PROVE IInv'
<1>1. /\ UNCHANGED <<rows, last, fence, exists, deleted, has, again>> /\ published' \in 0 .. last /\ cursor' = None
      /\ position' = [s \in Readers |-> Detached]
      /\ phase' = "off" /\ resume' = None /\ snap' = 0 /\ loaded' = None /\ hw' = 0 /\ at' = 0
      /\ buffer' = <<>> /\ lag' = 0 /\ lost' = FALSE /\ chunk' = <<>> /\ queue' = <<>>
  BY DEF Restart, Reset, storeVars
<1>2. position' \in [Readers -> Int] /\ position'[ui] = Detached
  BY <1>1, UiAssumption DEF Detached
<1>3. QED
  BY <1>1, <1>2, StreamEnds

LEMMA EvictStep == ASSUME IInv, Evict PROVE IInv'
<1>1. /\ UNCHANGED <<rows, last, published, position, fence, exists, deleted, phase, startVars, liveVars, again>>
      /\ phase = "off" /\ cursor' = None /\ has' = {}
  BY DEF Evict, readerVars, storeVars
<1>2. /\ UNCHANGED <<resume, snap, loaded, hw, at, buffer, lag, lost, chunk, queue>> /\ InLine'
  BY <1>1, LineStays DEF startVars
<1>3. TypeOK' /\ Attached' /\ Whole'
  BY <1>1, <1>2 DEF IInv, TypeOK, Cursors, Attached, Quiet, Whole
<1>4. Complete' /\ Phased' /\ Vouches'
  BY <1>1, <1>2 DEF Complete, Phased, Vouches
<1>5. QED
  BY <1>1, <1>2, <1>3, <1>4 DEF IInv

-----------------------------------------------------------------------------
(* The client *)

\* Steps that give the client something, and take nothing from the buffer.
LEMMA ClientMoves ==
  ASSUME IInv, UNCHANGED <<rows, last, published, position, fence, exists, deleted, buffer, lag, lost, chunk, resume, snap, loaded, hw>>,
         phase # "off", phase' \in Phases \ {"off"}, at' \in 0 .. MaxSequence,
         cursor' \in Cursors, has' \subseteq Subject, again' \in BOOLEAN, exists => ~again',
         queue' \in Seq(Subject), InLine', Complete', Phased', Vouches'
  PROVE  IInv'
<1>1. TypeOK'
  BY DEF IInv, TypeOK
<1>2. Attached' /\ Whole'
  BY DEF IInv, Attached, Whole
<1>3. QED
  BY <1>1, <1>2 DEF IInv

LEMMA StartStep == ASSUME IInv, Start PROVE IInv'
<1>1. /\ UNCHANGED <<rows, last, published, position, fence, exists, deleted, buffer, lag, lost, chunk, queue, resume, snap,
                     loaded, hw, again>>
      /\ phase = "fenced" /\ loaded # None /\ phase' = "replay"
      /\ cursor' = snap /\ has' = Subject \cap (1 .. loaded) /\ at' = snap
  BY DEF Start, StartAt, readerVars, storeVars, liveVars
<1>2. snap \in 0 .. MaxSequence /\ snap \in Nat /\ snap # None /\ snap <= last /\ snap <= loaded
  BY <1>1, Numbers DEF IInv, TypeOK, Phased
<1>3. InLine'
  BY <1>1, LineStays DEF liveVars
<1>4. \A r : Waiting(r)' <=> Waiting(r)
  BY <1>1 DEF Waiting
<1>5. Complete'
  BY <1>1, <1>4 DEF IInv, Complete
<1>6. Phased'
  BY <1>1, <1>2 DEF IInv, Phased
<1>7. Vouches'
  <2>1. loaded \in Nat
    BY <1>1, Numbers DEF IInv, TypeOK, Cursors
  <2>2. \A r \in rows \cap Subject : r <= snap => r \in 1 .. loaded
    BY <1>2, <2>1, Numbers
  <2>3. QED
    BY <1>1, <1>2, <2>2 DEF Vouches
<1>8. again' \in BOOLEAN /\ (exists => ~again') /\ queue' \in Seq(Subject)
  BY <1>1 DEF IInv, TypeOK
<1>9. QED
  BY <1>1, <1>2, <1>3, <1>5, <1>6, <1>7, <1>8, ClientMoves DEF Phases, Cursors

LEMMA ReplayStep == ASSUME IInv, ReplayNext PROVE IInv'
<1>1. /\ UNCHANGED <<rows, last, published, position, fence, exists, deleted, buffer, lag, lost, chunk, queue, resume, snap,
                     loaded, hw>>
      /\ phase = "replay" /\ phase' = "replay"
  BY DEF ReplayNext, readerVars, storeVars, liveVars
<1>2. PICK r \in rows : Replayable(r) /\ (\A q \in rows : Replayable(q) => r <= q) /\ at' = r /\ Deliver(r)
  BY DEF ReplayNext
<1>3. /\ r \in rows \cap Subject /\ at < r /\ r <= hw /\ r \in Nat /\ r <= last /\ last <= MaxSequence
      /\ at = cursor /\ cursor # None /\ r # None /\ r \in 0 .. MaxSequence
  BY <1>1, <1>2, Numbers DEF Replayable, IInv, Phased
<1>4. cursor' = r /\ has' = has \cup {r} /\ again' = again
  BY <1>2, <1>3 DEF Deliver
<1>5. InLine' /\ \A q : Waiting(q)' <=> Waiting(q)
  BY <1>1, LineStays DEF liveVars
<1>6. Complete'
  BY <1>1, <1>5 DEF IInv, Complete
<1>7. Phased'
  <2>1. \A q \in rows : hw < q => r < q
    BY <1>3, Numbers
  <2>2. QED
    BY <1>1, <1>2, <1>3, <1>4, <2>1 DEF Phased
<1>8. Vouches'
  <2>1. ASSUME NEW q \in rows \cap Subject, q <= r PROVE q \in has \cup {r}
    <3>1. q \in Nat /\ at \in Nat
      BY Numbers
    <3>2. CASE q <= cursor
      BY <1>3, <2>1, <3>2 DEF IInv, Vouches
    <3>3. CASE at < q
      <4>1. q <= hw
        BY <1>3, <2>1, <3>1, Numbers
      <4>2. r <= q
        BY <1>2, <2>1, <3>3, <4>1 DEF Replayable
      <4>3. QED
        BY <1>3, <2>1, <3>1, <4>2
    <3>4. QED
      BY <1>3, <3>1, <3>2, <3>3
  <2>2. QED
    BY <1>1, <1>3, <1>4, <2>1 DEF Vouches
<1>9. again' \in BOOLEAN /\ (exists => ~again') /\ queue' \in Seq(Subject) /\ has' \subseteq Subject
  BY <1>1, <1>3, <1>4 DEF IInv, TypeOK
<1>10. QED
  BY <1>1, <1>2, <1>3, <1>4, <1>5, <1>6, <1>7, <1>8, <1>9, ClientMoves DEF Phases, Cursors

LEMMA ReplayedStep == ASSUME IInv, ReplayDone PROVE IInv'
<1>1. /\ UNCHANGED <<rows, last, published, position, fence, exists, deleted, buffer, lag, lost, chunk, queue, cursor, has, again>>
      /\ UNCHANGED <<resume, snap, loaded, hw, at>>
      /\ phase = "replay" /\ phase' = "live" /\ \A r \in rows : ~Replayable(r)
  BY DEF ReplayDone, readerVars, storeVars, startVars, liveVars, clientVars
<1>2. at = cursor /\ cursor # None /\ \A r \in rows \cap Subject : hw < r => cursor < r
  BY <1>1 DEF IInv, Phased
<1>3. \A r : Waiting(r)' <=> Waiting(r)
  BY <1>1 DEF Waiting
<1>4. Complete'
  BY <1>1, <1>3 DEF IInv, Complete
<1>5. Phased'
  <2>1. \A r \in rows \cap Subject : r <= hw => r <= cursor
    BY <1>1, <1>2, Numbers DEF Replayable
  <2>2. QED
    BY <1>1, <1>2, <2>1 DEF Phased
<1>6. phase # "off" /\ phase' \in Phases \ {"off"} /\ resume \in Cursors /\ loaded \in Cursors
      /\ {snap, hw, at} \subseteq 0 .. MaxSequence
  BY <1>1 DEF Phases, IInv, TypeOK
<1>7. QED
  BY <1>1, <1>4, <1>5, <1>6, PhaseMoves

LEMMA LiveStep == ASSUME IInv, LiveNext PROVE IInv'
<1>1. /\ UNCHANGED <<rows, last, published, position, fence, exists, deleted, buffer, lag, lost, chunk, resume, snap, loaded, hw, at>>
      /\ phase = "live" /\ phase' = "live" /\ queue # <<>> /\ queue' = Tail(queue)
      /\ IF Head(queue) > hw THEN Deliver(Head(queue)) ELSE UNCHANGED <<cursor, has, again>>
  BY DEF LiveNext, readerVars, storeVars, startVars, clientVars
<1> DEFINE e == Head(queue)
<1>2. /\ queue \in Seq(Subject) /\ Rising(queue) /\ Before(queue, chunk) /\ Before(queue, buffer)
      /\ \A r : Waiting(r) => r \in Subject /\ r \in 1 .. position[ui]
  BY DEF IInv, TypeOK, InLine
<1>3. /\ e \in Subject /\ queue' \in Seq(Subject) /\ \A r : Within(queue, r) <=> r = e \/ Within(queue', r)
      /\ Rising(queue') /\ \A r : Within(queue', r) => e < r
  BY <1>1, <1>2, TakenFacts
<1>4. /\ cursor # None /\ cursor \in Nat /\ cursor <= last /\ \A r \in rows \cap Subject : r <= cursor => r \in has
      /\ \A r \in rows \cap Subject :
           /\ r <= hw => r <= cursor
           /\ hw < r /\ (Waiting(r) \/ position[ui] < r) => cursor < r
  BY <1>1, Numbers DEF IInv, Phased, Vouches
<1>5. IF e > hw THEN Deliver(e) ELSE UNCHANGED <<cursor, has, again>>
  BY <1>1
<1> HIDE DEF e
<1>6. \A r : Waiting(r) <=> r = e \/ Waiting(r)'
  <2>1. \A r : Waiting(r)' <=> Within(queue', r) \/ Within(chunk, r) \/ Within(buffer, r)
    BY <1>1 DEF Waiting, Within
  <2>2. QED
    BY <1>3, <2>1 DEF Waiting
<1>7. \A r : Waiting(r)' => e < r
  BY <1>1, <1>2, <1>3 DEF Waiting, Before, Within
<1>8. e \in Nat /\ e <= position[ui] /\ position[ui] <= published /\ published <= last /\ e <= last /\ e <= MaxSequence
      /\ hw \in Nat /\ {last, published} \subseteq Nat /\ MaxSequence \in Nat
  <2>1. e \in 1 .. position[ui] /\ position[ui] \in Int
    BY <1>2, <1>6, Numbers
  <2>2. QED
    BY <2>1, Numbers
<1>9. InLine'
  <2>1. Before(queue', chunk) /\ Before(queue', buffer)
    BY <1>2, <1>3 DEF Before
  <2>2. \A r : Waiting(r)' => r \in Subject /\ r \in 1 .. position[ui]
    BY <1>2, <1>6
  <2>3. Rising(queue)' /\ Rising(chunk)' /\ Rising(buffer)' /\ Before(queue, chunk)' /\ Before(queue, buffer)'
        /\ Before(chunk, buffer)'
    BY <1>1, <1>3, <2>1 DEF IInv, InLine, Rising, Before, Within
  <2>4. QED
    BY <1>1, <2>2, <2>3 DEF IInv, InLine
\* What the client's cursor and view become.
<1>10. \/ e > hw /\ e > cursor /\ cursor' = e /\ has' = has \cup {e} /\ again' = again
       \/ e > hw /\ ~(e > cursor) /\ cursor' = cursor /\ has' = has /\ again' = TRUE /\ e \notin rows
       \/ ~(e > hw) /\ cursor' = cursor /\ has' = has /\ again' = again
  <2>1. e \in rows /\ e > hw => e > cursor
    BY <1>3, <1>4, <1>6, <1>8
  <2>2. QED
    BY <1>5, <2>1 DEF Deliver
<1>11. cursor' \in Nat /\ cursor' # None /\ cursor <= cursor' /\ cursor' <= last /\ cursor' \in {cursor, e}
       /\ (hw < e => e <= cursor')
  BY <1>4, <1>8, <1>10, Numbers
<1>12. Complete'
  <2>1. ASSUME NEW r \in rows \cap Subject, hw < r, r <= position[ui], ~lost \/ \E w : Waiting(w)' /\ r < w
        PROVE  Waiting(r)' \/ r <= cursor'
    <3>1. Waiting(r) \/ r <= cursor
      BY <1>1, <1>6, <2>1 DEF IInv, Complete
    <3>2. CASE r <= cursor
      BY <1>4, <1>11, <3>2, Numbers
    <3>3. CASE Waiting(r) /\ r # e
      BY <1>6, <3>3
    <3>4. CASE r = e
      BY <1>11, <2>1, <3>4
    <3>5. QED
      BY <3>1, <3>2, <3>3, <3>4
  <2>2. QED
    BY <1>1, <2>1 DEF IInv, Complete
<1>13. Phased'
  <2>1. ASSUME NEW r \in rows \cap Subject
        PROVE  /\ r <= hw => r <= cursor'
               /\ hw < r /\ (Waiting(r)' \/ position[ui] < r) => cursor' < r
    <3>1. r \in Nat
      BY Numbers
    <3>2. r <= hw => r <= cursor'
      BY <1>4, <1>8, <1>11, <3>1
    <3>3. ASSUME hw < r, Waiting(r)' \/ position[ui] < r PROVE cursor' < r
      <4>1. cursor < r
        BY <1>4, <1>6, <3>3
      <4>2. e < r
        BY <1>7, <1>8, <3>1, <3>3, Numbers
      <4>3. QED
        BY <1>11, <4>1, <4>2
    <3>4. QED
      BY <3>2, <3>3
  <2>2. QED
    BY <1>1, <1>11, <2>1 DEF Phased
<1>14. Vouches'
  <2>1. ASSUME NEW r \in rows \cap Subject, r <= cursor' PROVE r \in has'
    <3>1. r \in Nat /\ has \subseteq has'
      BY <1>10, Numbers
    <3>2. CASE r <= cursor
      BY <1>4, <3>1, <3>2
    <3>3. CASE cursor < r
      <4>1. cursor' = e /\ r <= e /\ e \in has'
        BY <1>4, <1>8, <1>10, <2>1, <3>1, <3>3
      <4>2. hw < r
        BY <1>4, <1>8, <3>1, <3>3
      <4>3. CASE r = e
        BY <4>1, <4>3
      <4>4. CASE r # e
        <5>1. r < e /\ r <= position[ui]
          BY <1>8, <3>1, <4>1, <4>4, Numbers
        <5>2. Waiting(r) \/ r <= cursor
          BY <1>1, <1>6, <4>2, <5>1 DEF IInv, Complete
        <5>3. Waiting(r)'
          BY <1>4, <1>6, <3>1, <3>3, <4>4, <5>2
        <5>4. QED
          BY <1>7, <1>8, <3>1, <5>1, <5>3
      <4>5. QED
        BY <4>3, <4>4
    <3>4. QED
      BY <1>4, <3>1, <3>2, <3>3
  <2>2. QED
    BY <1>1, <1>11, <2>1 DEF Vouches
<1>15. again' \in BOOLEAN /\ (exists => ~again')
  <2>1. again \in BOOLEAN /\ (exists => ~again)
    BY DEF IInv, TypeOK
  <2>2. exists => e \in rows
    BY <1>3, <1>8, <1>2, <1>6 DEF IInv, Whole
  <2>3. CASE again' = again
    BY <2>1, <2>3
  <2>4. CASE again' = TRUE /\ e \notin rows
    BY <2>2, <2>4
  <2>5. QED
    BY <1>10, <2>3, <2>4
<1>16. cursor' \in Cursors /\ has' \subseteq Subject
  <2>1. has \subseteq Subject
    BY DEF IInv, TypeOK
  <2>2. cursor' \in 0 .. MaxSequence
    BY <1>8, <1>11, Numbers
  <2>3. has' \subseteq Subject
    BY <1>3, <1>10, <2>1
  <2>4. QED
    BY <2>2, <2>3 DEF Cursors
<1>17. at' \in 0 .. MaxSequence
  BY <1>1 DEF IInv, TypeOK
<1>18. QED
  BY <1>1, <1>3, <1>9, <1>12, <1>13, <1>14, <1>15, <1>16, <1>17, ClientMoves DEF Phases

-----------------------------------------------------------------------------
(* Theorems *)

LEMMA InitIInv == ASSUME Init PROVE IInv
<1>1. /\ rows = {} /\ last = 0 /\ published = 0 /\ position = [s \in Readers |-> Detached] /\ fence = 0 /\ exists = TRUE /\ deleted = FALSE
      /\ phase = "off" /\ resume = None /\ snap = 0 /\ loaded = None /\ hw = 0 /\ at = 0
      /\ buffer = <<>> /\ lag = 0 /\ lost = FALSE /\ chunk = <<>> /\ queue = <<>>
      /\ cursor = None /\ has = {} /\ again = FALSE
  BY DEF Init, ReaderInit, Unset, Quiet
<1>2. position \in [Readers -> Int] /\ position[ui] = -1
  BY <1>1, UiAssumption DEF Detached
<1>3. TypeOK
  <2>1. 0 \in 0 .. MaxSequence /\ None \in Cursors /\ <<>> \in Seq(Subject) /\ 0 \in Nat /\ -1 \in -1 .. 0
    BY SizeAssumption DEF Cursors
  <2>2. exists \in BOOLEAN /\ deleted \in BOOLEAN /\ lost \in BOOLEAN /\ again \in BOOLEAN
    BY <1>1
  <2>3. phase \in Phases /\ 0 \in 0 .. 0 /\ rows \subseteq 1 .. last
    BY <1>1 DEF Phases
  <2>4. QED
    BY <1>1, <1>2, <2>1, <2>2, <2>3 DEF TypeOK
<1>4. InLine
  <2>1. \A r : ~Waiting(r)
    BY <1>1 DEF Waiting, Within
  <2>2. Len(<<>>) + Len(<<>>) <= 0 /\ DOMAIN <<>> = {}
    OBVIOUS
  <2>3. QED
    BY <1>1, <2>1, <2>2 DEF InLine, Rising, Before, Within
<1>5. Whole /\ Attached /\ Complete /\ Phased /\ Vouches /\ (exists => ~again)
  BY <1>1, <1>2 DEF Whole, Attached, Quiet, Detached, Complete, Phased, Vouches
<1>6. QED
  BY <1>3, <1>4, <1>5 DEF IInv

LEMMA StutterIInv == ASSUME IInv, UNCHANGED vars PROVE IInv'
<1>1. UNCHANGED <<rows, last, published, position, fence, exists, deleted, phase, startVars, liveVars, clientVars>>
  BY DEF vars, readerVars, storeVars
<1>2. last \in last .. MaxSequence /\ rows \subseteq 1 .. last /\ exists \in BOOLEAN /\ deleted \in BOOLEAN
  BY Numbers DEF IInv, TypeOK
<1>3. Whole'
  BY <1>1 DEF IInv, Whole
<1>4. QED
  BY <1>1, <1>2, <1>3, LogMoves

LEMMA NextIInv == ASSUME IInv, [Next]_vars PROVE IInv'
<1>1. CASE Commit \/ Publish \/ Project \/ PurgeThread
  BY <1>1, CommitStep, PublishStep, ProjectStep, PurgeStep
<1>2. CASE LiveArrives \/ PullChunk \/ HandOver
  BY <1>2, ArriveStep, PullStep, HandOverStep
<1>3. CASE Flow
  <2>1. CASE Subscribe \/ ReadResumeHead \/ Resume \/ RefuseResume \/ Load \/ ReadHead
    BY <2>1, SubscribeStep, HeadStep, ResumeStep, RefuseStep, LoadStep
  <2>2. CASE DemandResnapshot \/ NotFound \/ Dropped
    BY <2>2, CloseStep DEF DemandResnapshot, NotFound, Dropped
  <2>3. CASE Start \/ ReplayNext \/ ReplayDone \/ LiveNext
    BY <2>3, StartStep, ReplayStep, ReplayedStep, LiveStep
  <2>4. QED
    BY <1>3, <2>1, <2>2, <2>3 DEF Flow
<1>4. CASE Disconnect
  BY <1>4, CloseStep DEF Disconnect
<1>5. CASE Evict \/ Restart
  BY <1>5, EvictStep, RestartStep
<1>6. CASE UNCHANGED vars
  BY <1>6, StutterIInv
<1>7. QED
  BY <1>1, <1>2, <1>3, <1>4, <1>5, <1>6 DEF Next

\* The invariant holds in every state that can be reached: what waits for the client is in order, nothing
\* is missing in front of it, and each phase of the stream knows what the cursor it leaves vouches for.
THEOREM InductiveInvariant == Spec => []IInv
BY InitIInv, NextIInv, PTL DEF Spec

\* The stream, its buffer and the client keep their types: cursors, the snapshot sequence and the high
\* water stay within the log that was ever written.
THEOREM TypeCorrect == Spec => []TypeOK
<1>1. IInv => TypeOK
  BY DEF IInv
<1>2. QED
  BY <1>1, InductiveInvariant, PTL

\* The client's cursor vouches for its view: no event of the subject at or below it is missing, through
\* snapshots behind the log, resumes, replays, dropped live events, purges, reconnections and restarts;
\* and an event arrives at or below the cursor only when the subject was purged
\* (makeCursorSafeSnapshotLiveStream).
THEOREM ViewIsVouchedFor == Spec => []CursorVouches
<1>1. IInv => CursorVouches
  BY DEF IInv, Vouches, CursorVouches
<1>2. QED
  BY <1>1, InductiveInvariant, PTL

=============================================================================
