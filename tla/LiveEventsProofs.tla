---------------------------- MODULE LiveEventsProofs ----------------------------
(***************************************************************************)
(* Proofs about LiveEvents, for every set of events, executions and        *)
(* listeners, whatever each asks for.                                      *)
(***************************************************************************)
EXTENDS LiveEvents, SequenceTheorems, TLAPS

\* The events emitted are numbered from 1, each once.
Numbering ==
  /\ \A e \in Events : emittedAt[e] <= emitted
  /\ \A e \in Events : emittedAt[e] > 0 <=> appender[e] = "published"
  /\ \A l \in Listeners : since[l] <= emitted

\* A generator that was never started has nothing, and its client has read nothing.
Fresh ==
  \A l \in Listeners : loop[l] = "new" =>
    queue[l] = <<>> /\ delivered[l] = <<>> /\ complete[l] = {}

\* While a client reads a table it has the rows before its offset.
ReadSoFar ==
  \A l \in Listeners : \A k \in Kinds \ complete[l], x \in ResolvedExecution(l) :
    /\ offset[l][k] <= Len(rows[k][x])
    /\ \A i \in 1..Len(rows[k][x]) : i <= offset[l][k] => rows[k][x][i] \in snapshot[l]

StreamInv == TypeOK /\ Numbering /\ Fresh /\ HeardInOrder /\ ReadSoFar /\ NothingMissed

-------------------------------------------------------------------------------
(* Sequences. *)

LEMMA AppendElements ==
  ASSUME NEW S, NEW s \in Seq(S), NEW e \in S
  PROVE  /\ Append(s, e) \in Seq(S)
         /\ Len(Append(s, e)) = Len(s) + 1
         /\ \A i \in 1..Len(s) : Append(s, e)[i] = s[i]
         /\ Append(s, e)[Len(s) + 1] = e
OBVIOUS

\* Queueing an event puts it behind all that was heard.
LEMMA HeardGrows ==
  ASSUME NEW S, NEW d \in Seq(S), NEW q \in Seq(S), NEW e \in S
  PROVE  d \o Append(q, e) = Append(d \o q, e)
<1>1. d \o q \in Seq(S) /\ Append(q, e) \in Seq(S)
  BY ConcatProperties, AppendElements
<1>2. d \o Append(q, e) \in Seq(S) /\ Append(d \o q, e) \in Seq(S)
  BY <1>1, ConcatProperties, AppendElements
<1>3. Len(d \o Append(q, e)) = Len(Append(d \o q, e))
  BY <1>1, ConcatProperties, AppendElements, LenProperties
<1>4. ASSUME NEW i \in 1..Len(d \o Append(q, e))
      PROVE  (d \o Append(q, e))[i] = Append(d \o q, e)[i]
  <2>1. Len(d) \in Nat /\ Len(q) \in Nat /\ i \in 1..(Len(d) + Len(q) + 1)
    BY <1>1, ConcatProperties, AppendElements, LenProperties
  <2>2. (d \o Append(q, e))[i] =
           IF i <= Len(d) THEN d[i] ELSE Append(q, e)[i - Len(d)]
    <3>1. i \in 1..(Len(d) + Len(Append(q, e)))
      BY <2>1, AppendElements
    <3> QED
      BY <1>1, <3>1, ConcatProperties
  <2>3. Len(d \o q) = Len(d) + Len(q)
    BY ConcatProperties
  <2>4. CASE i <= Len(d) + Len(q)
    <3>1. Append(d \o q, e)[i] = (d \o q)[i]
      BY <1>1, <2>1, <2>3, <2>4, AppendElements
    <3>2. (d \o q)[i] = IF i <= Len(d) THEN d[i] ELSE q[i - Len(d)]
      BY <2>1, <2>4, ConcatProperties
    <3> QED
      BY <2>1, <2>2, <2>4, <3>1, <3>2, AppendElements
  <2>5. CASE i = Len(d) + Len(q) + 1
    BY <1>1, <2>1, <2>2, <2>3, <2>5, AppendElements
  <2> QED
    BY <2>1, <2>4, <2>5
<1> QED
  BY <1>2, <1>3, <1>4, SeqEqual

\* Handing out the head of the queue leaves what was heard as it was.
LEMMA HeardKept ==
  ASSUME NEW S, NEW d \in Seq(S), NEW q \in Seq(S), q # <<>>
  PROVE  Append(d, Head(q)) \o Tail(q) = d \o q
<1>1. /\ Head(q) \in S /\ Head(q) = q[1]
      /\ Tail(q) \in Seq(S)
      /\ Len(Tail(q)) = Len(q) - 1
      /\ \A i \in 1..Len(Tail(q)) : Tail(q)[i] = q[i + 1]
      /\ Len(q) \in Nat \ {0}
  BY HeadTailProperties, EmptySeq
<1>2. Append(d, Head(q)) \in Seq(S)
  BY <1>1, AppendElements
<1>3. Append(d, Head(q)) \o Tail(q) \in Seq(S) /\ d \o q \in Seq(S)
  BY <1>1, <1>2, ConcatProperties
<1>4. Len(Append(d, Head(q)) \o Tail(q)) = Len(d \o q)
  BY <1>1, <1>2, ConcatProperties, AppendElements, LenProperties
<1>5. ASSUME NEW i \in 1..Len(d \o q)
      PROVE  (Append(d, Head(q)) \o Tail(q))[i] = (d \o q)[i]
  BY <1>1, <1>2, ConcatProperties, AppendElements, LenProperties
<1> QED
  BY <1>3, <1>4, <1>5, SeqEqual

-------------------------------------------------------------------------------
(* The invariant. *)

LEMMA InitStreamInv == Init => StreamInv
<1> SUFFICES ASSUME Init PROVE StreamInv
  OBVIOUS
<1>1. TypeOK
  BY LiveAssumption, EmptySeq DEF Init, TypeOK, Kinds
<1>2. Numbering /\ Fresh
  BY DEF Init, Numbering, Fresh
<1>3. HeardInOrder /\ NothingMissed
  BY DEF Init, HeardInOrder, NothingMissed
<1>4. ReadSoFar
  BY EmptySeq DEF Init, ReadSoFar, ResolvedExecution
<1> QED
  BY <1>1, <1>2, <1>3, <1>4 DEF StreamInv

LEMMA HeardIsSeq ==
  ASSUME TypeOK, NEW l \in Listeners
  PROVE  Heard(l) \in Seq(Events) /\ Len(Heard(l)) \in Nat
  BY ConcatProperties, LenProperties DEF TypeOK, Heard

\* A step that emits and hands out nothing new keeps the order.
LEMMA OrderKept ==
  ASSUME HeardInOrder, UNCHANGED <<emittedAt, since>>, registered' \subseteq registered,
         \A l \in registered' : Heard(l)' = Heard(l)
  PROVE  HeardInOrder'
  BY DEF HeardInOrder, Wants

\* A step of a generator or a timer reads and stores nothing.
LEMMA ReadingKept ==
  ASSUME NothingMissed, ReadSoFar, UNCHANGED <<rows, appender, clientVars>>,
         registered' \subseteq registered,
         \A l \in registered' : Heard(l)' = Heard(l)
  PROVE  NothingMissed' /\ ReadSoFar'
<1>1. ReadSoFar'
  BY DEF ReadSoFar, ResolvedExecution, clientVars
<1>2. NothingMissed'
  BY DEF NothingMissed, Wants, ResolvedExecution, clientVars
<1> QED
  BY <1>1, <1>2

-------------------------------------------------------------------------------
(* Appending. *)

LEMMA StoreRowKeepsInv ==
  ASSUME StreamInv, NEW e \in Events, StoreRow(e)
  PROVE  StreamInv'
<1> USE DEF StreamInv
<1>1. Kind[e] \in Kinds /\ ExecutionOf[e] \in Executions
  BY LiveAssumption
<1>2. TypeOK'
  <2>1. rows' \in [Kinds -> [Executions -> Seq(Events)]]
    <3> DEFINE new == Append(rows[Kind[e]][ExecutionOf[e]], e)
    <3>1. new \in Seq(Events)
      BY <1>1, AppendElements DEF TypeOK
    <3>2. \/ rows' = [rows EXCEPT ![Kind[e]] = [rows[Kind[e]] EXCEPT ![ExecutionOf[e]] = new]]
          \/ rows' = rows
      BY DEF StoreRow
    <3> HIDE DEF new
    <3>3. rows \in [Kinds -> [Executions -> Seq(Events)]]
      BY DEF TypeOK
    <3>4. [rows[Kind[e]] EXCEPT ![ExecutionOf[e]] = new] \in [Executions -> Seq(Events)]
      BY <1>1, <3>1, <3>3
    <3> QED
      BY <1>1, <3>2, <3>3, <3>4
  <2> QED
    BY <2>1 DEF StoreRow, TypeOK, loopVars, clientVars
<1>3. Numbering' /\ Fresh'
  BY DEF StoreRow, Numbering, Fresh, TypeOK, loopVars, clientVars
<1>4. \A l \in Listeners : Heard(l)' = Heard(l)
  BY DEF StoreRow, Heard
<1>5. HeardInOrder'
  BY <1>4, OrderKept DEF StoreRow, loopVars, TypeOK
<1>6. ASSUME NEW k \in Kinds, NEW x \in Executions
      PROVE  /\ rows[k][x] \in Seq(Events) /\ Len(rows[k][x]) \in Nat
             /\ Len(rows'[k][x]) \in Nat /\ Len(rows'[k][x]) >= Len(rows[k][x])
             /\ \A i \in 1..Len(rows'[k][x]) :
                  \/ i \in 1..Len(rows[k][x]) /\ rows'[k][x][i] = rows[k][x][i]
                  \/ i = Len(rows[k][x]) + 1 /\ rows'[k][x][i] = e /\ appender'[e] = "stored"
  <2>1. rows[k][x] \in Seq(Events) /\ Len(rows[k][x]) \in Nat
    BY LenProperties DEF TypeOK
  <2>2. CASE rows'[k][x] = rows[k][x]
    BY <2>1, <2>2
  <2>3. CASE rows'[k][x] = Append(rows[k][x], e) /\ appender'[e] = "stored"
    <3>1. Len(rows'[k][x]) = Len(rows[k][x]) + 1
      BY <2>1, <2>3, AppendElements
    <3>2. rows'[k][x][Len(rows[k][x]) + 1] = e
      BY <2>1, <2>3, AppendElements
    <3>3. \A i \in 1..Len(rows[k][x]) : rows'[k][x][i] = rows[k][x][i]
      BY <2>1, <2>3, AppendElements
    <3> QED
      BY <2>1, <2>3, <3>1, <3>2, <3>3
  <2>4. CASE k = Kind[e] /\ x = ExecutionOf[e] /\ appender'[e] = "stored"
    BY <2>3, <2>4 DEF StoreRow, TypeOK
  <2>5. CASE ~(k = Kind[e] /\ x = ExecutionOf[e])
    BY <1>1, <2>2, <2>5 DEF StoreRow, TypeOK
  <2> QED
    BY <2>2, <2>4, <2>5 DEF StoreRow, TypeOK
<1>7. \A f \in Events : appender[f] = "stored" => appender'[f] = "stored"
  BY DEF StoreRow, TypeOK
<1>8. NothingMissed'
  <2> SUFFICES ASSUME NEW l \in registered, NEW k \in complete[l],
                      NEW x \in ResolvedExecution(l), NEW i \in 1..Len(rows'[k][x]),
                      Wants(l, rows'[k][x][i])
               PROVE  \/ rows'[k][x][i] \in snapshot[l]
                      \/ \E j \in 1..Len(Heard(l)') : Heard(l)'[j] = rows'[k][x][i]
                      \/ appender'[rows'[k][x][i]] = "stored"
    BY DEF NothingMissed, StoreRow, loopVars, clientVars, Wants, ResolvedExecution
  <2>1. k \in Kinds /\ x \in Executions /\ l \in Listeners
    BY DEF TypeOK, ResolvedExecution
  <2> USE <1>4
  <2>2. CASE i \in 1..Len(rows[k][x]) /\ rows'[k][x][i] = rows[k][x][i]
    <3>1. rows[k][x][i] \in Events
      BY <1>6, <2>1, <2>2, ElementOfSeq
    <3>2. \/ rows[k][x][i] \in snapshot[l]
          \/ \E j \in 1..Len(Heard(l)) : Heard(l)[j] = rows[k][x][i]
          \/ appender[rows[k][x][i]] = "stored"
      BY <2>1, <2>2 DEF NothingMissed
    <3> QED
      BY <1>7, <2>1, <2>2, <3>1, <3>2
  <2> QED
    BY <1>6, <2>1, <2>2
<1>9. ReadSoFar'
  <2> SUFFICES ASSUME NEW l \in Listeners, NEW k \in Kinds \ complete[l],
                      NEW x \in ResolvedExecution(l)
               PROVE  /\ offset[l][k] <= Len(rows'[k][x])
                      /\ \A i \in 1..Len(rows'[k][x]) :
                           i <= offset[l][k] => rows'[k][x][i] \in snapshot[l]
    BY DEF ReadSoFar, StoreRow, clientVars, ResolvedExecution
  <2>1. x \in Executions /\ offset[l][k] \in Nat
    BY DEF ResolvedExecution, TypeOK
  <2> QED
    BY <1>6, <2>1 DEF ReadSoFar
<1> QED
  BY <1>2, <1>3, <1>5, <1>8, <1>9

LEMMA PublishKeepsInv ==
  ASSUME StreamInv, NEW e \in Events, PublishWorkflowLiveEvent(e)
  PROVE  StreamInv'
<1> USE DEF StreamInv
<1>1. TypeOK'
  <2>1. queue' \in [Listeners -> Seq(Events)]
    BY AppendElements DEF PublishWorkflowLiveEvent, TypeOK
  <2>2. emitted' \in Nat /\ emittedAt' \in [Events -> Nat]
    BY DEF PublishWorkflowLiveEvent, TypeOK
  <2> QED
    BY <2>1, <2>2 DEF PublishWorkflowLiveEvent, TypeOK, loopVars, clientVars
<1>2. /\ emittedAt'[e] = emitted + 1
      /\ \A f \in Events : f # e => emittedAt'[f] = emittedAt[f]
      /\ emitted \in Nat /\ emitted' = emitted + 1
      /\ emittedAt \in [Events -> Nat]
      /\ appender[e] = "stored" /\ appender'[e] = "published"
      /\ \A f \in Events : f # e => appender'[f] = appender[f]
  BY DEF PublishWorkflowLiveEvent, TypeOK
<1>3. Numbering'
  BY <1>2 DEF Numbering, TypeOK, PublishWorkflowLiveEvent, loopVars
<1>4. \A l \in Listeners : l \notin registered => queue'[l] = queue[l]
  BY DEF PublishWorkflowLiveEvent
<1>5. Fresh'
  BY <1>4 DEF Fresh, TypeOK, PublishWorkflowLiveEvent, loopVars, clientVars
<1>6. ASSUME NEW l \in registered
      PROVE  /\ Heard(l) \in Seq(Events) /\ Len(Heard(l)) \in Nat
             /\ Heard(l)' = IF Wants(l, e) THEN Append(Heard(l), e) ELSE Heard(l)
  <2>1. l \in Listeners /\ delivered[l] \in Seq(Events) /\ queue[l] \in Seq(Events)
    BY DEF TypeOK
  <2>2. delivered'[l] = delivered[l]
    BY DEF PublishWorkflowLiveEvent
  <2>3. CASE Wants(l, e)
    <3>1. queue'[l] = Append(queue[l], e)
      BY <2>1, <2>3 DEF PublishWorkflowLiveEvent
    <3>2. delivered[l] \o Append(queue[l], e) = Append(delivered[l] \o queue[l], e)
      <4>1. \A d, q \in Seq(Events) : d \o Append(q, e) = Append(d \o q, e)
        BY HeardGrows
      <4> QED
        BY <2>1, <4>1
    <3> QED
      BY <2>1, <2>2, <2>3, <3>1, <3>2, HeardIsSeq DEF Heard
  <2>4. CASE ~Wants(l, e)
    <3>1. queue'[l] = queue[l]
      BY <2>1, <2>4 DEF PublishWorkflowLiveEvent
    <3> QED
      BY <2>1, <2>2, <2>4, <3>1, HeardIsSeq DEF Heard
  <2> QED
    BY <2>3, <2>4
<1>7. HeardInOrder'
  <2> SUFFICES ASSUME NEW l \in registered
               PROVE  /\ \A i, j \in 1..Len(Heard(l)') :
                           i < j => emittedAt'[Heard(l)'[i]] < emittedAt'[Heard(l)'[j]]
                      /\ {Heard(l)'[i] : i \in 1..Len(Heard(l)')} =
                           {f \in Events : emittedAt'[f] > since[l] /\ Wants(l, f)}
    BY DEF HeardInOrder, PublishWorkflowLiveEvent, loopVars, Wants
  <2> DEFINE h == Heard(l)
  <2>1. /\ \A i, j \in 1..Len(h) : i < j => emittedAt[h[i]] < emittedAt[h[j]]
        /\ {h[i] : i \in 1..Len(h)} = {f \in Events : emittedAt[f] > since[l] /\ Wants(l, f)}
    BY DEF HeardInOrder
  <2>2. \A i \in 1..Len(h) : h[i] \in Events
    BY <1>6, ElementOfSeq
  <2>3. l \in Listeners /\ since[l] \in Nat /\ since[l] <= emitted
    BY DEF TypeOK, Numbering
  <2>4. emittedAt[e] = 0
    BY <1>2 DEF Numbering
  <2>5. \A i \in 1..Len(h) : h[i] # e
    BY <2>1, <2>3, <2>4
  <2>6. \A i \in 1..Len(h) : emittedAt'[h[i]] = emittedAt[h[i]] /\ emittedAt[h[i]] <= emitted
    BY <1>2, <2>2, <2>5 DEF Numbering
  <2>7. CASE Wants(l, e)
    <3>1. Len(Heard(l)') = Len(h) + 1 /\ Heard(l)'[Len(h) + 1] = e
          /\ \A i \in 1..Len(h) : Heard(l)'[i] = h[i]
      BY <1>6, <2>7, AppendElements
    <3>2. Len(h) \in Nat
      BY <1>6
    <3> HIDE DEF h
    <3>3. ASSUME NEW i \in 1..(Len(h) + 1), NEW j \in 1..(Len(h) + 1), i < j
          PROVE  emittedAt'[Heard(l)'[i]] < emittedAt'[Heard(l)'[j]]
      <4>1. i \in 1..Len(h) /\ Heard(l)'[i] = h[i]
        BY <3>1, <3>2, <3>3
      <4>2. CASE j = Len(h) + 1
        <5>1. emittedAt'[h[i]] <= emitted /\ emittedAt'[h[i]] \in Nat
          BY <1>2, <2>2, <2>6, <4>1
        <5> QED
          BY <1>2, <3>1, <4>1, <4>2, <5>1
      <4>3. CASE j \in 1..Len(h)
        BY <2>1, <2>6, <3>1, <3>3, <4>1, <4>3
      <4> QED
        BY <3>2, <4>2, <4>3
    <3>4. {Heard(l)'[i] : i \in 1..(Len(h) + 1)} = {h[i] : i \in 1..Len(h)} \cup {e}
      BY <3>1, <3>2
    <3>5. {f \in Events : emittedAt'[f] > since[l] /\ Wants(l, f)}
            = {f \in Events : emittedAt[f] > since[l] /\ Wants(l, f)} \cup {e}
      BY <1>2, <2>3, <2>7
    <3> QED
      BY <2>1, <3>1, <3>3, <3>4, <3>5
  <2>8. CASE ~Wants(l, e)
    <3>1. Heard(l)' = h
      BY <1>6, <2>8
    <3> HIDE DEF h
    <3>2. {f \in Events : emittedAt'[f] > since[l] /\ Wants(l, f)}
            = {f \in Events : emittedAt[f] > since[l] /\ Wants(l, f)}
      BY <1>2, <2>8
    <3> QED
      BY <2>1, <2>6, <3>1, <3>2
  <2> QED
    BY <2>7, <2>8
<1>8. ReadSoFar'
  BY DEF ReadSoFar, PublishWorkflowLiveEvent, clientVars, ResolvedExecution
<1>9. NothingMissed'
  <2> SUFFICES ASSUME NEW l \in registered, NEW k \in complete[l],
                      NEW x \in ResolvedExecution(l), NEW i \in 1..Len(rows[k][x]),
                      Wants(l, rows[k][x][i])
               PROVE  \/ rows[k][x][i] \in snapshot[l]
                      \/ \E j \in 1..Len(Heard(l)') : Heard(l)'[j] = rows[k][x][i]
                      \/ appender'[rows[k][x][i]] = "stored"
    BY DEF NothingMissed, PublishWorkflowLiveEvent, loopVars, clientVars, Wants,
       ResolvedExecution
  <2>1. l \in Listeners /\ rows[k][x][i] \in Events
    BY ElementOfSeq DEF TypeOK, ResolvedExecution
  <2>2. CASE rows[k][x][i] = e
    BY <1>6, <2>2, AppendElements
  <2>3. CASE rows[k][x][i] # e
    <3>1. CASE \E j \in 1..Len(Heard(l)) : Heard(l)[j] = rows[k][x][i]
      BY <1>6, <3>1, AppendElements
    <3> QED
      BY <1>2, <2>1, <2>3, <3>1 DEF NothingMissed
  <2> QED
    BY <2>2, <2>3
<1> QED
  BY <1>1, <1>3, <1>5, <1>7, <1>8, <1>9

-------------------------------------------------------------------------------
(* Listening. *)

LEMMA ListenKeepsInv ==
  ASSUME StreamInv, NEW l \in Listeners, Listen(l)
  PROVE  StreamInv'
<1> USE DEF StreamInv
<1>1. TypeOK'
  BY DEF Listen, TypeOK, busVars, clientVars
<1>2. Numbering' /\ Fresh'
  BY DEF Listen, Numbering, Fresh, TypeOK, busVars, clientVars
<1>3. \A m \in Listeners : Heard(m)' = Heard(m)
  BY DEF Listen, Heard
<1>4. \A m \in registered : since'[m] = since[m]
  BY DEF Listen, TypeOK
<1>5. Heard(l) = <<>> /\ complete[l] = {} /\ since'[l] = emitted
  BY EmptySeq, ConcatEmptySeq DEF Listen, Fresh, Heard, TypeOK
<1>6. /\ registered' = registered \cup {l} /\ registered' \subseteq Listeners
      /\ UNCHANGED <<busVars, clientVars>>
  BY DEF Listen, TypeOK
<1>7. HeardInOrder'
  <2> SUFFICES ASSUME NEW m \in registered \cup {l}
               PROVE  /\ \A i, j \in 1..Len(Heard(m)) :
                           i < j => emittedAt[Heard(m)[i]] < emittedAt[Heard(m)[j]]
                      /\ {Heard(m)[i] : i \in 1..Len(Heard(m))} =
                           {f \in Events : emittedAt[f] > since'[m] /\ Wants(m, f)}
    BY <1>3, <1>6 DEF HeardInOrder, busVars, Wants
  <2>1. CASE m \in registered
    BY <1>4, <2>1 DEF HeardInOrder
  <2>2. CASE m = l
    <3>1. Len(Heard(m)) = 0
      BY <1>5, <2>2, EmptySeq
    <3>2. \A f \in Events : ~(emittedAt[f] > emitted)
      BY DEF Numbering, TypeOK
    <3> QED
      BY <1>5, <2>2, <3>1, <3>2
  <2> QED
    BY <2>1, <2>2
<1>8. ReadSoFar'
  BY DEF ReadSoFar, Listen, busVars, clientVars, ResolvedExecution
<1>9. NothingMissed'
  <2>1. \A m \in registered' : m \in registered \/ complete[m] = {}
    BY <1>5, <1>6
  <2> QED
    BY <1>3, <1>6, <2>1 DEF NothingMissed, busVars, clientVars, Wants, ResolvedExecution
<1> QED
  BY <1>1, <1>2, <1>7, <1>8, <1>9

LEMMA YieldKeepsInv ==
  ASSUME StreamInv, NEW l \in Listeners, YieldEvent(l)
  PROVE  StreamInv'
<1> USE DEF StreamInv
<1>1. Head(queue[l]) \in Events /\ Tail(queue[l]) \in Seq(Events)
  BY HeadTailProperties DEF YieldEvent, TypeOK
<1>2. Append(delivered[l], Head(queue[l])) \in Seq(Events)
  BY <1>1, AppendElements DEF TypeOK
<1>3. TypeOK'
  BY <1>1, <1>2 DEF YieldEvent, TypeOK, busVars, clientVars
<1>4. Numbering' /\ Fresh'
  BY DEF YieldEvent, Numbering, Fresh, TypeOK, busVars, clientVars
<1>5. ASSUME NEW m \in Listeners
      PROVE  Heard(m)' = Heard(m)
  <2>1. CASE m = l
    <3>1. \A d, q \in Seq(Events) :
            q # <<>> => Append(d, Head(q)) \o Tail(q) = d \o q
      BY HeardKept
    <3>2. delivered[l] \in Seq(Events) /\ queue[l] \in Seq(Events) /\ queue[l] # <<>>
      BY DEF TypeOK, YieldEvent
    <3>3. delivered'[l] = Append(delivered[l], Head(queue[l])) /\ queue'[l] = Tail(queue[l])
      BY DEF TypeOK, YieldEvent
    <3> QED
      BY <2>1, <3>1, <3>2, <3>3 DEF Heard
  <2>2. CASE m # l
    BY <2>2 DEF YieldEvent, Heard, TypeOK
  <2> QED
    BY <2>1, <2>2
<1>6. HeardInOrder'
  BY <1>5, OrderKept DEF YieldEvent, TypeOK, busVars
<1>7. NothingMissed' /\ ReadSoFar'
  BY <1>5, ReadingKept DEF YieldEvent, TypeOK, busVars
<1> QED
  BY <1>3, <1>4, <1>6, <1>7

LEMMA ReleaseKeepsInv ==
  ASSUME StreamInv, NEW l \in Listeners, Release(l)
  PROVE  StreamInv'
<1> USE DEF StreamInv
<1>1. TypeOK'
  BY DEF Release, TypeOK, busVars, clientVars
<1>2. Numbering' /\ Fresh'
  BY DEF Release, Numbering, Fresh, TypeOK, busVars, clientVars
<1>3. \A m \in Listeners : Heard(m)' = Heard(m)
  BY DEF Release, Heard
<1>4. HeardInOrder'
  BY <1>3, OrderKept DEF Release, TypeOK, busVars
<1>5. NothingMissed' /\ ReadSoFar'
  BY <1>3, ReadingKept DEF Release, TypeOK, busVars
<1> QED
  BY <1>1, <1>2, <1>4, <1>5

\* Asking for the next event, the timeout, closing.
LEMMA SignalKeepsInv ==
  ASSUME StreamInv, NEW l \in Listeners, Resume(l) \/ TimerFires(l) \/ Close(l)
  PROVE  StreamInv'
<1> USE DEF StreamInv, Resume, TimerFires, Close
<1>1. TypeOK'
  BY DEF TypeOK, busVars, loopVars, clientVars
<1>2. Numbering' /\ Fresh'
  BY DEF Numbering, Fresh, TypeOK, busVars, loopVars, clientVars
<1>3. \A m \in Listeners : Heard(m)' = Heard(m)
  BY DEF Heard
<1>4. registered' = registered /\ UNCHANGED <<busVars, since, clientVars>>
  BY DEF loopVars
<1>5. HeardInOrder'
  BY <1>3, <1>4, OrderKept DEF TypeOK, busVars
<1>6. NothingMissed' /\ ReadSoFar'
  BY <1>3, <1>4, ReadingKept DEF TypeOK, busVars
<1> QED
  BY <1>1, <1>2, <1>5, <1>6

-------------------------------------------------------------------------------
(* Reading. *)

LEMMA FetchKeepsInv ==
  ASSUME StreamInv, NEW l \in Listeners, NEW k \in Kinds, FetchPage(l, k)
  PROVE  StreamInv'
<1> USE DEF StreamInv
<1> DEFINE next == offset[l][k] + First
<1>1. PICK x \in ResolvedExecution(l) :
        LET page == {i \in 1..Len(rows[k][x]) : offset[l][k] < i /\ i <= next}
        IN  /\ snapshot' = [snapshot EXCEPT ![l] = @ \cup {rows[k][x][i] : i \in page}]
            /\ offset' = [offset EXCEPT ![l][k] = next]
            /\ complete' = IF next > Len(rows[k][x])
                             THEN [complete EXCEPT ![l] = @ \cup {k}] ELSE complete
  BY DEF FetchPage
<1>2. x \in Executions /\ rows[k][x] \in Seq(Events) /\ Len(rows[k][x]) \in Nat
  BY LenProperties DEF ResolvedExecution, TypeOK
<1>3. \A i \in 1..Len(rows[k][x]) : rows[k][x][i] \in Events
  BY <1>2, ElementOfSeq
<1>4. offset[l][k] \in Nat /\ next \in Nat
  BY LiveAssumption DEF TypeOK
<1>5. TypeOK'
  <2>1. snapshot' \in [Listeners -> SUBSET Events]
    BY <1>1, <1>3 DEF TypeOK
  <2>2. offset' \in [Listeners -> [Kinds -> Nat]]
    BY <1>1, <1>4 DEF TypeOK
  <2>3. complete' \in [Listeners -> SUBSET Kinds]
    BY <1>1 DEF TypeOK
  <2> QED
    BY <2>1, <2>2, <2>3 DEF FetchPage, TypeOK, busVars, loopVars
<1>6. Numbering' /\ Fresh'
  BY <1>1 DEF FetchPage, Numbering, Fresh, TypeOK, busVars, loopVars
<1>7. \A m \in Listeners : Heard(m)' = Heard(m)
  BY DEF FetchPage, Heard
<1>8. HeardInOrder'
  BY <1>7, OrderKept DEF FetchPage, TypeOK, busVars, loopVars
<1>9. \A y \in ResolvedExecution(l) : y = x
  BY LiveAssumption DEF ResolvedExecution
<1>10. /\ \A m \in Listeners : snapshot[m] \subseteq snapshot'[m]
       /\ \A i \in 1..Len(rows[k][x]) : i <= next => rows[k][x][i] \in snapshot'[l]
  <2>1. \A m \in Listeners : snapshot[m] \subseteq snapshot'[m]
    BY <1>1 DEF TypeOK
  <2>2. ASSUME NEW i \in 1..Len(rows[k][x]), i <= next
        PROVE  rows[k][x][i] \in snapshot'[l]
    <3>1. CASE i <= offset[l][k]
      BY <2>1, <3>1 DEF ReadSoFar, FetchPage
    <3>2. CASE offset[l][k] < i
      BY <1>1, <2>2, <3>2 DEF TypeOK
    <3> QED
      BY <1>2, <1>4, <3>1, <3>2
  <2> QED
    BY <2>1, <2>2
<1>11. ReadSoFar'
  <2> SUFFICES ASSUME NEW m \in Listeners, NEW kk \in Kinds \ complete'[m],
                      NEW y \in ResolvedExecution(m)
               PROVE  /\ offset'[m][kk] <= Len(rows[kk][y])
                      /\ \A i \in 1..Len(rows[kk][y]) :
                           i <= offset'[m][kk] => rows[kk][y][i] \in snapshot'[m]
    BY DEF ReadSoFar, FetchPage, busVars, ResolvedExecution
  <2>1. CASE m = l /\ kk = k
    <3>1. offset'[l][k] = next /\ next <= Len(rows[k][x])
      BY <1>1, <1>2, <1>4, <2>1 DEF TypeOK
    <3> QED
      BY <1>9, <1>10, <2>1, <3>1
  <2>2. CASE ~(m = l /\ kk = k)
    <3>1. offset'[m][kk] = offset[m][kk] /\ kk \notin complete[m]
      BY <1>1, <2>2 DEF TypeOK
    <3> QED
      BY <1>10, <3>1 DEF ReadSoFar
  <2> QED
    BY <2>1, <2>2
<1>12. /\ registered' = registered /\ registered \subseteq Listeners
       /\ rows' = rows /\ appender' = appender
  BY DEF FetchPage, TypeOK, busVars, loopVars
<1>13. NothingMissed'
  <2> SUFFICES ASSUME NEW m \in registered, NEW kk \in complete'[m],
                      NEW y \in ResolvedExecution(m), NEW i \in 1..Len(rows[kk][y]),
                      Wants(m, rows[kk][y][i])
               PROVE  \/ rows[kk][y][i] \in snapshot'[m]
                      \/ \E j \in 1..Len(Heard(m)) : Heard(m)[j] = rows[kk][y][i]
                      \/ appender[rows[kk][y][i]] = "stored"
    BY <1>7, <1>12 DEF NothingMissed, Wants, ResolvedExecution
  <2>1. CASE kk \in complete[m]
    <3>1. \/ rows[kk][y][i] \in snapshot[m]
          \/ \E j \in 1..Len(Heard(m)) : Heard(m)[j] = rows[kk][y][i]
          \/ appender[rows[kk][y][i]] = "stored"
      BY <2>1 DEF NothingMissed
    <3> QED
      BY <1>10, <3>1 DEF TypeOK
  <2>2. CASE kk \notin complete[m]
    <3>1. m = l /\ kk = k /\ next > Len(rows[k][x])
      BY <1>1, <2>2 DEF TypeOK
    <3> QED
      BY <1>2, <1>4, <1>9, <1>10, <3>1
  <2> QED
    BY <2>1, <2>2
<1> QED
  BY <1>5, <1>6, <1>8, <1>11, <1>13

-------------------------------------------------------------------------------

LEMMA NextKeepsInv == StreamInv /\ [Next]_vars => StreamInv'
<1> SUFFICES ASSUME StreamInv, [Next]_vars PROVE StreamInv'
  OBVIOUS
<1>1. CASE \E e \in Events : Appending(e)
  BY <1>1, StoreRowKeepsInv, PublishKeepsInv DEF Appending
<1>2. CASE \E l \in Listeners : Generator(l)
  BY <1>2, YieldKeepsInv, ReleaseKeepsInv DEF Generator, EndExpired, EndClosed
<1>3. CASE \E l \in Listeners : TimerFires(l)
  BY <1>3, SignalKeepsInv
<1>4. CASE \E l \in Listeners : Client(l)
  BY <1>4, ListenKeepsInv, SignalKeepsInv, FetchKeepsInv DEF Client
<1>5. CASE UNCHANGED vars
  <2>1. TypeOK' /\ Numbering' /\ Fresh'
    BY <1>5 DEF StreamInv, TypeOK, Numbering, Fresh, vars, busVars, loopVars, clientVars
  <2>2. HeardInOrder' /\ ReadSoFar' /\ NothingMissed'
    BY <1>5, OrderKept, ReadingKept DEF StreamInv, Heard, vars, busVars, loopVars, clientVars
  <2> QED
    BY <2>1, <2>2 DEF StreamInv
<1> QED
  BY <1>1, <1>2, <1>3, <1>4, <1>5 DEF Next

\* Every behaviour keeps the types, the numbering and what the clients have read.
THEOREM StreamInvariant == Spec => []StreamInv
<1> QED
  BY InitStreamInv, NextKeepsInv, PTL DEF Spec

\* The type invariant, for every instance.
THEOREM TypeCorrect == Spec => []TypeOK
<1>1. StreamInv => TypeOK
  BY DEF StreamInv
<1> QED
  BY <1>1, StreamInvariant, PTL

\* However many listeners and appenders interleave, a registered listener has exactly the
\* events of its topic since it was registered, each once, in the order they were emitted.
THEOREM OrderIsKept == Spec => []HeardInOrder
<1>1. StreamInv => HeardInOrder
  BY DEF StreamInv
<1> QED
  BY <1>1, StreamInvariant, PTL

\* Subscribing before reading the stored rows misses none, for every page size, whatever is
\* stored and published between two pages.
THEOREM SubscribingFirstMissesNothing == Spec => []NothingMissed
<1>1. StreamInv => NothingMissed
  BY DEF StreamInv
<1> QED
  BY <1>1, StreamInvariant, PTL
=================================================================================
