------------------------- MODULE ExecutionTrackerProofs -------------------------
(***************************************************************************)
(* Proofs about ExecutionTracker, for every set of executions and calls,   *)
(* whatever the store rejects.                                             *)
(***************************************************************************)
EXTENDS ExecutionTracker, SequenceTheorems, TLAPS

\* A transition that goes on to write has seen a status it expects.
SeenExpected ==
  \A t \in Transitions : at[t] = "write" /\ Expected[t] # {} => looked[t] \in Expected[t]

\* A call writes no more entries than there are.
LengthsHold == \A c \in Events \cup Finals : length[c] <= Len(entries[ExecutionOf[c]])

\* After a finalize that found no write pending, every write under way has its entries.
LaterHaveMore ==
  \A f \in drained :
    /\ at[f] # "idle"
    /\ \A c \in Events \cup Finals :
         ExecutionOf[c] = ExecutionOf[f] /\ at[c] = "write" => length[c] >= length[f]

TrackerInv == TypeOK /\ SeenExpected /\ LengthsHold /\ LaterHaveMore /\ TrackedLogsKept

-------------------------------------------------------------------------------
(* Sequences. *)

LEMMA PrefixTaken ==
  ASSUME NEW S, NEW s \in Seq(S), NEW n \in Nat, n <= Len(s)
  PROVE  SubSeq(s, 1, n) \in Seq(S) /\ Len(SubSeq(s, 1, n)) = n
<1>1. \A i \in 1..n : s[i] \in S
  BY ElementOfSeq, LenProperties
<1> QED
  BY <1>1, SubSeqProperties, LenProperties

\* The entries that are already there do not change when one is recorded.
LEMMA PrefixStays ==
  ASSUME NEW S, NEW s \in Seq(S), NEW e \in S, NEW n \in Nat, n <= Len(s)
  PROVE  /\ Append(s, e) \in Seq(S) /\ Len(Append(s, e)) = Len(s) + 1
         /\ SubSeq(Append(s, e), 1, n) = SubSeq(s, 1, n)
<1>1. Append(s, e) \in Seq(S) /\ Len(Append(s, e)) = Len(s) + 1
      /\ \A i \in 1..Len(s) : Append(s, e)[i] = s[i]
  BY AppendProperties, LenProperties
<1> QED
  BY <1>1, LenProperties

\* A call's entries are the first ones of its tracker.
LEMMA EntriesTaken ==
  ASSUME TypeOK, LengthsHold, TrackerAssumption, NEW c \in Events \cup Finals
  PROVE  /\ ExecutionOf[c] \in Executions
         /\ Entries(c) \in Seq(Events) /\ Entries(c) \in Seq(Logs)
         /\ Len(Entries(c)) = length[c]
         /\ Entries(c) = SubSeq(entries[ExecutionOf[c]], 1, Len(Entries(c)))
<1>1. ExecutionOf[c] \in Executions
  BY DEF TrackerAssumption, Calls
<1>2. entries[ExecutionOf[c]] \in Seq(Events) /\ length[c] \in Nat
  BY <1>1 DEF TypeOK
<1>3. length[c] <= Len(entries[ExecutionOf[c]])
  BY DEF LengthsHold
<1>4. Entries(c) \in Seq(Events) /\ Len(Entries(c)) = length[c]
  BY <1>2, <1>3, PrefixTaken DEF Entries
<1>5. Seq(Events) \subseteq Seq(Logs)
  BY DEF Logs
<1> QED
  BY <1>1, <1>4, <1>5 DEF Entries

-------------------------------------------------------------------------------
(* Type correctness. *)

LEMMA TrackerInit == Init /\ TrackerAssumption => TrackerInv
<1> SUFFICES ASSUME Init, TrackerAssumption PROVE TrackerInv
  OBVIOUS
<1> USE DEF Init, TrackerAssumption
<1>1. TypeOK
  <2>1. /\ logs \in [Executions -> Seq(Logs)]
        /\ entries \in [Executions -> Seq(Events)]
        /\ seed \in [Seeded -> Seq(Logs)]
    OBVIOUS
  <2>2. /\ status \in [Executions -> Statuses \cup {"none"}]
        /\ at \in [Calls -> {"idle", "seed", "lookup", "write", "done", "failed"}]
        /\ length \in [Events \cup Finals -> Nat]
        /\ cast \in [Casters -> {"none", "listing", "latest", "done"}]
        /\ found \in [Casters -> Statuses \cup {"none", "idle"}]
        /\ catalog \in Statuses \cup {"none", "idle"}
        /\ looked \in [Transitions -> Statuses \cup {"none"}]
    OBVIOUS
  <2>3. /\ drained \subseteq Finals /\ overlapped \subseteq Executions
        /\ claimed \in BOOLEAN /\ stale \in BOOLEAN
    OBVIOUS
  <2> QED
    BY <2>1, <2>2, <2>3 DEF TypeOK
<1>2. SeenExpected /\ LaterHaveMore
  BY DEF SeenExpected, LaterHaveMore, Calls
<1>3. LengthsHold
  BY DEF LengthsHold, Calls
<1>4. TrackedLogsKept
  <2>1. ASSUME NEW x \in Executions PROVE IsPrefixOfEntries(x)
    BY DEF IsPrefixOfEntries
  <2> QED
    BY <2>1 DEF TrackedLogsKept
<1> QED
  BY <1>1, <1>2, <1>3, <1>4 DEF TrackerInv

LEMMA CastKeepsType ==
  ASSUME TypeOK, TrackerAssumption, NEW c \in Casters, Cast(c) \/ StartCast(c)
  PROVE  /\ cast' \in [Casters -> {"none", "listing", "latest", "done"}]
         /\ found' \in [Casters -> Statuses \cup {"none", "idle"}]
         /\ catalog' \in Statuses \cup {"none", "idle"}
         /\ claimed' \in BOOLEAN /\ stale' \in BOOLEAN
<1> USE DEF TypeOK
<1>1. CatalogStatus(c) \in Statuses \cup {"idle"}
  BY DEF CatalogStatus, Announced, TrackerAssumption, Casters, Statuses, Active
<1>2. CASE ListActive(c)
  BY <1>1, <1>2 DEF ListActive
<1>3. CASE EmitCatalogStatus(c)
  BY <1>3 DEF EmitCatalogStatus, Claims
<1>4. CASE CastFails(c)
  BY <1>4 DEF CastFails
<1>5. CASE StartCast(c)
  BY <1>5 DEF StartCast
<1> QED
  BY <1>2, <1>3, <1>4, <1>5 DEF Cast

LEMMA TypeStep == TrackerInv /\ TrackerAssumption /\ [Next]_vars => TypeOK'
<1> SUFFICES ASSUME TrackerInv, TrackerAssumption, [Next]_vars PROVE TypeOK'
  OBVIOUS
<1>i. TypeOK /\ LengthsHold
  BY DEF TrackerInv
<1> USE <1>i
<1>o. ExecutionOf \in [Calls -> Executions]
  BY DEF TrackerAssumption
<1>1. ASSUME NEW x \in Executions, CreateTracker(x) PROVE TypeOK'
  <2>1. To[x] \in Statuses /\ x \in Casters
    BY DEF TrackerAssumption, Casters, Writers
  <2>2. CASE x \in FastTracked
    BY <1>1, <2>1, <2>2 DEF CreateTracker, NoCast, TypeOK, historyVars
  <2>3. CASE x \notin FastTracked
    <3>1. StartCast(x)
      BY <1>1, <2>3 DEF CreateTracker
    <3> QED
      BY <1>1, <2>1, <3>1, CastKeepsType DEF CreateTracker, TypeOK, historyVars
  <2> QED
    BY <2>2, <2>3
<1>2. ASSUME NEW e \in Events, RecordEvent(e) PROVE TypeOK'
  <2>1. ExecutionOf[e] \in Executions /\ e \in Calls
    BY <1>o DEF Calls
  <2>2. entries[ExecutionOf[e]] \in Seq(Events)
    BY <2>1 DEF TypeOK
  <2>3. Append(entries[ExecutionOf[e]], e) \in Seq(Events) /\ Len(entries[ExecutionOf[e]]) + 1 \in Nat
    BY <2>2, AppendProperties, LenProperties
  <2> QED
    BY <1>2, <2>1, <2>3 DEF RecordEvent, Begin, TypeOK, castVars
<1>3. ASSUME NEW f \in Finals, Finalize(f) PROVE TypeOK'
  <2>1. ExecutionOf[f] \in Executions /\ f \in Calls
    BY <1>o DEF Calls
  <2>2. Len(entries[ExecutionOf[f]]) \in Nat
    BY <2>1, LenProperties DEF TypeOK
  <2> QED
    BY <1>3, <2>1, <2>2 DEF Finalize, Begin, TypeOK, castVars
<1>4. ASSUME NEW c \in Seeded, BeginSeeded(c) PROVE TypeOK'
  <2>1. ExecutionOf[c] \in Executions /\ c \in Calls
    BY <1>o DEF Calls, Seeded
  <2> QED
    BY <1>4, <2>1 DEF BeginSeeded, Begin, TypeOK, castVars
<1>5. ASSUME NEW c \in Seeded, ReadSeed(c) PROVE TypeOK'
  <2>1. ExecutionOf[c] \in Executions /\ c \in Calls
    BY <1>o DEF Calls, Seeded
  <2> QED
    BY <1>5, <2>1 DEF ReadSeed, TypeOK, castVars, historyVars
<1>6. ASSUME NEW t \in Transitions, BeginTransition(t) PROVE TypeOK'
  <2>1. t \in Calls
    BY DEF Calls
  <2> QED
    BY <1>6, <2>1 DEF BeginTransition, Begin, TypeOK, castVars
<1>7. ASSUME NEW t \in Transitions, LookupExpected(t) PROVE TypeOK'
  <2>1. ExecutionOf[t] \in Executions /\ t \in Calls
    BY <1>o DEF Calls
  <2> QED
    BY <1>7, <2>1 DEF LookupExpected, TypeOK, castVars
<1>8. ASSUME NEW e \in Events, WriteEvent(e) PROVE TypeOK'
  <2>1. ExecutionOf[e] \in Executions /\ e \in Calls /\ Entries(e) \in Seq(Logs)
    BY EntriesTaken DEF Calls
  <2> QED
    BY <1>8, <2>1 DEF WriteEvent, Write, TypeOK, castVars, historyVars
<1>9. ASSUME NEW f \in Finals, WriteFinal(f) PROVE TypeOK'
  <2>1. ExecutionOf[f] \in Executions /\ f \in Calls /\ Entries(f) \in Seq(Logs)
    BY EntriesTaken DEF Calls
  <2>2. To[f] \in Statuses /\ f \in Casters /\ StartCast(f)
    BY <1>9 DEF TrackerAssumption, Casters, Writers, WriteFinal
  <2> QED
    BY <1>9, <2>1, <2>2, CastKeepsType DEF WriteFinal, Write, TypeOK, historyVars
<1>10. ASSUME NEW a \in Appends, WriteAppend(a) PROVE TypeOK'
  <2>1. ExecutionOf[a] \in Executions /\ a \in Calls /\ a \in Seeded /\ a \in Logs
    BY <1>o DEF Calls, Seeded, Logs
  <2>2. Append(seed[a], a) \in Seq(Logs)
    BY <2>1, AppendProperties DEF TypeOK
  <2> QED
    BY <1>10, <2>1, <2>2 DEF WriteAppend, Write, TypeOK, castVars, historyVars
<1>11. ASSUME NEW z \in Finalizations, WriteFinalization(z) PROVE TypeOK'
  <2>1. ExecutionOf[z] \in Executions /\ z \in Calls /\ z \in Seeded
    BY <1>o DEF Calls, Seeded
  <2>2. ResolveStoredLogs(z) \in Seq(Logs)
    BY <2>1 DEF ResolveStoredLogs, TypeOK, TrackerAssumption
  <2>3. To[z] \in Statuses /\ z \in Casters /\ StartCast(z)
    BY <1>11 DEF TrackerAssumption, Casters, Writers, WriteFinalization
  <2> QED
    BY <1>11, <2>1, <2>2, <2>3, CastKeepsType DEF WriteFinalization, Write, TypeOK, historyVars
<1>12. ASSUME NEW t \in Transitions, WriteTransition(t) PROVE TypeOK'
  <2>1. ExecutionOf[t] \in Executions /\ t \in Calls
    BY <1>o DEF Calls
  <2>2. To[t] \in Statuses /\ t \in Casters /\ StartCast(t)
    BY <1>12 DEF TrackerAssumption, Casters, Writers, WriteTransition
  <2> QED
    BY <1>12, <2>1, <2>2, CastKeepsType DEF WriteTransition, Write, TypeOK, historyVars
<1>13. ASSUME NEW c \in Calls, CallFails(c) PROVE TypeOK'
  BY <1>13 DEF CallFails, TypeOK, castVars, historyVars
<1>14. ASSUME NEW c \in Casters, Cast(c) PROVE TypeOK'
  <2>1. UNCHANGED <<status, logs, entries, at, length, seed, historyVars>>
    BY <1>14 DEF Cast, ListActive, EmitCatalogStatus, CastFails
  <2> QED
    BY <1>14, <2>1, CastKeepsType DEF TypeOK, historyVars
<1>15. ASSUME NEW v \in Viewers, ListRunningStatuses(v) PROVE TypeOK'
  <2>1. v \in Casters /\ StartCast(v)
    BY <1>15 DEF Casters, ListRunningStatuses
  <2> QED
    BY <1>15, <2>1, CastKeepsType DEF ListRunningStatuses, TypeOK, historyVars
<1>16. ASSUME NEW q \in Asides, WriteAside(q) PROVE TypeOK'
  <2>1. ExecutionOf[q] \in Executions /\ q \in Calls /\ To[q] \in Statuses
    BY <1>o DEF Calls, TrackerAssumption
  <2> QED
    BY <1>16, <2>1 DEF WriteAside, NoCast, TypeOK, historyVars
<1>17. CASE UNCHANGED vars
  BY <1>17 DEF vars, castVars, historyVars, TypeOK
<1> QED
  BY <1>1, <1>2, <1>3, <1>4, <1>5, <1>6, <1>7, <1>8, <1>9, <1>10, <1>11, <1>12, <1>13, <1>14,
     <1>15, <1>16, <1>17 DEF Next

-------------------------------------------------------------------------------
(* The stored logs and the outcome. *)

\* The steps that touch neither entries, lengths, logs nor what was found drained leave the
\* last three parts as they are, if no call goes back to its write.
LEMMA RecordsUntouched ==
  ASSUME TrackerInv, TrackerAssumption, UNCHANGED <<logs, entries, length, drained>>,
         \A c \in Events \cup Finals : at'[c] = "write" => at[c] = "write",
         \A f \in Finals : at[f] # "idle" => at'[f] # "idle",
         \A f \in Finals : at'[f] = "done" => at[f] = "done"
  PROVE  LengthsHold' /\ LaterHaveMore' /\ TrackedLogsKept'
<1> USE DEF TrackerInv
<1>1. drained \subseteq Finals
  BY DEF TypeOK
<1>2. LengthsHold'
  BY DEF LengthsHold
<1>3. LaterHaveMore'
  BY <1>1 DEF LaterHaveMore
<1>4. TrackedLogsKept'
  BY <1>1 DEF TrackedLogsKept, Tracked, IsPrefixOfEntries
<1> QED
  BY <1>2, <1>3, <1>4

\* The write of an event or of a finalize leaves its own entries in the row.
LEMMA OwnEntriesWritten ==
  ASSUME TrackerInv, TrackerAssumption, NEW c \in Events \cup Finals, Write(c),
         logs' = [logs EXCEPT ![ExecutionOf[c]] = Entries(c)], drained' = drained
  PROVE  LengthsHold' /\ LaterHaveMore' /\ TrackedLogsKept'
<1> USE DEF TrackerInv
<1>1. /\ ExecutionOf[c] \in Executions /\ c \in Calls
      /\ Len(Entries(c)) = length[c]
      /\ Entries(c) = SubSeq(entries[ExecutionOf[c]], 1, Len(Entries(c)))
      /\ length[c] <= Len(entries[ExecutionOf[c]])
  BY EntriesTaken DEF Calls, LengthsHold
<1>2. drained \subseteq Finals /\ at \in [Calls -> {"idle", "seed", "lookup", "write", "done", "failed"}]
      /\ logs \in [Executions -> Seq(Logs)]
  BY DEF TypeOK
<1>3. at[c] = "write" /\ at' = [at EXCEPT ![c] = "done"] /\ UNCHANGED <<entries, length>>
  BY DEF Write
<1>4. LengthsHold'
  BY <1>3 DEF LengthsHold
<1>5. LaterHaveMore'
  <2>1. ASSUME NEW f \in drained
        PROVE  /\ at'[f] # "idle"
               /\ \A d \in Events \cup Finals :
                    ExecutionOf[d] = ExecutionOf[f] /\ at'[d] = "write" => length[d] >= length[f]
    BY <1>1, <1>2, <1>3, <2>1 DEF LaterHaveMore, Calls
  <2> QED
    BY <1>3, <2>1 DEF LaterHaveMore
<1>6. TrackedLogsKept'
  <2> SUFFICES ASSUME NEW x \in Executions, Tracked(x)
               PROVE  /\ IsPrefixOfEntries(x)'
                      /\ \A f \in drained : ExecutionOf[f] = x /\ at'[f] = "done" =>
                           Len(logs'[x]) >= length[f]
    BY <1>3 DEF TrackedLogsKept, Tracked
  <2>1. CASE x # ExecutionOf[c]
    <3>1. logs'[x] = logs[x]
      BY <1>1, <1>2, <2>1
    <3>2. \A f \in drained : ExecutionOf[f] = x => at'[f] = at[f]
      BY <1>1, <1>2, <1>3, <2>1 DEF Calls
    <3> QED
      BY <1>3, <3>1, <3>2 DEF TrackedLogsKept, IsPrefixOfEntries
  <2>2. CASE x = ExecutionOf[c]
    <3>1. logs'[x] = Entries(c)
      BY <1>1, <1>2, <2>2
    <3>2. ASSUME NEW f \in drained, ExecutionOf[f] = x PROVE length[c] >= length[f]
      BY <1>3, <2>2, <3>2 DEF LaterHaveMore
    <3> QED
      BY <1>1, <1>3, <2>2, <3>1, <3>2 DEF IsPrefixOfEntries
  <2> QED
    BY <2>1, <2>2
<1> QED
  BY <1>4, <1>5, <1>6

\* The logs of other calls go to executions that are not tracked.
LEMMA SeededElsewhere ==
  ASSUME TrackerInv, TrackerAssumption, NEW c \in Seeded, NEW l,
         logs' = [logs EXCEPT ![ExecutionOf[c]] = l],
         UNCHANGED <<entries, length, drained>>, at' = [at EXCEPT ![c] = "done"]
  PROVE  LengthsHold' /\ LaterHaveMore' /\ TrackedLogsKept'
<1> USE DEF TrackerInv
<1>1. drained \subseteq Finals /\ logs \in [Executions -> Seq(Logs)]
  BY DEF TypeOK
<1>2. \A d \in Events \cup Finals : at'[d] = at[d]
  BY DEF TypeOK, TrackerAssumption, Calls
<1>3. LengthsHold' /\ LaterHaveMore'
  BY <1>1, <1>2 DEF LengthsHold, LaterHaveMore
<1>4. ASSUME NEW x \in Executions, Tracked(x) PROVE logs'[x] = logs[x]
  BY <1>1, <1>4 DEF Tracked
<1>5. TrackedLogsKept'
  BY <1>1, <1>2, <1>4 DEF TrackedLogsKept, Tracked, IsPrefixOfEntries
<1> QED
  BY <1>3, <1>5

LEMMA RecordsStep ==
  TrackerInv /\ TrackerAssumption /\ [Next]_vars =>
    LengthsHold' /\ LaterHaveMore' /\ TrackedLogsKept'
<1> SUFFICES ASSUME TrackerInv, TrackerAssumption, [Next]_vars
             PROVE  LengthsHold' /\ LaterHaveMore' /\ TrackedLogsKept'
  OBVIOUS
<1>i. /\ TypeOK /\ LengthsHold /\ LaterHaveMore /\ TrackedLogsKept
      /\ drained \subseteq Finals
      /\ at \in [Calls -> {"idle", "seed", "lookup", "write", "done", "failed"}]
      /\ entries \in [Executions -> Seq(Events)]
      /\ length \in [Events \cup Finals -> Nat]
  BY DEF TrackerInv, TypeOK
<1>o. ExecutionOf \in [Calls -> Executions]
  BY DEF TrackerAssumption
<1>d. /\ Events \cap (Finals \cup Seeded \cup Transitions) = {}
      /\ Finals \cap (Seeded \cup Transitions) = {}
  BY DEF TrackerAssumption
<1>1. ASSUME NEW x \in Executions, CreateTracker(x)
      PROVE  LengthsHold' /\ LaterHaveMore' /\ TrackedLogsKept'
  BY <1>1, RecordsUntouched DEF CreateTracker, historyVars
<1>2. ASSUME NEW e \in Events, RecordEvent(e)
      PROVE  LengthsHold' /\ LaterHaveMore' /\ TrackedLogsKept'
  <2> DEFINE y == ExecutionOf[e]
  <2>1. y \in Executions /\ e \in Calls
    BY <1>o DEF Calls
  <2>2. /\ entries' = [entries EXCEPT ![y] = Append(entries[y], e)]
        /\ length' = [length EXCEPT ![e] = Len(entries[y]) + 1]
        /\ at[e] = "idle" /\ at' = [at EXCEPT ![e] = "write"]
        /\ UNCHANGED <<logs, drained>>
    BY <1>2 DEF RecordEvent, Begin
  <2>3. entries[y] \in Seq(Events) /\ Len(entries[y]) \in Nat
    BY <1>i, <2>1, LenProperties
  <2>4. Len(entries'[y]) = Len(entries[y]) + 1
    BY <1>i, <2>1, <2>2, <2>3, PrefixStays
  <2>5. \A x \in Executions : x # y => entries'[x] = entries[x]
    BY <1>i, <2>2
  <2>6. \A c \in Events \cup Finals : c # e => length'[c] = length[c] /\ at'[c] = at[c]
    BY <1>i, <2>2 DEF Calls
  <2>7. length'[e] = Len(entries[y]) + 1
    BY <1>i, <2>2
  <2>8. LengthsHold'
    <3>1. ASSUME NEW c \in Events \cup Finals PROVE length'[c] <= Len(entries'[ExecutionOf[c]])
      <4>1. ExecutionOf[c] \in Executions /\ length[c] <= Len(entries[ExecutionOf[c]])
            /\ length[c] \in Nat
        BY <1>i, <1>o DEF LengthsHold, Calls
      <4> QED
        BY <2>3, <2>4, <2>5, <2>6, <2>7, <4>1
    <3> QED
      BY <3>1 DEF LengthsHold
  <2>9. LaterHaveMore'
    <3> SUFFICES ASSUME NEW f \in drained
                 PROVE  /\ at'[f] # "idle"
                        /\ \A c \in Events \cup Finals :
                             ExecutionOf[c] = ExecutionOf[f] /\ at'[c] = "write" =>
                               length'[c] >= length'[f]
      BY <2>2 DEF LaterHaveMore
    <3>1. f # e /\ f \in Finals /\ f \in Events \cup Finals
      BY <1>i, <1>d
    <3>2. ExecutionOf[f] = y => length'[e] >= length'[f]
      <4>1. length[f] <= Len(entries[ExecutionOf[f]]) /\ length[f] \in Nat
        BY <1>i, <3>1 DEF LengthsHold
      <4> QED
        BY <2>3, <2>6, <2>7, <3>1, <4>1
    <3> QED
      BY <1>i, <2>6, <3>1, <3>2 DEF LaterHaveMore
  <2>10. TrackedLogsKept'
    <3> SUFFICES ASSUME NEW x \in Executions, Tracked(x)
                 PROVE  /\ IsPrefixOfEntries(x)'
                        /\ \A f \in drained : ExecutionOf[f] = x /\ at'[f] = "done" =>
                             Len(logs'[x]) >= length'[f]
      BY <2>2 DEF TrackedLogsKept, Tracked
    <3>1. IsPrefixOfEntries(x)
          /\ \A f \in drained : ExecutionOf[f] = x /\ at[f] = "done" => Len(logs[x]) >= length[f]
      BY <1>i DEF TrackedLogsKept
    <3>2. logs[x] \in Seq(Logs) /\ Len(logs[x]) \in Nat
      BY <1>i, LenProperties DEF TypeOK
    <3>3. CASE x = y
      <4>1. entries'[y] = Append(entries[y], e) /\ Len(logs[y]) <= Len(entries[y])
        BY <1>i, <2>1, <2>2, <3>1, <3>3 DEF IsPrefixOfEntries
      <4>2. SubSeq(entries'[y], 1, Len(logs[y])) = SubSeq(entries[y], 1, Len(logs[y]))
        BY <2>3, <3>2, <3>3, <4>1, PrefixStays
      <4>3. IsPrefixOfEntries(x)'
        BY <2>2, <2>3, <2>4, <3>1, <3>2, <3>3, <4>1, <4>2 DEF IsPrefixOfEntries
      <4> QED
        BY <1>i, <1>d, <2>2, <2>6, <3>1, <4>3
    <3>4. CASE x # y
      <4>1. IsPrefixOfEntries(x)'
        BY <2>2, <2>5, <3>1, <3>4 DEF IsPrefixOfEntries
      <4> QED
        BY <1>i, <1>d, <2>2, <2>6, <3>1, <4>1
    <3> QED
      BY <3>3, <3>4
  <2> QED
    BY <2>8, <2>9, <2>10
<1>3. ASSUME NEW f \in Finals, Finalize(f)
      PROVE  LengthsHold' /\ LaterHaveMore' /\ TrackedLogsKept'
  <2> DEFINE y == ExecutionOf[f]
  <2>1. y \in Executions /\ f \in Calls
    BY <1>o DEF Calls
  <2>2. /\ length' = [length EXCEPT ![f] = Len(entries[y])]
        /\ at[f] = "idle" /\ at' = [at EXCEPT ![f] = "write"]
        /\ drained' = IF PendingWrites(y) = {} THEN drained \cup {f} ELSE drained
        /\ UNCHANGED <<logs, entries>>
    BY <1>3 DEF Finalize, Begin
  <2>3. Len(entries[y]) \in Nat
    BY <1>i, <2>1, LenProperties
  <2>4. \A c \in Events \cup Finals : c # f => length'[c] = length[c] /\ at'[c] = at[c]
    BY <1>i, <2>2 DEF Calls
  <2>5. length'[f] = Len(entries[y]) /\ at'[f] = "write"
    BY <1>i, <2>1, <2>2
  <2>6. f \notin drained
    BY <1>i, <2>2 DEF LaterHaveMore
  <2>7. LengthsHold'
    BY <1>i, <2>2, <2>3, <2>4, <2>5 DEF LengthsHold
  <2>8. LaterHaveMore'
    <3> SUFFICES ASSUME NEW g \in drained', NEW c \in Events \cup Finals
                 PROVE  /\ at'[g] # "idle"
                        /\ ExecutionOf[c] = ExecutionOf[g] /\ at'[c] = "write" =>
                             length'[c] >= length'[g]
      BY DEF LaterHaveMore
    <3>1. CASE g \in drained
      <4>1. g # f /\ g \in Finals /\ length[g] \in Nat
            /\ length[g] <= Len(entries[ExecutionOf[g]])
        BY <1>i, <2>6, <3>1 DEF LengthsHold
      <4>2. CASE c = f
        BY <1>i, <2>3, <2>4, <2>5, <3>1, <4>1, <4>2 DEF LaterHaveMore
      <4>3. CASE c # f
        BY <1>i, <2>4, <3>1, <4>1, <4>3 DEF LaterHaveMore
      <4> QED
        BY <4>2, <4>3
    <3>2. CASE g = f /\ PendingWrites(y) = {}
      <4>1. c # f /\ ExecutionOf[c] = y => at'[c] # "write"
        BY <2>4, <3>2 DEF PendingWrites, InFlight
      <4> QED
        BY <2>3, <2>5, <3>2, <4>1
    <3> QED
      BY <2>2, <3>1, <3>2
  <2>9. TrackedLogsKept'
    <3>1. \A g \in drained' : at'[g] = "done" => g \in drained /\ at[g] = "done" /\ length'[g] = length[g]
      BY <1>i, <2>2, <2>4, <2>5, <2>6
    <3> QED
      BY <1>i, <2>2, <3>1 DEF TrackedLogsKept, Tracked, IsPrefixOfEntries
  <2> QED
    BY <2>7, <2>8, <2>9
<1>4. ASSUME NEW c \in Seeded, BeginSeeded(c) \/ ReadSeed(c)
      PROVE  LengthsHold' /\ LaterHaveMore' /\ TrackedLogsKept'
  <2>1. \A d \in Events \cup Finals : at'[d] = at[d]
    BY <1>i, <1>d, <1>4 DEF BeginSeeded, Begin, ReadSeed, Calls
  <2> QED
    BY <1>4, <2>1, RecordsUntouched DEF BeginSeeded, Begin, ReadSeed, historyVars
<1>5. ASSUME NEW t \in Transitions, BeginTransition(t) \/ LookupExpected(t)
      PROVE  LengthsHold' /\ LaterHaveMore' /\ TrackedLogsKept'
  <2>1. \A d \in Events \cup Finals : at'[d] = at[d]
    BY <1>i, <1>d, <1>5 DEF BeginTransition, Begin, LookupExpected, Calls
  <2> QED
    BY <1>5, <2>1, RecordsUntouched DEF BeginTransition, Begin, LookupExpected
<1>6. ASSUME NEW e \in Events, WriteEvent(e)
      PROVE  LengthsHold' /\ LaterHaveMore' /\ TrackedLogsKept'
  BY <1>6, OwnEntriesWritten DEF WriteEvent, Write, historyVars
<1>7. ASSUME NEW f \in Finals, WriteFinal(f)
      PROVE  LengthsHold' /\ LaterHaveMore' /\ TrackedLogsKept'
  BY <1>7, OwnEntriesWritten DEF WriteFinal, Write, historyVars
<1>8. ASSUME NEW a \in Appends, WriteAppend(a)
      PROVE  LengthsHold' /\ LaterHaveMore' /\ TrackedLogsKept'
  BY <1>8, SeededElsewhere DEF WriteAppend, Write, historyVars, Seeded
<1>9. ASSUME NEW z \in Finalizations, WriteFinalization(z)
      PROVE  LengthsHold' /\ LaterHaveMore' /\ TrackedLogsKept'
  BY <1>9, SeededElsewhere DEF WriteFinalization, Write, historyVars, Seeded
<1>10. ASSUME NEW t \in Transitions, WriteTransition(t)
       PROVE  LengthsHold' /\ LaterHaveMore' /\ TrackedLogsKept'
  <2>1. \A d \in Events \cup Finals : at'[d] = at[d]
    BY <1>i, <1>d, <1>10 DEF WriteTransition, Write, Calls
  <2> QED
    BY <1>10, <2>1, RecordsUntouched DEF WriteTransition, Write, historyVars
<1>11. ASSUME NEW c \in Calls, CallFails(c)
       PROVE  LengthsHold' /\ LaterHaveMore' /\ TrackedLogsKept'
  <2>1. /\ \A d \in Events \cup Finals : at'[d] = "write" => at[d] = "write"
        /\ \A d \in Finals : at[d] # "idle" => at'[d] # "idle"
        /\ \A d \in Finals : at'[d] = "done" => at[d] = "done"
    BY <1>i, <1>11 DEF CallFails, Calls
  <2> QED
    BY <1>11, <2>1, RecordsUntouched DEF CallFails, historyVars
<1>12. ASSUME NEW c \in Casters, Cast(c)
       PROVE  LengthsHold' /\ LaterHaveMore' /\ TrackedLogsKept'
  BY <1>12, RecordsUntouched DEF Cast, ListActive, EmitCatalogStatus, CastFails, historyVars
<1>13. ASSUME NEW v \in Viewers, ListRunningStatuses(v)
       PROVE  LengthsHold' /\ LaterHaveMore' /\ TrackedLogsKept'
  BY <1>13, RecordsUntouched DEF ListRunningStatuses, historyVars
<1>14. ASSUME NEW q \in Asides, WriteAside(q)
       PROVE  LengthsHold' /\ LaterHaveMore' /\ TrackedLogsKept'
  <2>1. \A d \in Events \cup Finals : at'[d] = at[d]
    BY <1>i, <1>d, <1>14 DEF WriteAside, Calls, TrackerAssumption
  <2> QED
    BY <1>14, <2>1, RecordsUntouched DEF WriteAside, historyVars
<1>15. CASE UNCHANGED vars
  BY <1>15, RecordsUntouched DEF vars, historyVars
<1> QED
  BY <1>1, <1>2, <1>3, <1>4, <1>5, <1>6, <1>7, <1>8, <1>9, <1>10, <1>11, <1>12, <1>13, <1>14,
     <1>15 DEF Next

LEMMA SeenStep == TrackerInv /\ TrackerAssumption /\ [Next]_vars => SeenExpected'
<1> SUFFICES ASSUME TrackerInv, TrackerAssumption, [Next]_vars, NEW t \in Transitions,
                    at'[t] = "write", Expected[t] # {}
             PROVE  looked'[t] \in Expected[t]
  BY DEF SeenExpected
<1>i. /\ SeenExpected /\ t \in Calls
      /\ at \in [Calls -> {"idle", "seed", "lookup", "write", "done", "failed"}]
      /\ looked \in [Transitions -> Statuses \cup {"none"}]
  BY DEF TrackerInv, TypeOK, Calls
<1>d. t \notin Events \cup Finals \cup Seeded \cup Asides
  BY DEF TrackerAssumption
<1>1. ASSUME NEW u \in Transitions, LookupExpected(u) PROVE looked'[t] \in Expected[t]
  BY <1>i, <1>1 DEF LookupExpected, SeenExpected, Calls
<1>2. ASSUME NEW u \in Transitions, BeginTransition(u) \/ WriteTransition(u)
      PROVE  looked'[t] \in Expected[t]
  BY <1>i, <1>2 DEF BeginTransition, Begin, WriteTransition, Write, historyVars, SeenExpected, Calls
<1>3. ASSUME NEW x \in Executions, CreateTracker(x) PROVE looked'[t] \in Expected[t]
  BY <1>i, <1>3 DEF CreateTracker, historyVars, SeenExpected
<1>4. ASSUME NEW e \in Events, RecordEvent(e) \/ WriteEvent(e) PROVE looked'[t] \in Expected[t]
  BY <1>i, <1>d, <1>4 DEF RecordEvent, Begin, WriteEvent, Write, historyVars, SeenExpected, Calls
<1>5. ASSUME NEW f \in Finals, Finalize(f) \/ WriteFinal(f) PROVE looked'[t] \in Expected[t]
  BY <1>i, <1>d, <1>5 DEF Finalize, Begin, WriteFinal, Write, historyVars, SeenExpected, Calls
<1>6. ASSUME NEW c \in Seeded, BeginSeeded(c) \/ ReadSeed(c) PROVE looked'[t] \in Expected[t]
  BY <1>i, <1>d, <1>6 DEF BeginSeeded, Begin, ReadSeed, historyVars, SeenExpected, Calls
<1>7. ASSUME NEW c \in Seeded, Write(c) PROVE looked'[t] \in Expected[t]
  BY <1>i, <1>d, <1>7 DEF Write, historyVars, SeenExpected, Calls
<1>8. ASSUME NEW c \in Calls, CallFails(c) PROVE looked'[t] \in Expected[t]
  BY <1>i, <1>8 DEF CallFails, historyVars, SeenExpected
<1>9. ASSUME NEW c \in Casters, Cast(c) PROVE looked'[t] \in Expected[t]
  BY <1>i, <1>9 DEF Cast, ListActive, EmitCatalogStatus, CastFails, historyVars, SeenExpected
<1>10. ASSUME NEW v \in Viewers, ListRunningStatuses(v) PROVE looked'[t] \in Expected[t]
  BY <1>i, <1>10 DEF ListRunningStatuses, historyVars, SeenExpected
<1>11. ASSUME NEW q \in Asides, WriteAside(q) PROVE looked'[t] \in Expected[t]
  BY <1>i, <1>d, <1>11 DEF WriteAside, historyVars, SeenExpected, Calls
<1>12. CASE UNCHANGED vars
  BY <1>i, <1>12 DEF vars, historyVars, SeenExpected
<1> QED
  BY <1>1, <1>2, <1>3, <1>4, <1>5, <1>6, <1>7, <1>8, <1>9, <1>10, <1>11, <1>12
     DEF Next, WriteAppend, WriteFinalization, Seeded

-------------------------------------------------------------------------------
(* Theorems. *)

\* The inductive invariant of the tracker's records.
THEOREM TrackerInvariant == Spec => []TrackerInv
<1>1. Init => TrackerInv
  BY TrackerInit, TrackerAssumption
<1>2. TrackerInv /\ [Next]_vars => TrackerInv'
  BY TypeStep, SeenStep, RecordsStep, TrackerAssumption DEF TrackerInv
<1> QED
  BY <1>1, <1>2, PTL DEF Spec

\* Every variable keeps its type, whatever the store rejects.
THEOREM TypeCorrect == Spec => []TypeOK
<1>1. TrackerInv => TypeOK
  BY DEF TrackerInv
<1> QED
  BY <1>1, TrackerInvariant, PTL

\* The logs of a tracked execution are a prefix of what recordEvent was given, in whatever
\* order its writes land, and a finalize that found none pending loses nothing.
THEOREM PrefixIsStored == Spec => []TrackedLogsKept
<1>1. TrackerInv => TrackedLogsKept
  BY DEF TrackerInv
<1> QED
  BY <1>1, TrackerInvariant, PTL

\* No log write takes an outcome back, and a transition only does so if it had seen a status
\* it expects; others that do are finalizations and what the queue writes.
THEOREM OutcomeIsKept == Spec => OutcomeStands
<1> DEFINE Settles(x) ==
      status[x] \in Outcomes /\ status'[x] # status[x] =>
        \E c \in (Writers \ Executions) \cup Asides :
          /\ at[c] # "done" /\ at'[c] = "done" /\ ExecutionOf[c] = x
          /\ c \in Transitions /\ Expected[c] # {} => looked[c] \in Expected[c]
<1>1. TrackerInv /\ [Next]_vars => [\A x \in Executions : Settles(x)]_vars
  <2> SUFFICES ASSUME TrackerInv, [Next]_vars, NEW x \in Executions,
                      status[x] \in Outcomes, status'[x] # status[x]
               PROVE  \E c \in (Writers \ Executions) \cup Asides :
                        /\ at[c] # "done" /\ at'[c] = "done" /\ ExecutionOf[c] = x
                        /\ c \in Transitions /\ Expected[c] # {} => looked[c] \in Expected[c]
    OBVIOUS
  <2>i. /\ SeenExpected /\ status \in [Executions -> Statuses \cup {"none"}]
        /\ at \in [Calls -> {"idle", "seed", "lookup", "write", "done", "failed"}]
    BY DEF TrackerInv, TypeOK
  <2>1. PICK c \in Finals \cup Finalizations \cup Transitions \cup Asides :
          /\ Write(c) \/ (WriteAside(c) /\ c \in Asides)
          /\ status' = [status EXCEPT ![ExecutionOf[c]] = To[c]]
    <3>1. ASSUME NEW y \in Executions, CreateTracker(y) PROVE FALSE
      BY <2>i, <3>1 DEF CreateTracker, Outcomes
    <3>2. ASSUME NEW e \in Events, RecordEvent(e) \/ WriteEvent(e) PROVE FALSE
      BY <3>2 DEF RecordEvent, Begin, WriteEvent
    <3>3. ASSUME NEW f \in Finals, Finalize(f) PROVE FALSE
      BY <3>3 DEF Finalize, Begin
    <3>4. ASSUME NEW d \in Seeded, BeginSeeded(d) \/ ReadSeed(d) PROVE FALSE
      BY <3>4 DEF BeginSeeded, Begin, ReadSeed
    <3>5. ASSUME NEW a \in Appends, WriteAppend(a) PROVE FALSE
      BY <3>5 DEF WriteAppend
    <3>6. ASSUME NEW t \in Transitions, BeginTransition(t) \/ LookupExpected(t) PROVE FALSE
      BY <3>6 DEF BeginTransition, Begin, LookupExpected
    <3>7. ASSUME NEW d \in Calls, CallFails(d) PROVE FALSE
      BY <3>7 DEF CallFails
    <3>8. ASSUME NEW d \in Casters, Cast(d) PROVE FALSE
      BY <3>8 DEF Cast, ListActive, EmitCatalogStatus, CastFails
    <3>9. ASSUME NEW v \in Viewers, ListRunningStatuses(v) PROVE FALSE
      BY <3>9 DEF ListRunningStatuses
    <3>10. Next
      BY DEF vars
    <3>11. \/ \E f \in Finals : WriteFinal(f)
           \/ \E z \in Finalizations : WriteFinalization(z)
           \/ \E t \in Transitions : WriteTransition(t)
           \/ \E q \in Asides : WriteAside(q)
      BY <3>1, <3>2, <3>3, <3>4, <3>5, <3>6, <3>7, <3>8, <3>9, <3>10 DEF Next
    <3> QED
      BY <3>11 DEF WriteFinal, WriteFinalization, WriteTransition, WriteAside
  <2>2. c \in Calls /\ c \in (Writers \ Executions) \cup Asides
    BY TrackerAssumption DEF Calls, Writers, Seeded, TrackerAssumption
  <2>3. at[c] # "done" /\ at'[c] = "done" /\ (c \in Transitions => at[c] = "write")
    <3>1. CASE Write(c)
      BY <2>i, <2>2, <3>1 DEF Write
    <3>2. CASE WriteAside(c) /\ c \in Asides
      BY <2>i, <2>2, <3>2, TrackerAssumption DEF WriteAside, TrackerAssumption
    <3> QED
      BY <2>1, <3>1, <3>2
  <2>4. ExecutionOf[c] = x
    BY <2>i, <2>1
  <2> QED
    BY <2>i, <2>2, <2>3, <2>4 DEF SeenExpected
<1> QED
  BY <1>1, TrackerInvariant, PTL DEF Spec, OutcomeStands


-------------------------------------------------------------------------------
(* Logs that are appended. *)

\* Of an execution without a tracker and on which no two seeded calls have met: one seeded call
\* is in flight at most, what it has read is what is stored, and the appended logs are stored.
OneSeeded(x) ==
  \A c, d \in Seeded :
    InFlight(c) /\ ExecutionOf[c] = x /\ InFlight(d) /\ ExecutionOf[d] = x => c = d
SeedIsStored(x) == \A c \in Seeded : at[c] = "write" /\ ExecutionOf[c] = x => seed[c] = logs[x]
Appended(x) ==
  \A a \in Appends : ExecutionOf[a] = x /\ at[a] = "done" => \E i \in 1..Len(logs[x]) : logs[x][i] = a
AppendsInv ==
  \A x \in Executions \ overlapped : Untracked(x) => OneSeeded(x) /\ SeedIsStored(x) /\ Appended(x)

\* A step that writes no logs of such an execution, and starts or ends no seeded call.
LEMMA AppendsUntouched ==
  ASSUME AppendsInv, UNCHANGED <<seed, overlapped>>,
         \A x \in Executions : Untracked(x) => logs'[x] = logs[x],
         \A c \in Seeded : /\ InFlight(c)' => InFlight(c)
                           /\ at'[c] = "write" => at[c] = "write"
                           /\ at'[c] = "done" => at[c] = "done"
  PROVE  AppendsInv'
<1> SUFFICES ASSUME NEW x \in Executions \ overlapped, Untracked(x)
             PROVE  OneSeeded(x)' /\ SeedIsStored(x)' /\ Appended(x)'
  BY DEF AppendsInv, Untracked
<1>1. OneSeeded(x) /\ SeedIsStored(x) /\ Appended(x) /\ logs'[x] = logs[x]
  BY DEF AppendsInv
<1>2. OneSeeded(x)'
  <2> SUFFICES ASSUME NEW c \in Seeded, NEW d \in Seeded, InFlight(c)', ExecutionOf[c] = x,
                      InFlight(d)', ExecutionOf[d] = x
               PROVE  c = d
    BY DEF OneSeeded, InFlight
  <2>1. InFlight(c) /\ InFlight(d)
    OBVIOUS
  <2> QED
    BY <1>1, <2>1 DEF OneSeeded, InFlight
<1>3. SeedIsStored(x)'
  BY <1>1 DEF SeedIsStored
<1>4. Appended(x)'
  BY <1>1 DEF Appended, Seeded
<1> QED
  BY <1>2, <1>3, <1>4

LEMMA BeginKeepsAppends ==
  ASSUME TypeOK, TrackerAssumption, AppendsInv, NEW c \in Seeded, BeginSeeded(c)
  PROVE  AppendsInv'
<1> SUFFICES ASSUME NEW x \in Executions \ overlapped', Untracked(x)
             PROVE  OneSeeded(x)' /\ SeedIsStored(x)' /\ Appended(x)'
  BY DEF AppendsInv, Untracked
<1>1. /\ at' = [at EXCEPT ![c] = "seed"] /\ UNCHANGED <<logs, seed>> /\ c \in Calls
      /\ overlapped \subseteq overlapped'
  BY DEF BeginSeeded, Begin, Calls, Seeded
<1>2. OneSeeded(x) /\ SeedIsStored(x) /\ Appended(x)
  BY <1>1 DEF AppendsInv
<1>3. ExecutionOf[c] = x => \A d \in Seeded : ~(InFlight(d) /\ ExecutionOf[d] = x)
  BY DEF BeginSeeded
<1>4. \A d \in Seeded : d # c => at'[d] = at[d]
  BY <1>1 DEF TypeOK, Calls
<1>5. at'[c] = "seed"
  BY <1>1 DEF TypeOK
<1>6. OneSeeded(x)'
  BY <1>2, <1>3, <1>4 DEF OneSeeded, InFlight
<1>7. SeedIsStored(x)' /\ Appended(x)'
  BY <1>1, <1>2, <1>4, <1>5 DEF SeedIsStored, Appended, Seeded
<1> QED
  BY <1>6, <1>7

LEMMA SeedKeepsAppends ==
  ASSUME TypeOK, TrackerAssumption, AppendsInv, NEW c \in Seeded, ReadSeed(c)
  PROVE  AppendsInv'
<1> SUFFICES ASSUME NEW x \in Executions \ overlapped, Untracked(x)
             PROVE  OneSeeded(x)' /\ SeedIsStored(x)' /\ Appended(x)'
  BY DEF AppendsInv, Untracked, ReadSeed, historyVars
<1>1. /\ at' = [at EXCEPT ![c] = "write"] /\ UNCHANGED logs /\ c \in Calls
      /\ seed' = [seed EXCEPT ![c] = logs[ExecutionOf[c]]] /\ InFlight(c)
  BY DEF ReadSeed, Calls, Seeded, InFlight
<1>2. OneSeeded(x) /\ SeedIsStored(x) /\ Appended(x)
  BY DEF AppendsInv
<1>3. \A d \in Seeded : d # c => at'[d] = at[d] /\ seed'[d] = seed[d]
  BY <1>1 DEF TypeOK, Calls
<1>4. at'[c] = "write" /\ seed'[c] = logs[ExecutionOf[c]]
  BY <1>1 DEF TypeOK
<1>5. OneSeeded(x)'
  BY <1>1, <1>2, <1>3 DEF OneSeeded, InFlight
<1>6. SeedIsStored(x)' /\ Appended(x)'
  BY <1>1, <1>2, <1>3, <1>4 DEF SeedIsStored, Appended, Seeded
<1> QED
  BY <1>5, <1>6

\* The seeded call that is in flight writes.
LEMMA WriteKeepsAppends ==
  ASSUME TypeOK, TrackerAssumption, AppendsInv, NEW c \in Seeded, Write(c),
         NEW new \in Seq(Logs), logs' = [logs EXCEPT ![ExecutionOf[c]] = new],
         Untracked(ExecutionOf[c]) =>
            \/ c \in Appends /\ new = Append(seed[c], c)
            \/ c \notin Appends /\ new = seed[c]
  PROVE  AppendsInv'
<1> SUFFICES ASSUME NEW x \in Executions \ overlapped, Untracked(x)
             PROVE  OneSeeded(x)' /\ SeedIsStored(x)' /\ Appended(x)'
  BY DEF AppendsInv, Untracked, Write, historyVars
<1>1. /\ at' = [at EXCEPT ![c] = "done"] /\ UNCHANGED seed /\ at[c] = "write" /\ c \in Calls
      /\ InFlight(c)
  BY DEF Write, Calls, Seeded, InFlight
<1>2. OneSeeded(x) /\ SeedIsStored(x) /\ Appended(x)
  BY DEF AppendsInv
<1>3. (\A d \in Seeded : d # c => at'[d] = at[d]) /\ at'[c] = "done"
  BY <1>1 DEF TypeOK, Calls
<1>4. OneSeeded(x)'
  <2> SUFFICES ASSUME NEW d \in Seeded, NEW e \in Seeded, InFlight(d)', ExecutionOf[d] = x,
                      InFlight(e)', ExecutionOf[e] = x
               PROVE  d = e
    BY DEF OneSeeded, InFlight
  <2>1. InFlight(d) /\ InFlight(e)
    BY <1>3 DEF InFlight
  <2> QED
    BY <1>2, <2>1 DEF OneSeeded, InFlight
<1>5. CASE ExecutionOf[c] # x
  <2>1. logs'[x] = logs[x]
    BY <1>5
  <2> QED
    BY <1>1, <1>2, <1>3, <1>4, <1>5, <2>1 DEF SeedIsStored, Appended, Seeded
<1>6. CASE ExecutionOf[c] = x
  <2>1. seed[c] = logs[x] /\ logs'[x] = new /\ logs[x] \in Seq(Logs)
    BY <1>1, <1>2, <1>6 DEF SeedIsStored, TypeOK
  <2>2. SeedIsStored(x)'
    BY <1>1, <1>2, <1>3, <1>6 DEF OneSeeded, SeedIsStored, InFlight
  <2>3. CASE c \in Appends /\ new = Append(seed[c], c)
    <3>1. /\ Len(new) = Len(logs[x]) + 1 /\ Len(logs[x]) \in Nat /\ new[Len(logs[x]) + 1] = c
          /\ \A i \in 1..Len(logs[x]) : new[i] = logs[x][i]
      BY <2>1, <2>3 DEF Logs
    <3>2. ASSUME NEW a \in Appends, ExecutionOf[a] = x, at'[a] = "done"
          PROVE  \E i \in 1..Len(new) : new[i] = a
      <4>1. CASE a = c
        BY <3>1, <4>1
      <4>2. CASE a # c
        <5>1. PICK i \in 1..Len(logs[x]) : logs[x][i] = a
          BY <1>2, <1>3, <3>2, <4>2 DEF Appended, Seeded
        <5>2. i \in 1..Len(new) /\ new[i] = a
          BY <3>1, <5>1
        <5> QED
          BY <5>2
      <4> QED
        BY <4>1, <4>2
    <3>3. Appended(x)'
      BY <2>1, <3>2 DEF Appended
    <3> QED
      BY <1>4, <2>2, <3>3
  <2>4. CASE c \notin Appends /\ new = seed[c]
    <3>1. \A a \in Appends : at'[a] = at[a]
      BY <1>3, <2>4 DEF Seeded
    <3>2. Appended(x)'
      BY <1>2, <2>1, <2>4, <3>1 DEF Appended
    <3> QED
      BY <1>4, <2>2, <3>2
  <2> QED
    BY <1>6, <2>3, <2>4
<1> QED
  BY <1>5, <1>6

LEMMA AppendsStep == TrackerInv /\ AppendsInv /\ TrackerAssumption /\ [Next]_vars => AppendsInv'
<1> SUFFICES ASSUME TrackerInv, AppendsInv, TrackerAssumption, [Next]_vars PROVE AppendsInv'
  OBVIOUS
<1>i. /\ TypeOK
      /\ at \in [Calls -> {"idle", "seed", "lookup", "write", "done", "failed"}]
      /\ logs \in [Executions -> Seq(Logs)] /\ ExecutionOf \in [Calls -> Executions]
  BY DEF TrackerInv, TypeOK, TrackerAssumption
<1>d. \A c \in Seeded : c \in Calls /\ c \notin Events \cup Finals \cup Transitions \cup Asides
  BY TrackerAssumption DEF TrackerAssumption, Calls, Seeded
<1>u. \A x \in Executions, c \in Events \cup Finals : Untracked(x) => ExecutionOf[c] # x
  BY DEF Untracked
\* A call that is not seeded and writes no logs, or those of a tracked execution.
<1>o. ASSUME NEW c \in Events \cup Finals \cup Transitions \cup Asides, NEW s,
             at' = [at EXCEPT ![c] = s], UNCHANGED <<seed, overlapped>>,
             \A x \in Executions : Untracked(x) => logs'[x] = logs[x]
      PROVE  AppendsInv'
  <2>1. \A d \in Seeded : at'[d] = at[d]
    BY <1>i, <1>d, <1>o DEF Calls
  <2> QED
    BY <1>o, <2>1, AppendsUntouched DEF InFlight
<1>1. ASSUME NEW x \in Executions, CreateTracker(x) PROVE AppendsInv'
  BY <1>i, <1>1, AppendsUntouched DEF CreateTracker, InFlight, historyVars
<1>2. ASSUME NEW e \in Events, RecordEvent(e) PROVE AppendsInv'
  BY <1>2, <1>o DEF RecordEvent, Begin
<1>3. ASSUME NEW e \in Events, WriteEvent(e) PROVE AppendsInv'
  <2>1. \A x \in Executions : Untracked(x) => logs'[x] = logs[x]
    BY <1>i, <1>u, <1>3 DEF WriteEvent
  <2> QED
    BY <1>3, <2>1, <1>o DEF WriteEvent, Write, historyVars
<1>4. ASSUME NEW f \in Finals, Finalize(f) PROVE AppendsInv'
  BY <1>4, <1>o DEF Finalize, Begin
<1>5. ASSUME NEW f \in Finals, WriteFinal(f) PROVE AppendsInv'
  <2>1. \A x \in Executions : Untracked(x) => logs'[x] = logs[x]
    BY <1>i, <1>u, <1>5 DEF WriteFinal
  <2> QED
    BY <1>5, <2>1, <1>o DEF WriteFinal, Write, historyVars
<1>6. ASSUME NEW c \in Seeded, BeginSeeded(c) \/ ReadSeed(c) PROVE AppendsInv'
  BY <1>i, <1>6, BeginKeepsAppends, SeedKeepsAppends
<1>7. ASSUME NEW a \in Appends, WriteAppend(a) PROVE AppendsInv'
  <2>1. a \in Seeded /\ a \in Logs /\ Append(seed[a], a) \in Seq(Logs)
    BY <1>i, AppendProperties DEF TypeOK, Seeded, Logs
  <2>2. Write(a) /\ logs' = [logs EXCEPT ![ExecutionOf[a]] = Append(seed[a], a)]
    BY <1>7 DEF WriteAppend
  <2> QED
    BY <1>i, <2>1, <2>2, WriteKeepsAppends
<1>8. ASSUME NEW z \in Finalizations, WriteFinalization(z) PROVE AppendsInv'
  <2>1. z \in Seeded /\ z \notin Appends /\ ResolveStoredLogs(z) \in Seq(Logs)
    BY <1>i DEF ResolveStoredLogs, TypeOK, TrackerAssumption, Seeded
  <2>2. Write(z) /\ logs' = [logs EXCEPT ![ExecutionOf[z]] = ResolveStoredLogs(z)]
    BY <1>8 DEF WriteFinalization
  <2>3. Untracked(ExecutionOf[z]) => ResolveStoredLogs(z) = seed[z]
    BY DEF Untracked, ResolveStoredLogs
  <2> QED
    BY <1>i, <2>1, <2>2, <2>3, WriteKeepsAppends
<1>9. ASSUME NEW t \in Transitions, BeginTransition(t) \/ LookupExpected(t) \/ WriteTransition(t)
      PROVE  AppendsInv'
  BY <1>9, <1>o DEF BeginTransition, Begin, LookupExpected, WriteTransition, Write, historyVars
<1>10. ASSUME NEW c \in Calls, CallFails(c) PROVE AppendsInv'
  <2>1. \A d \in Seeded : at'[d] = at[d] \/ at'[d] = "failed"
    BY <1>i, <1>d, <1>10 DEF CallFails
  <2> QED
    BY <1>10, <2>1, AppendsUntouched DEF CallFails, InFlight, historyVars
<1>11. ASSUME NEW c \in Casters, Cast(c) PROVE AppendsInv'
  BY <1>11, AppendsUntouched
     DEF Cast, ListActive, EmitCatalogStatus, CastFails, InFlight, historyVars
<1>12. ASSUME NEW v \in Viewers, ListRunningStatuses(v) PROVE AppendsInv'
  BY <1>12, AppendsUntouched DEF ListRunningStatuses, InFlight, historyVars
<1>13. ASSUME NEW q \in Asides, WriteAside(q) PROVE AppendsInv'
  BY <1>13, <1>o DEF WriteAside, historyVars
<1>14. CASE UNCHANGED vars
  BY <1>14, AppendsUntouched DEF vars, InFlight, historyVars
<1> QED
  BY <1>1, <1>2, <1>3, <1>4, <1>5, <1>6, <1>7, <1>8, <1>9, <1>10, <1>11, <1>12, <1>13, <1>14 DEF Next

\* Without a tracker, every appended log is stored as long as no two calls that read the logs
\* before they write them have met, whatever transitions and finalizations do.
THEOREM AppendsAreKept == Spec => []AppendsKept
<1>1. Init => AppendsInv
  BY TrackerAssumption
     DEF Init, AppendsInv, OneSeeded, SeedIsStored, Appended, InFlight, Calls, Seeded
<1>2. TrackerInv /\ AppendsInv /\ [Next]_vars => AppendsInv'
  BY AppendsStep, TrackerAssumption
<1>3. AppendsInv => AppendsKept
  BY DEF AppendsInv, AppendsKept, Appended
<1> QED
  BY <1>1, <1>2, <1>3, TrackerInvariant, PTL DEF Spec

-------------------------------------------------------------------------------
(* What the client shows. *)

AnyActive == \E x \in Executions : status[x] \in Active

\* A status of the workflow that the rows bear out.
BorneOut(s, claim) ==
  /\ \A t \in Active : s = t => claim \/ \E x \in Executions : status[x] = t
  /\ AnyActive => s \in Active

\* Once one has begun alone, and until another begins, one fails or a status is written
\* silently, at most one broadcast or listing is under way, no row is written until it ends,
\* and what it is going to show is borne out.
CastInv ==
  stale \/
    /\ \A c, d \in Casting : c = d
    /\ \A c \in Casting : c \notin Viewers /\ To[c] \in Active => AnyActive
    /\ \A c \in Casters : cast[c] = "latest" => BorneOut(found[c], Claims(c))
    /\ Casting = {} => BorneOut(catalog, claimed)

LEMMA StatusBorneOut ==
  ASSUME TrackerAssumption, NEW c \in Casters,
         c \notin Viewers /\ To[c] \in Active => AnyActive
  PROVE  BorneOut(CatalogStatus(c),
                  c \in Transitions /\ To[c] \in Outcomes /\ Latest[c] = CatalogStatus(c))
<1>1. CASE \E x \in Executions : status[x] = "running"
  <2>1. CatalogStatus(c) = "running"
    BY <1>1 DEF CatalogStatus
  <2> QED
    BY <1>1, <2>1 DEF BorneOut, Active
<1>2. CASE ~(\E x \in Executions : status[x] = "running") /\ \E x \in Executions : status[x] = "queued"
  <2>1. CatalogStatus(c) = "queued"
    BY <1>2 DEF CatalogStatus
  <2> QED
    BY <1>2, <2>1 DEF BorneOut, Active
<1>3. CASE ~AnyActive
  <2>1. CatalogStatus(c) = Announced(c)
    BY <1>3 DEF CatalogStatus, AnyActive, Active
  <2>2. CASE c \in Transitions /\ c \notin Viewers /\ Latest[c] # "none"
    <3>1. To[c] \in Outcomes
      BY <1>3, <2>2 DEF TrackerAssumption, Writers, Statuses
    <3>2. Latest[c] = CatalogStatus(c)
      BY <2>1, <2>2 DEF Announced
    <3> QED
      BY <1>3, <2>2, <3>1, <3>2 DEF BorneOut
  <2>3. CASE ~(c \in Transitions /\ c \notin Viewers /\ Latest[c] # "none")
    <3>1. CatalogStatus(c) \notin Active
      BY <1>3, <2>1, <2>3 DEF Announced, Active
    <3> QED
      BY <1>3, <3>1 DEF BorneOut
  <2> QED
    BY <2>2, <2>3
<1> QED
  BY <1>1, <1>2, <1>3 DEF AnyActive, Active

\* A row was written, or not, and a broadcast or listing starts.
LEMMA StartKeepsCasts ==
  ASSUME TypeOK, NEW c \in Casters, StartCast(c),
         c \notin Viewers /\ To[c] \in Active => AnyActive'
  PROVE  CastInv'
<1>1. CASE stale'
  BY <1>1 DEF CastInv
<1>2. CASE ~stale'
  <2>1. Casting = {} /\ cast' = [cast EXCEPT ![c] = "listing"]
    BY <1>2 DEF StartCast
  <2>2. cast'[c] = "listing" /\ \A d \in Casters : d # c => cast'[d] \notin {"listing", "latest"}
    BY <2>1 DEF Casting, TypeOK
  <2>3. Casting' = {c}
    BY <2>2 DEF Casting
  <2> QED
    BY <2>2, <2>3 DEF CastInv
<1> QED
  BY <1>1, <1>2

LEMMA CastKeepsCasts ==
  ASSUME TypeOK, TrackerAssumption, CastInv, NEW c \in Casters, Cast(c)
  PROVE  CastInv'
<1>0. UNCHANGED status
  BY DEF Cast, ListActive, EmitCatalogStatus, CastFails
<1>1. CASE stale'
  BY <1>1 DEF CastInv
<1>2. ASSUME ListActive(c), ~stale'
      PROVE  CastInv'
  <2>1. /\ cast[c] = "listing" /\ cast' = [cast EXCEPT ![c] = "latest"]
        /\ found' = [found EXCEPT ![c] = CatalogStatus(c)] /\ UNCHANGED <<catalog, claimed, stale>>
    BY <1>2 DEF ListActive
  <2>2. c \in Casting /\ Casting' = Casting
    BY <2>1 DEF Casting, TypeOK
  <2>3. \A d \in Casters : cast'[d] = "latest" => d = c
    BY <1>2, <2>1, <2>2 DEF CastInv, Casting, TypeOK
  <2>4. found'[c] = CatalogStatus(c)
    BY <2>1 DEF TypeOK
  <2>5. BorneOut(CatalogStatus(c),
                 c \in Transitions /\ To[c] \in Outcomes /\ Latest[c] = CatalogStatus(c))
    BY <1>2, <2>1, <2>2, StatusBorneOut DEF CastInv
  <2>6. BorneOut(found[c], Claims(c))'
    BY <1>0, <2>4, <2>5 DEF BorneOut, AnyActive, Claims
  <2> QED
    BY <1>0, <1>2, <2>1, <2>2, <2>3, <2>6 DEF CastInv, AnyActive
<1>3. ASSUME EmitCatalogStatus(c), ~stale'
      PROVE  CastInv'
  <2>1. /\ cast[c] = "latest" /\ cast' = [cast EXCEPT ![c] = "done"] /\ catalog' = found[c]
        /\ claimed' = Claims(c) /\ UNCHANGED stale
    BY <1>3 DEF EmitCatalogStatus
  <2>2. c \in Casting /\ BorneOut(found[c], Claims(c))
    BY <1>3, <2>1 DEF CastInv, Casting
  <2>3. Casting' = {}
    BY <1>3, <2>1, <2>2 DEF CastInv, Casting, TypeOK
  <2>4. BorneOut(catalog, claimed)'
    BY <1>0, <2>1, <2>2 DEF BorneOut, AnyActive
  <2>5. \A d \in Casters : cast'[d] # "latest"
    BY <2>3 DEF Casting
  <2> QED
    BY <2>3, <2>4, <2>5 DEF CastInv
<1> QED
  BY <1>1, <1>2, <1>3 DEF Cast, CastFails

LEMMA CastStep == TrackerInv /\ CastInv /\ TrackerAssumption /\ [Next]_vars => CastInv'
<1> SUFFICES ASSUME TrackerInv, CastInv, TrackerAssumption, [Next]_vars PROVE CastInv'
  OBVIOUS
<1>i. TypeOK /\ status \in [Executions -> Statuses \cup {"none"}]
  BY DEF TrackerInv, TypeOK
<1>c. \A w \in Writers : w \in Casters
  BY DEF Casters
<1>w. ASSUME NEW w \in Writers, NEW x \in Executions, status' = [status EXCEPT ![x] = To[w]],
             StartCast(w)
      PROVE  CastInv'
  <2>1. To[w] \in Active => AnyActive'
    BY <1>i, <1>w DEF AnyActive
  <2> QED
    BY <1>i, <1>c, <1>w, <2>1, StartKeepsCasts
\* Any other step that touches no broadcast.
<1>o. ASSUME UNCHANGED <<status, castVars>>
      PROVE  CastInv'
  BY <1>o DEF CastInv, Casting, BorneOut, AnyActive, Claims, castVars
\* Once a status was written silently nothing is claimed.
<1>n. ASSUME NoCast PROVE CastInv'
  BY <1>n DEF NoCast, CastInv
<1>1. ASSUME NEW x \in Executions, CreateTracker(x) PROVE CastInv'
  BY <1>1, <1>n, <1>w DEF CreateTracker, Writers
<1>2. ASSUME NEW f \in Finals, WriteFinal(f) PROVE CastInv'
  BY <1>2, <1>w, TrackerAssumption DEF WriteFinal, Writers, Calls, TrackerAssumption
<1>3. ASSUME NEW z \in Finalizations, WriteFinalization(z) PROVE CastInv'
  BY <1>3, <1>w, TrackerAssumption DEF WriteFinalization, Writers, Calls, TrackerAssumption
<1>4. ASSUME NEW t \in Transitions, WriteTransition(t) PROVE CastInv'
  BY <1>4, <1>w, TrackerAssumption DEF WriteTransition, Writers, Calls, TrackerAssumption
<1>5. ASSUME NEW v \in Viewers, ListRunningStatuses(v) PROVE CastInv'
  BY <1>i, <1>5, StartKeepsCasts DEF ListRunningStatuses, Casters
<1>6. ASSUME NEW c \in Casters, Cast(c) PROVE CastInv'
  BY <1>i, <1>6, CastKeepsCasts
<1>7. ASSUME NEW e \in Events, RecordEvent(e) \/ WriteEvent(e) PROVE CastInv'
  BY <1>7, <1>o DEF RecordEvent, Begin, WriteEvent
<1>8. ASSUME NEW f \in Finals, Finalize(f) PROVE CastInv'
  BY <1>8, <1>o DEF Finalize, Begin
<1>9. ASSUME NEW c \in Seeded, BeginSeeded(c) \/ ReadSeed(c) PROVE CastInv'
  BY <1>9, <1>o DEF BeginSeeded, Begin, ReadSeed
<1>10. ASSUME NEW a \in Appends, WriteAppend(a) PROVE CastInv'
  BY <1>10, <1>o DEF WriteAppend
<1>11. ASSUME NEW t \in Transitions, BeginTransition(t) \/ LookupExpected(t) PROVE CastInv'
  BY <1>11, <1>o DEF BeginTransition, Begin, LookupExpected
<1>12. ASSUME NEW c \in Calls, CallFails(c) PROVE CastInv'
  BY <1>12, <1>o DEF CallFails
<1>13. ASSUME NEW q \in Asides, WriteAside(q) PROVE CastInv'
  BY <1>13, <1>n DEF WriteAside
<1>14. CASE UNCHANGED vars
  BY <1>14, <1>o DEF vars
<1> QED
  BY <1>1, <1>2, <1>3, <1>4, <1>5, <1>6, <1>7, <1>8, <1>9, <1>10, <1>11, <1>12, <1>13, <1>14 DEF Next

\* Whatever crossed, failed or was written silently before, a broadcast or listing that begins
\* alone and ends before another begins or a status is written silently leaves the client
\* with what the rows say, or with what the caller of a transition claimed.
THEOREM ClientAgrees == Spec => []CatalogAgrees
<1>1. Init => CastInv
  BY DEF Init, CastInv, Casting, BorneOut, AnyActive, Active
<1>2. TrackerInv /\ CastInv /\ [Next]_vars => CastInv'
  BY CastStep, TrackerAssumption
<1>3. CastInv => CatalogAgrees
  BY DEF CastInv, CatalogAgrees, BorneOut, AnyActive
<1> QED
  BY <1>1, <1>2, <1>3, TrackerInvariant, PTL DEF Spec
=================================================================================
