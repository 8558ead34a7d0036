------------------------ MODULE WorkflowAssignmentsProofs ------------------------
(***************************************************************************)
(* Proofs about WorkflowAssignments, for every set of calls, batches,      *)
(* selections and slots, and any failing round trips.                      *)
(***************************************************************************)
EXTENDS WorkflowAssignments, FiniteSetTheorems, TLAPS

\* A call that goes on has something to do, and every row has a workflow.
Busy ==
  \A c \in Calls : at[c] \in {"looking", "updating", "inserting", "deleting"} => todo[c] # <<>>
RowsAssigned == \A i \in stored : workflowOf[i] \in Workflows
RowInv == TypeOK /\ IsFiniteSet(stored) /\ Busy /\ RowsAssigned

\* The call that is about to insert into a slot is alone with it, and the slot is still empty.
SlotFree ==
  \A c \in Calls : at[c] = "inserting" /\ todo[c][1].slot \notin contested
                   => InSlot(todo[c][1].slot) = {}
Alone ==
  \A c, d \in Calls : /\ at[c] = "inserting" /\ at[d] = "inserting" /\ c # d
                      /\ todo[c][1].slot = todo[d][1].slot
                      => todo[c][1].slot \in contested
SlotInv == OneRowPerSlot /\ SlotFree /\ Alone

-------------------------------------------------------------------------------
(* Types. *)

\* Rows in any order: the list is finite and its members are stored.
LEMMA OrderType ==
  ASSUME RowInv, NEW S \in SUBSET stored, NEW o \in Orders(S)
  PROVE  /\ Cardinality(S) \in Nat
         /\ \A n \in 1..Cardinality(S) : o[n] \in stored /\ o[n] \in Ids
<1>1. Cardinality(S) \in Nat
  BY FS_Subset, FS_CardinalityType DEF RowInv
<1>2. \A n \in 1..Cardinality(S) : o[n] \in stored /\ o[n] \in Ids
  BY DEF Orders, RowInv, TypeOK
<1> QED
  BY <1>1, <1>2

\* The first assignment of a call that goes on.
LEMMA FirstType ==
  ASSUME RowInv, NEW c \in Calls, at[c] \in {"looking", "updating", "inserting", "deleting"}
  PROVE  todo[c][1] \in Assignment /\ Tail(todo[c]) \in Seq(Assignment)
<1>1. todo[c] \in Seq(Assignment) /\ todo[c] # <<>>
  BY DEF RowInv, TypeOK, Busy
<1> QED
  BY <1>1

\* Going on with the rest of a batch.
LEMMA ContinueType ==
  ASSUME RowInv, NEW c \in Calls, NEW rest \in Seq(Assignment), Continue(c, rest)
  PROVE  /\ todo' \in [Calls -> Seq(Assignment)]
         /\ at' \in [Calls -> {"idle", "looking", "updating", "inserting", "deleting", "done",
                               "rejected"}]
         /\ at'[c] \in {"looking", "done", "rejected"}
         /\ \A d \in Calls \ {c} : at'[d] = at[d] /\ todo'[d] = todo[d]
         /\ Busy'
  BY DEF RowInv, TypeOK, Continue, Busy

\* The same of a deletion.
LEMMA DeleteRestType ==
  ASSUME RowInv, NEW c \in Calls, NEW rest \in Seq(Assignment), DeleteRest(c, rest)
  PROVE  /\ todo' \in [Calls -> Seq(Assignment)]
         /\ at' \in [Calls -> {"idle", "looking", "updating", "inserting", "deleting", "done",
                               "rejected"}]
         /\ at'[c] \in {"deleting", "done"}
         /\ \A d \in Calls \ {c} : at'[d] = at[d] /\ todo'[d] = todo[d]
         /\ Busy'
  BY DEF RowInv, TypeOK, DeleteRest, Busy

LEMMA InitRowInv == Init => RowInv
<1> SUFFICES ASSUME Init
             PROVE  RowInv
  OBVIOUS
<1>1. TypeOK
  BY DEF Init, TypeOK, Slots
<1> QED
  BY <1>1, FS_EmptySet DEF Init, RowInv, Busy, RowsAssigned

LEMMA StartCreateKeepsRows ==
  ASSUME RowInv, NEW c \in Creates, StartCreate(c)
  PROVE  RowInv'
<1>1. c \in Calls /\ Items[c] \in Seq(Assignment)
  BY AssignmentsAssumption DEF Calls
<1> QED
  BY <1>1, ContinueType DEF StartCreate, RowInv, TypeOK, RowsAssigned, rowVars

LEMMA StartUpdateKeepsRows ==
  ASSUME RowInv, NEW u \in Updates, StartUpdate(u)
  PROVE  RowInv'
<1>1. u \in Calls /\ SelectedRows(u) \in SUBSET stored
  BY DEF Calls, SelectedRows
<1>2. PICK o \in Orders(SelectedRows(u)) :
        Continue(u, [n \in 1..Cardinality(SelectedRows(u)) |->
                       [id |-> o[n], slot |-> PatchedSlot(slotOf[o[n]], Set[u].slot),
                        workflow |-> PatchedWorkflow(u, o[n])]])
  BY DEF StartUpdate
<1>3. /\ Cardinality(SelectedRows(u)) \in Nat
      /\ \A n \in 1..Cardinality(SelectedRows(u)) : o[n] \in stored /\ o[n] \in Ids
  BY <1>1, OrderType
<1>4. \A i \in stored : i \in Ids => PatchedSlot(slotOf[i], Set[u].slot) \in Slots
  BY AssignmentsAssumption DEF RowInv, TypeOK, PatchedSlot, Slots
<1>5. \A i \in stored : PatchedWorkflow(u, i) \in Workflows
  BY AssignmentsAssumption DEF RowInv, RowsAssigned, PatchedWorkflow
<1>6. \A n \in 1..Cardinality(SelectedRows(u)) :
        [id |-> o[n], slot |-> PatchedSlot(slotOf[o[n]], Set[u].slot),
         workflow |-> PatchedWorkflow(u, o[n])] \in Assignment
  BY <1>3, <1>4, <1>5 DEF Assignment
<1>7. [n \in 1..Cardinality(SelectedRows(u)) |->
         [id |-> o[n], slot |-> PatchedSlot(slotOf[o[n]], Set[u].slot),
          workflow |-> PatchedWorkflow(u, o[n])]] \in Seq(Assignment)
  BY <1>3, <1>6
<1> QED
  BY <1>1, <1>2, <1>7, ContinueType DEF StartUpdate, RowInv, TypeOK, RowsAssigned, rowVars

LEMMA FindSlotKeepsRows ==
  ASSUME RowInv, NEW c \in Calls, FindSlot(c)
  PROVE  RowInv'
<1>1. at[c] = "looking" /\ todo[c] # <<>> /\ todo[c][1].slot \in Slots
  BY FirstType DEF FindSlot, RowInv, Busy, Assignment
<1> QED
  BY <1>1 DEF FindSlot, WillInsert, InSlot, RowInv, TypeOK, Busy, RowsAssigned, rowVars

LEMMA UpdateFoundKeepsRows ==
  ASSUME RowInv, NEW c \in Calls, UpdateFound(c)
  PROVE  RowInv'
<1>1. todo[c][1] \in Assignment /\ Tail(todo[c]) \in Seq(Assignment)
  BY FirstType DEF UpdateFound
<1>2. overtaken' \subseteq Updates /\ found' \in [Calls -> Ids \cup {None}]
  BY DEF UpdateFound, Behind, RowInv, TypeOK
<1>3. /\ last' \in [Slots -> Workflows \cup {None}]
      /\ workflowOf' \in [Ids -> Workflows \cup {None}]
      /\ \A i \in stored : workflowOf'[i] \in Workflows
  BY <1>1 DEF UpdateFound, RowInv, TypeOK, RowsAssigned, Assignment
<1> QED
  BY <1>1, <1>2, <1>3, ContinueType DEF UpdateFound, RowInv, TypeOK, RowsAssigned

LEMMA StoreKeepsRows ==
  ASSUME RowInv, NEW c \in Calls, at[c] = "inserting", Store(c)
  PROVE  /\ stored' \subseteq Ids /\ IsFiniteSet(stored')
         /\ slotOf' \in [Ids -> Slots] /\ workflowOf' \in [Ids -> Workflows \cup {None}]
         /\ last' \in [Slots -> Workflows \cup {None}] /\ overtaken' \subseteq Updates
         /\ RowsAssigned'
<1>1. todo[c][1] \in Assignment
  BY FirstType
<1>2. IsFiniteSet(stored')
  BY FS_AddElement DEF Store, RowInv
<1> QED
  BY <1>1, <1>2 DEF Store, Behind, RowInv, TypeOK, RowsAssigned, Assignment

LEMMA InsertKeepsRows ==
  ASSUME RowInv, NEW c \in Calls, Insert(c)
  PROVE  RowInv'
<1>1. at[c] = "inserting" /\ Tail(todo[c]) \in Seq(Assignment)
  BY FirstType DEF Insert
<1> QED
  BY <1>1, StoreKeepsRows, ContinueType DEF Insert, RowInv, TypeOK

LEMMA InsertRefusedKeepsRows ==
  ASSUME RowInv, NEW c \in Calls, InsertRefused(c)
  PROVE  RowInv'
  BY DEF InsertRefused, RowInv, TypeOK, Busy, RowsAssigned, rowVars

LEMMA AttachKeepsRows ==
  ASSUME RowInv, NEW c \in Attaches, Attach(c)
  PROVE  RowInv'
<1>1. c \in Calls /\ Target[c] \in Assignment /\ <<Target[c]>> \in Seq(Assignment)
  BY AssignmentsAssumption DEF Calls
<1>2. Target[c].slot \in Slots /\ Target[c].workflow \in Workflows
  BY <1>1 DEF Assignment
<1>3. CASE InSlot(Target[c].slot) # {}
  <2>1. /\ workflowOf' \in [Ids -> Workflows \cup {None}]
        /\ last' \in [Slots -> Workflows \cup {None}]
        /\ overtaken' \subseteq Updates
        /\ RowsAssigned'
    BY <1>2, <1>3 DEF Attach, Behind, RowInv, TypeOK, RowsAssigned
  <2> QED
    BY <1>1, <1>3, <2>1 DEF Attach, RowInv, TypeOK, Busy
<1>4. CASE InSlot(Target[c].slot) = {}
  <2>1. /\ UNCHANGED <<stored, slotOf, workflowOf, found, last, torn, overtaken>>
        /\ todo' = [todo EXCEPT ![c] = <<Target[c]>>]
        /\ WillInsert(c, Target[c].slot)
    BY <1>4 DEF Attach
  <2>2. todo' \in [Calls -> Seq(Assignment)] /\ contested' \subseteq Slots
    BY <1>1, <1>2, <2>1 DEF WillInsert, RowInv, TypeOK
  <2>3. <<Target[c]>> # <<>>
    OBVIOUS
  <2>4. Busy'
    BY <1>1, <2>1, <2>3 DEF WillInsert, RowInv, TypeOK, Busy
  <2> QED
    BY <1>1, <2>1, <2>2, <2>4 DEF WillInsert, RowInv, TypeOK, RowsAssigned
<1> QED
  BY <1>3, <1>4

LEMMA InsertAttachedKeepsRows ==
  ASSUME RowInv, NEW c \in Attaches, InsertAttached(c)
  PROVE  RowInv'
<1>1. c \in Calls /\ at[c] = "inserting"
  BY DEF Calls, InsertAttached
<1> QED
  BY <1>1, StoreKeepsRows DEF InsertAttached, RowInv, TypeOK, Busy

LEMMA StartDeleteKeepsRows ==
  ASSUME RowInv, NEW d \in Deletes, StartDelete(d)
  PROVE  RowInv'
<1>1. d \in Calls /\ SelectedRows(d) \in SUBSET stored
  BY DEF Calls, SelectedRows
<1>2. PICK o \in Orders(SelectedRows(d)) :
        DeleteRest(d, [n \in 1..Cardinality(SelectedRows(d)) |->
                         [id |-> o[n], slot |-> slotOf[o[n]], workflow |-> workflowOf[o[n]]]])
  BY DEF StartDelete
<1>3. /\ Cardinality(SelectedRows(d)) \in Nat
      /\ \A n \in 1..Cardinality(SelectedRows(d)) : o[n] \in stored /\ o[n] \in Ids
  BY <1>1, OrderType
<1>4. \A n \in 1..Cardinality(SelectedRows(d)) :
        [id |-> o[n], slot |-> slotOf[o[n]], workflow |-> workflowOf[o[n]]] \in Assignment
  BY <1>3 DEF Assignment, RowInv, TypeOK, RowsAssigned
<1>5. [n \in 1..Cardinality(SelectedRows(d)) |->
         [id |-> o[n], slot |-> slotOf[o[n]], workflow |-> workflowOf[o[n]]]] \in Seq(Assignment)
  BY <1>3, <1>4
<1> QED
  BY <1>1, <1>2, <1>5, DeleteRestType DEF StartDelete, RowInv, TypeOK, RowsAssigned, rowVars

LEMMA DeleteNextKeepsRows ==
  ASSUME RowInv, NEW d \in Deletes, DeleteNext(d)
  PROVE  RowInv'
<1>1. d \in Calls /\ todo[d][1] \in Assignment /\ Tail(todo[d]) \in Seq(Assignment)
  BY FirstType DEF Calls, DeleteNext
<1>2. slotOf[todo[d][1].id] \in Slots
  BY <1>1 DEF Assignment, RowInv, TypeOK
<1>3. IsFiniteSet(stored') /\ stored' \subseteq Ids
  BY FS_RemoveElement DEF DeleteNext, RowInv, TypeOK
<1>4. torn' \subseteq Slots /\ last' \in [Slots -> Workflows \cup {None}]
  BY <1>2 DEF DeleteNext, RowInv, TypeOK
<1>5. /\ todo' \in [Calls -> Seq(Assignment)]
      /\ at' \in [Calls -> {"idle", "looking", "updating", "inserting", "deleting", "done",
                            "rejected"}]
      /\ Busy'
  BY <1>1, DeleteRestType DEF DeleteNext
<1> QED
  BY <1>3, <1>4, <1>5 DEF DeleteNext, RowInv, TypeOK, RowsAssigned

LEMMA CallFailsKeepsRows ==
  ASSUME RowInv, NEW c \in Calls, CallFails(c)
  PROVE  RowInv'
  BY DEF CallFails, RowInv, TypeOK, Busy, RowsAssigned, rowVars

THEOREM RowInvariant == Spec => []RowInv
<1>1. RowInv /\ [Next]_vars => RowInv'
  <2> SUFFICES ASSUME RowInv, [Next]_vars
               PROVE  RowInv'
    OBVIOUS
  <2>1. CASE UNCHANGED vars
    BY <2>1 DEF vars, rowVars, RowInv, TypeOK, Busy, RowsAssigned
  <2>2. CASE Next
    BY <2>2, StartCreateKeepsRows, StartUpdateKeepsRows, FindSlotKeepsRows,
       UpdateFoundKeepsRows, InsertKeepsRows, InsertRefusedKeepsRows, AttachKeepsRows,
       InsertAttachedKeepsRows, StartDeleteKeepsRows, DeleteNextKeepsRows, CallFailsKeepsRows
       DEF Next
  <2> QED
    BY <2>1, <2>2
<1> QED
  BY <1>1, InitRowInv, PTL DEF Spec

\* Batches, rows and the history have their types, for every instance.
THEOREM TypeCorrect == Spec => []TypeOK
<1>1. RowInv => TypeOK
  BY DEF RowInv
<1> QED
  BY <1>1, RowInvariant, PTL

-------------------------------------------------------------------------------
(* One row per slot. *)

\* A step that inserts nothing and after which its call is not about to insert.
LEMMA QuietStep ==
  ASSUME TypeOK, SlotInv, NEW c \in Calls, stored' \subseteq stored, UNCHANGED <<slotOf, contested>>,
         at'[c] # "inserting", \A d \in Calls \ {c} : at'[d] = at[d] /\ todo'[d] = todo[d]
  PROVE  SlotInv'
<1>1. OneRowPerSlot'
  BY DEF SlotInv, OneRowPerSlot
<1>2. SlotFree'
  BY DEF SlotInv, SlotFree, InSlot
<1>3. Alone'
  BY DEF SlotInv, Alone
<1> QED
  BY <1>1, <1>2, <1>3 DEF SlotInv

\* A call has seen an empty slot.
LEMMA EmptySeen ==
  ASSUME RowInv, SlotInv, NEW c \in Calls, NEW s, WillInsert(c, s), InSlot(s) = {},
         UNCHANGED <<stored, slotOf>>, at[c] # "inserting", todo'[c][1].slot = s,
         \A d \in Calls \ {c} : todo'[d] = todo[d]
  PROVE  SlotInv'
<1>1. at'[c] = "inserting" /\ \A d \in Calls \ {c} : at'[d] = at[d]
  BY DEF WillInsert, RowInv, TypeOK
<1>2. contested \subseteq contested'
  BY DEF WillInsert
<1>3. OneRowPerSlot'
  BY <1>2 DEF SlotInv, OneRowPerSlot
<1>4. SlotFree'
  BY <1>1, <1>2 DEF SlotInv, SlotFree, InSlot
<1>5. \A d \in Calls \ {c} : at[d] = "inserting" /\ todo[d][1].slot = s => s \in contested'
  BY DEF WillInsert, Inserting
<1>6. Alone'
  BY <1>1, <1>2, <1>5 DEF SlotInv, Alone
<1> QED
  BY <1>3, <1>4, <1>6 DEF SlotInv

\* A call inserts into the slot it has seen empty.
LEMMA Inserted ==
  ASSUME RowInv, SlotInv, NEW c \in Calls, at[c] = "inserting", Acceptable(todo[c][1]), Store(c),
         UNCHANGED contested, at'[c] # "inserting",
         \A d \in Calls \ {c} : at'[d] = at[d] /\ todo'[d] = todo[d]
  PROVE  SlotInv'
<1> DEFINE a == todo[c][1]
<1>1. a.id \in Ids /\ a.id \notin stored
  BY FirstType DEF Acceptable, Assignment
<1>2. /\ stored' = stored \cup {a.id}
      /\ slotOf'[a.id] = a.slot
      /\ \A i \in stored : slotOf'[i] = slotOf[i]
  BY <1>1 DEF Store, RowInv, TypeOK
<1>3. a.slot \notin contested => \A i \in stored : slotOf[i] # a.slot
  BY DEF SlotInv, SlotFree, InSlot
<1>4. OneRowPerSlot'
  BY <1>2, <1>3 DEF SlotInv, OneRowPerSlot
<1>5. SlotFree'
  <2> SUFFICES ASSUME NEW d \in Calls, at'[d] = "inserting", todo'[d][1].slot \notin contested'
               PROVE  \A i \in stored' : slotOf'[i] # todo'[d][1].slot
    BY DEF SlotFree, InSlot
  <2>1. d # c /\ at[d] = "inserting" /\ todo'[d] = todo[d]
    OBVIOUS
  <2>2. todo[d][1].slot # a.slot
    BY <2>1 DEF SlotInv, Alone
  <2>3. \A i \in stored : slotOf[i] # todo[d][1].slot
    BY <2>1 DEF SlotInv, SlotFree, InSlot
  <2> QED
    BY <1>2, <2>1, <2>2, <2>3
<1>6. Alone'
  BY DEF SlotInv, Alone
<1> QED
  BY <1>4, <1>5, <1>6 DEF SlotInv

\* What the calls do to themselves.
LEMMA ContinueQuiet ==
  ASSUME TypeOK, NEW c \in Calls, NEW rest, Continue(c, rest)
  PROVE  at'[c] # "inserting" /\ \A d \in Calls \ {c} : at'[d] = at[d] /\ todo'[d] = todo[d]
  BY DEF TypeOK, Continue

LEMMA DeleteQuiet ==
  ASSUME TypeOK, NEW c \in Calls, NEW rest, DeleteRest(c, rest)
  PROVE  at'[c] # "inserting" /\ \A d \in Calls \ {c} : at'[d] = at[d] /\ todo'[d] = todo[d]
  BY DEF TypeOK, DeleteRest

LEMMA StepKeepsSlots ==
  ASSUME RowInv, SlotInv, [Next]_vars
  PROVE  SlotInv'
<1> USE DEF RowInv
<1>1. ASSUME NEW c \in Creates, StartCreate(c)
      PROVE  SlotInv'
  BY <1>1, ContinueQuiet, QuietStep DEF StartCreate, Calls, rowVars
<1>2. ASSUME NEW u \in Updates, StartUpdate(u)
      PROVE  SlotInv'
  <2>1. u \in Calls
    BY DEF Calls
  <2>2. PICK rest : Continue(u, rest)
    BY <1>2 DEF StartUpdate
  <2> QED
    BY <1>2, <2>1, <2>2, ContinueQuiet, QuietStep DEF StartUpdate, rowVars
<1>3. ASSUME NEW c \in Attaches, Attach(c)
      PROVE  SlotInv'
  <2>1. c \in Calls
    BY DEF Calls
  <2>2. CASE InSlot(Target[c].slot) # {}
    BY <1>3, <2>1, <2>2, QuietStep DEF Attach, TypeOK
  <2>3. CASE InSlot(Target[c].slot) = {}
    <3>1. /\ WillInsert(c, Target[c].slot) /\ UNCHANGED <<stored, slotOf>> /\ at[c] # "inserting"
          /\ todo'[c][1].slot = Target[c].slot
          /\ \A d \in Calls \ {c} : todo'[d] = todo[d]
      BY <1>3, <2>1, <2>3 DEF Attach, TypeOK
    <3> QED
      BY <2>1, <2>3, <3>1, EmptySeen
  <2> QED
    BY <2>2, <2>3
<1>4. ASSUME NEW c \in Attaches, InsertAttached(c)
      PROVE  SlotInv'
  BY <1>4, Inserted DEF InsertAttached, Calls, TypeOK
<1>5. ASSUME NEW d \in Deletes, StartDelete(d)
      PROVE  SlotInv'
  <2>1. d \in Calls
    BY DEF Calls
  <2>2. PICK rest : DeleteRest(d, rest)
    BY <1>5 DEF StartDelete
  <2> QED
    BY <1>5, <2>1, <2>2, DeleteQuiet, QuietStep DEF StartDelete, rowVars
<1>6. ASSUME NEW d \in Deletes, DeleteNext(d)
      PROVE  SlotInv'
  BY <1>6, DeleteQuiet, QuietStep DEF DeleteNext, Calls
<1>7. ASSUME NEW c \in Calls, FindSlot(c)
      PROVE  SlotInv'
  <2>1. CASE InSlot(todo[c][1].slot) # {}
    BY <1>7, <2>1, QuietStep DEF FindSlot, TypeOK, rowVars
  <2>2. CASE InSlot(todo[c][1].slot) = {}
    BY <1>7, <2>2, EmptySeen DEF FindSlot, rowVars
  <2> QED
    BY <2>1, <2>2
<1>8. ASSUME NEW c \in Calls, UpdateFound(c)
      PROVE  SlotInv'
  BY <1>8, ContinueQuiet, QuietStep DEF UpdateFound
<1>9. ASSUME NEW c \in Calls, Insert(c)
      PROVE  SlotInv'
  BY <1>9, ContinueQuiet, Inserted DEF Insert
<1>10. ASSUME NEW c \in Calls, InsertRefused(c) \/ CallFails(c)
       PROVE  SlotInv'
  BY <1>10, QuietStep DEF InsertRefused, CallFails, TypeOK, rowVars
<1>11. CASE UNCHANGED vars
  BY <1>11 DEF vars, rowVars, SlotInv, OneRowPerSlot, SlotFree, Alone, InSlot
<1> QED
  BY <1>1, <1>2, <1>3, <1>4, <1>5, <1>6, <1>7, <1>8, <1>9, <1>10, <1>11 DEF Next

\* Whatever batches, updates, deletions and attachments do to a slot, it has one row as long as
\* no two of them were about to insert into it at a time.
THEOREM SlotsStaySingle == Spec => []OneRowPerSlot
<1>1. Init => SlotInv
  BY DEF Init, SlotInv, OneRowPerSlot, SlotFree, Alone
<1>2. RowInv /\ SlotInv /\ [Next]_vars => SlotInv'
  BY StepKeepsSlots
<1>3. SlotInv => OneRowPerSlot
  BY DEF SlotInv
<1> QED
  BY <1>1, <1>2, <1>3, RowInvariant, PTL DEF Spec

-------------------------------------------------------------------------------
(* What was assigned. *)

\* A call that is about to update has its row in its slot, unless a row was deleted from there.
FoundInPlace ==
  \A c \in Calls : at[c] = "updating" =>
    \/ todo[c][1].slot \in torn
    \/ found[c] \in stored /\ slotOf[found[c]] = todo[c][1].slot
EffectInv == AssignmentTakesEffect /\ FoundInPlace

\* A step that writes no row, and after which its call is not about to update.
LEMMA NothingWritten ==
  ASSUME EffectInv, NEW c \in Calls, UNCHANGED <<rowVars, last, torn>>, at'[c] # "updating",
         \A d \in Calls \ {c} : at'[d] = at[d] /\ todo'[d] = todo[d] /\ found'[d] = found[d]
  PROVE  EffectInv'
<1>1. AssignmentTakesEffect'
  BY DEF EffectInv, AssignmentTakesEffect, rowVars
<1>2. FoundInPlace'
  BY DEF EffectInv, FoundInPlace, rowVars
<1> QED
  BY <1>1, <1>2 DEF EffectInv

\* A row that is inserted is the effect of its assignment.
LEMMA InsertedTakesEffect ==
  ASSUME RowInv, EffectInv, NEW c \in Calls, at[c] = "inserting", Acceptable(todo[c][1]), Store(c),
         UNCHANGED <<found, torn>>, at'[c] # "updating",
         \A d \in Calls \ {c} : at'[d] = at[d] /\ todo'[d] = todo[d]
  PROVE  EffectInv'
<1> DEFINE a == todo[c][1]
<1>1. a.id \in Ids /\ a.id \notin stored /\ a.slot \in Slots
  BY FirstType DEF Acceptable, Assignment
<1>2. /\ stored' = stored \cup {a.id}
      /\ slotOf'[a.id] = a.slot /\ workflowOf'[a.id] = a.workflow
      /\ \A i \in stored : slotOf'[i] = slotOf[i] /\ workflowOf'[i] = workflowOf[i]
      /\ last' = [last EXCEPT ![a.slot] = a.workflow]
  BY <1>1 DEF Store, RowInv, TypeOK
<1>3. AssignmentTakesEffect'
  BY <1>1, <1>2 DEF EffectInv, AssignmentTakesEffect, RowInv, TypeOK
<1>4. FoundInPlace'
  BY <1>2 DEF EffectInv, FoundInPlace
<1> QED
  BY <1>3, <1>4 DEF EffectInv

LEMMA UpdateTakesEffect ==
  ASSUME RowInv, EffectInv, NEW c \in Calls, UpdateFound(c)
  PROVE  EffectInv'
<1> DEFINE i == found[c]
           s == todo[c][1].slot
           w == todo[c][1].workflow
<1>1. /\ at'[c] # "updating"
      /\ \A d \in Calls \ {c} : at'[d] = at[d] /\ todo'[d] = todo[d] /\ found'[d] = found[d]
  BY ContinueQuiet DEF UpdateFound, Continue, RowInv, TypeOK
<1>2. UNCHANGED <<stored, slotOf, torn>>
  BY DEF UpdateFound
<1>3. FoundInPlace'
  BY <1>1, <1>2 DEF EffectInv, FoundInPlace
<1>4. s \in torn \/ (i \in stored /\ slotOf[i] = s)
  BY DEF EffectInv, FoundInPlace, UpdateFound
<1>5. CASE i \in stored
  <2>1. /\ workflowOf' = [workflowOf EXCEPT ![i] = w]
        /\ \A t \in Slots : last'[t] = IF t \in {s, slotOf[i]} THEN w ELSE last[t]
    BY <1>5 DEF UpdateFound
  <2>2. i \in Ids
    BY <1>5 DEF RowInv, TypeOK
  <2>3. AssignmentTakesEffect'
    BY <1>2, <1>4, <1>5, <2>1, <2>2 DEF EffectInv, AssignmentTakesEffect, RowInv, TypeOK
  <2> QED
    BY <1>3, <2>3 DEF EffectInv
<1>6. CASE i \notin stored
  <2>1. /\ workflowOf' = workflowOf
        /\ \A t \in Slots : last'[t] = IF t = s THEN w ELSE last[t]
    BY <1>6 DEF UpdateFound
  <2>2. AssignmentTakesEffect'
    BY <1>2, <1>4, <1>6, <2>1 DEF EffectInv, AssignmentTakesEffect
  <2> QED
    BY <1>3, <2>2 DEF EffectInv
<1> QED
  BY <1>5, <1>6

LEMMA AttachTakesEffect ==
  ASSUME RowInv, EffectInv, NEW c \in Attaches, Attach(c)
  PROVE  EffectInv'
<1> DEFINE s == Target[c].slot
<1>1. c \in Calls /\ s \in Slots
  BY AssignmentsAssumption DEF Calls, Assignment
<1>2. CASE InSlot(s) # {}
  <2>1. /\ UNCHANGED <<stored, slotOf, torn, found, todo>>
        /\ \A i \in Ids : workflowOf'[i] = IF i \in InSlot(s) THEN Target[c].workflow
                                                              ELSE workflowOf[i]
        /\ last' = [last EXCEPT ![s] = Target[c].workflow]
        /\ at' = [at EXCEPT ![c] = "done"]
    BY <1>2 DEF Attach
  <2>2. AssignmentTakesEffect'
    BY <1>1, <1>2, <2>1 DEF EffectInv, AssignmentTakesEffect, InSlot, RowInv, TypeOK
  <2>3. FoundInPlace'
    BY <1>1, <2>1 DEF EffectInv, FoundInPlace, RowInv, TypeOK
  <2> QED
    BY <2>2, <2>3 DEF EffectInv
<1>3. CASE InSlot(s) = {}
  BY <1>1, <1>3, NothingWritten DEF Attach, WillInsert, rowVars, RowInv, TypeOK
<1> QED
  BY <1>2, <1>3

LEMMA DeleteTakesEffect ==
  ASSUME RowInv, EffectInv, NEW d \in Deletes, DeleteNext(d)
  PROVE  EffectInv'
<1> DEFINE i == todo[d][1].id
<1>1. d \in Calls /\ i \in Ids
  BY FirstType DEF Calls, DeleteNext, Assignment
<1>2. at'[d] # "updating" /\ \A c \in Calls \ {d} : at'[c] = at[c] /\ todo'[c] = todo[c]
  BY <1>1 DEF DeleteNext, DeleteRest, RowInv, TypeOK
<1>3. /\ stored' = stored \ {i}
      /\ UNCHANGED <<slotOf, workflowOf, found>>
      /\ last' = IF i \in stored THEN [last EXCEPT ![slotOf[i]] = None] ELSE last
      /\ torn \subseteq torn'
      /\ \A c \in Calls : found[c] = i => slotOf[i] \in torn'
  BY DEF DeleteNext
<1>4. AssignmentTakesEffect'
  BY <1>1, <1>3 DEF EffectInv, AssignmentTakesEffect, RowInv, TypeOK
<1>5. FoundInPlace'
  BY <1>2, <1>3 DEF EffectInv, FoundInPlace
<1> QED
  BY <1>4, <1>5 DEF EffectInv

LEMMA StepKeepsEffect ==
  ASSUME RowInv, EffectInv, [Next]_vars
  PROVE  EffectInv'
<1>1. ASSUME NEW c \in Creates, StartCreate(c)
      PROVE  EffectInv'
  BY <1>1, ContinueQuiet, NothingWritten DEF StartCreate, Calls, Continue, RowInv, TypeOK
<1>2. ASSUME NEW u \in Updates, StartUpdate(u)
      PROVE  EffectInv'
  <2>1. u \in Calls
    BY DEF Calls
  <2>2. PICK rest : Continue(u, rest)
    BY <1>2 DEF StartUpdate
  <2> QED
    BY <1>2, <2>1, <2>2, NothingWritten DEF StartUpdate, Continue, RowInv, TypeOK
<1>3. ASSUME NEW c \in Attaches, InsertAttached(c)
      PROVE  EffectInv'
  BY <1>3, InsertedTakesEffect DEF InsertAttached, Calls, RowInv, TypeOK
<1>4. ASSUME NEW d \in Deletes, StartDelete(d)
      PROVE  EffectInv'
  <2>1. d \in Calls
    BY DEF Calls
  <2>2. PICK rest : DeleteRest(d, rest)
    BY <1>4 DEF StartDelete
  <2> QED
    BY <1>4, <2>1, <2>2, NothingWritten DEF StartDelete, DeleteRest, RowInv, TypeOK
<1>5. ASSUME NEW c \in Calls, FindSlot(c)
      PROVE  EffectInv'
  <2>1. CASE InSlot(todo[c][1].slot) # {}
    <3>1. PICK i \in InSlot(todo[c][1].slot) : found' = [found EXCEPT ![c] = i]
      BY <1>5, <2>1 DEF FindSlot
    <3>2. /\ at' = [at EXCEPT ![c] = "updating"]
          /\ UNCHANGED <<rowVars, todo, last, torn>>
      BY <1>5, <2>1 DEF FindSlot
    <3>3. AssignmentTakesEffect'
      BY <3>2 DEF EffectInv, AssignmentTakesEffect, rowVars
    <3>4. FoundInPlace'
      BY <3>1, <3>2 DEF EffectInv, FoundInPlace, InSlot, rowVars, RowInv, TypeOK
    <3> QED
      BY <3>3, <3>4 DEF EffectInv
  <2>2. CASE InSlot(todo[c][1].slot) = {}
    BY <1>5, <2>2, NothingWritten DEF FindSlot, WillInsert, RowInv, TypeOK
  <2> QED
    BY <2>1, <2>2
<1>6. ASSUME NEW c \in Calls, Insert(c)
      PROVE  EffectInv'
  BY <1>6, InsertedTakesEffect DEF Insert, Continue, RowInv, TypeOK
<1>7. ASSUME NEW c \in Calls, InsertRefused(c) \/ CallFails(c)
      PROVE  EffectInv'
  BY <1>7, NothingWritten DEF InsertRefused, CallFails, RowInv, TypeOK
<1>8. CASE UNCHANGED vars
  BY <1>8 DEF vars, rowVars, EffectInv, AssignmentTakesEffect, FoundInPlace
<1> QED
  BY <1>1, <1>2, <1>3, <1>4, <1>5, <1>6, <1>7, <1>8, UpdateTakesEffect, AttachTakesEffect,
     DeleteTakesEffect DEF Next

\* What a slot was given last is assigned to it, unless a row was deleted from it while a call
\* was about to update that row.
THEOREM AssignmentsTakeEffect == Spec => []AssignmentTakesEffect
<1>1. Init => EffectInv
  BY DEF Init, EffectInv, AssignmentTakesEffect, FoundInPlace
<1>2. RowInv /\ EffectInv /\ [Next]_vars => EffectInv'
  BY StepKeepsEffect
<1>3. EffectInv => AssignmentTakesEffect
  BY DEF EffectInv
<1> QED
  BY <1>1, <1>2, <1>3, RowInvariant, PTL DEF Spec

-------------------------------------------------------------------------------
(* Updates that set no workflow. *)

NoPart == [scope |-> None, user |-> None, organization |-> None]
\* An update that sets nothing of the slot or the workflow, and is not overtaken.
Refreshing(u) == Set[u].workflow = None /\ Set[u].slot = NoPart /\ u \notin overtaken
ToDo(u) == {todo[u][n] : n \in 1..Len(todo[u])}

\* What such an update has read is what its slots hold, as long as they have one row.
AgreesWithRows(u) ==
  /\ \A a \in ToDo(u) : \A i \in InSlot(a.slot) : a.slot \in contested \/ workflowOf[i] = a.workflow
  /\ \A a, b \in ToDo(u) : a.slot = b.slot => a.slot \in contested \/ a.workflow = b.workflow
  /\ at[u] = "updating" /\ found[u] \in stored => slotOf[found[u]] = todo[u][1].slot
ReadInv ==
  \A u \in Updates :
    Refreshing(u) /\ at[u] \in {"looking", "updating", "inserting"} => AgreesWithRows(u)

LEMMA FirstToDo ==
  ASSUME RowInv, NEW c \in Calls, at[c] \in {"looking", "updating", "inserting"}
  PROVE  todo[c][1] \in ToDo(c) /\ todo[c] \in Seq(Assignment) /\ todo[c] # <<>>
<1>1. todo[c] \in Seq(Assignment) /\ todo[c] # <<>>
  BY DEF RowInv, TypeOK, Busy
<1>2. 1 \in 1..Len(todo[c])
  BY <1>1
<1> QED
  BY <1>1, <1>2 DEF ToDo

\* Going on leaves a part of what there was to do.
LEMMA RestToDo ==
  ASSUME RowInv, NEW c \in Calls, at[c] \in {"looking", "updating", "inserting"},
         Continue(c, Tail(todo[c]))
  PROVE  ToDo(c)' \subseteq ToDo(c) /\ at'[c] \in {"looking", "done", "rejected"}
<1>1. todo[c] \in Seq(Assignment) /\ todo[c] # <<>>
  BY FirstToDo
<1>2. todo'[c] = Tail(todo[c]) /\ at'[c] \in {"looking", "done", "rejected"}
  BY DEF Continue, RowInv, TypeOK
<1>3. \A n \in 1..Len(Tail(todo[c])) : n + 1 \in 1..Len(todo[c]) /\ Tail(todo[c])[n] = todo[c][n + 1]
  BY <1>1
<1> QED
  BY <1>2, <1>3 DEF ToDo

\* Another call's step, after which the rows of every slot of the update's are among those it
\* had, with their workflows.
LEMMA OthersAgree ==
  ASSUME NEW u \in Updates, AgreesWithRows(u), todo'[u] = todo[u], found'[u] = found[u],
         at'[u] = at[u], contested \subseteq contested',
         \A a \in ToDo(u) : \A i \in InSlot(a.slot)' :
            i \in InSlot(a.slot) /\ workflowOf'[i] = workflowOf[i],
         at[u] = "updating" /\ found[u] \in stored' =>
            found[u] \in stored /\ slotOf'[found[u]] = slotOf[found[u]]
  PROVE  AgreesWithRows(u)'
<1>1. ToDo(u)' = ToDo(u)
  BY DEF ToDo
<1> QED
  BY <1>1 DEF AgreesWithRows

\* The update is behind a write to one of its slots, or to the row it has found.
LEMMA BehindWrites ==
  ASSUME NEW c \in Calls, NEW u \in Updates \ {c}, NEW s, NEW rows, u \notin Behind(c, s, rows)
  PROVE  found[u] \notin rows /\ \A a \in ToDo(u) : a.slot # s
  BY DEF Behind, ToDo

LEMMA StartAgrees ==
  ASSUME RowInv, OneRowPerSlot, NEW u \in Updates, StartUpdate(u), Refreshing(u)
  PROVE  at'[u] = "looking" => AgreesWithRows(u)'
<1> DEFINE S == SelectedRows(u)
<1>1. u \in Calls /\ S \in SUBSET stored
  BY DEF Calls, SelectedRows
<1>2. PICK o \in Orders(S) :
        Continue(u, [n \in 1..Cardinality(S) |->
                       [id |-> o[n], slot |-> PatchedSlot(slotOf[o[n]], Set[u].slot),
                        workflow |-> PatchedWorkflow(u, o[n])]])
  BY DEF StartUpdate
<1>3. /\ Cardinality(S) \in Nat
      /\ \A n \in 1..Cardinality(S) : o[n] \in stored /\ o[n] \in Ids
  BY <1>1, OrderType
<1>4. \A i \in Ids : PatchedSlot(slotOf[i], Set[u].slot) = slotOf[i]
  BY DEF Refreshing, NoPart, PatchedSlot, RowInv, TypeOK, Slots
<1>5. \A i \in Ids : PatchedWorkflow(u, i) = workflowOf[i]
  BY DEF Refreshing, PatchedWorkflow
<1>6. todo'[u] = [n \in 1..Cardinality(S) |->
                    [id |-> o[n], slot |-> PatchedSlot(slotOf[o[n]], Set[u].slot),
                     workflow |-> PatchedWorkflow(u, o[n])]]
  BY <1>1, <1>2 DEF Continue, RowInv, TypeOK
<1>7. Len(todo'[u]) = Cardinality(S)
  BY <1>3, <1>6
<1>8. \A n \in 1..Cardinality(S) : /\ todo'[u][n].slot = slotOf[o[n]]
                                   /\ todo'[u][n].workflow = workflowOf[o[n]]
  BY <1>3, <1>4, <1>5, <1>6
<1>9. \A a \in ToDo(u)' : \E i \in stored : a.slot = slotOf[i] /\ a.workflow = workflowOf[i]
  BY <1>3, <1>7, <1>8 DEF ToDo
<1>10. UNCHANGED <<stored, slotOf, workflowOf, contested>>
  BY DEF StartUpdate, rowVars
<1> QED
  BY <1>9, <1>10 DEF AgreesWithRows, InSlot, OneRowPerSlot

LEMMA OwnFindAgrees ==
  ASSUME RowInv, NEW u \in Updates, FindSlot(u), AgreesWithRows(u)
  PROVE  AgreesWithRows(u)'
<1>1. u \in Calls
  BY DEF Calls
<1>2. UNCHANGED <<rowVars, todo>> /\ contested \subseteq contested'
  BY DEF FindSlot, WillInsert
<1>3. at'[u] = "updating" => slotOf[found'[u]] = todo[u][1].slot
  BY <1>1 DEF FindSlot, WillInsert, InSlot, RowInv, TypeOK
<1>4. ToDo(u)' = ToDo(u)
  BY <1>2 DEF ToDo
<1> QED
  BY <1>2, <1>3, <1>4 DEF AgreesWithRows, InSlot, rowVars

LEMMA OwnUpdateAgrees ==
  ASSUME RowInv, NEW u \in Updates, UpdateFound(u), AgreesWithRows(u)
  PROVE  /\ AgreesWithRows(u)'
         /\ todo[u][1].slot \notin contested => UNCHANGED workflowOf
<1>1. u \in Calls /\ at[u] = "updating" /\ Continue(u, Tail(todo[u]))
  BY DEF Calls, UpdateFound
<1>2. todo[u][1] \in ToDo(u) /\ ToDo(u)' \subseteq ToDo(u) /\ at'[u] # "updating"
  BY <1>1, FirstToDo, RestToDo
<1>3. UNCHANGED <<stored, slotOf, contested>>
  BY DEF UpdateFound
<1>4. CASE found[u] \in stored
  <2>1. slotOf[found[u]] = todo[u][1].slot /\ found[u] \in InSlot(todo[u][1].slot)
    BY <1>1, <1>4 DEF AgreesWithRows, InSlot
  <2>2. workflowOf' = [workflowOf EXCEPT ![found[u]] = todo[u][1].workflow]
    BY <1>4 DEF UpdateFound
  <2>3. todo[u][1].slot \notin contested => workflowOf' = workflowOf
    BY <1>2, <2>1, <2>2 DEF AgreesWithRows, RowInv, TypeOK
  <2>4. \A i \in stored : slotOf[i] # todo[u][1].slot => workflowOf'[i] = workflowOf[i]
    BY <2>1, <2>2 DEF RowInv, TypeOK
  <2>5. AgreesWithRows(u)'
    BY <1>2, <1>3, <2>3, <2>4 DEF AgreesWithRows, InSlot
  <2> QED
    BY <2>3, <2>5
<1>5. CASE found[u] \notin stored
  BY <1>2, <1>3, <1>5 DEF UpdateFound, AgreesWithRows, InSlot
<1> QED
  BY <1>4, <1>5

LEMMA OwnInsertAgrees ==
  ASSUME RowInv, NEW u \in Updates, Insert(u), AgreesWithRows(u)
  PROVE  AgreesWithRows(u)'
<1> DEFINE a == todo[u][1]
<1>1. u \in Calls /\ at[u] = "inserting" /\ Continue(u, Tail(todo[u]))
  BY DEF Calls, Insert
<1>2. a \in ToDo(u) /\ ToDo(u)' \subseteq ToDo(u) /\ at'[u] # "updating"
  BY <1>1, FirstToDo, RestToDo
<1>3. a.id \in Ids /\ a.id \notin stored
  BY <1>1, FirstType DEF Insert, Acceptable, Assignment
<1>4. /\ stored' = stored \cup {a.id} /\ slotOf'[a.id] = a.slot /\ workflowOf'[a.id] = a.workflow
      /\ \A i \in stored : slotOf'[i] = slotOf[i] /\ workflowOf'[i] = workflowOf[i]
      /\ UNCHANGED contested
  BY <1>3 DEF Insert, Store, RowInv, TypeOK
<1> QED
  BY <1>2, <1>4 DEF AgreesWithRows, InSlot

\* What a step of another call leaves of an update that it does not overtake.
LEMMA OtherWriteAgrees ==
  ASSUME RowInv, NEW c \in Calls, NEW u \in Updates \ {c}, AgreesWithRows(u),
         u \notin overtaken',
         todo'[u] = todo[u], found'[u] = found[u], at'[u] = at[u], contested \subseteq contested',
         (at[c] = "inserting" /\ Acceptable(todo[c][1]) /\ Store(c)) \/ UpdateFound(c)
  PROVE  AgreesWithRows(u)'
<1>1. CASE at[c] = "inserting" /\ Acceptable(todo[c][1]) /\ Store(c)
  <2> DEFINE a == todo[c][1]
  <2>1. a.id \in Ids /\ a.id \notin stored
    BY <1>1, FirstType DEF Acceptable, Assignment
  <2>2. /\ stored' = stored \cup {a.id} /\ slotOf'[a.id] = a.slot
        /\ \A i \in stored : slotOf'[i] = slotOf[i] /\ workflowOf'[i] = workflowOf[i]
        /\ u \notin Behind(c, a.slot, {a.id})
    BY <1>1, <2>1 DEF Store, RowInv, TypeOK
  <2>3. found[u] # a.id /\ \A b \in ToDo(u) : b.slot # a.slot
    BY <2>2, BehindWrites
  <2>4. \A b \in ToDo(u) : \A i \in InSlot(b.slot)' :
          i \in InSlot(b.slot) /\ workflowOf'[i] = workflowOf[i]
    BY <2>2, <2>3 DEF InSlot
  <2>5. found[u] \in stored' => found[u] \in stored /\ slotOf'[found[u]] = slotOf[found[u]]
    BY <2>2, <2>3
  <2> QED
    BY <2>4, <2>5, OthersAgree
<1>2. CASE UpdateFound(c)
  <2> DEFINE i == found[c]
             s == IF i \in stored THEN slotOf[i] ELSE todo[c][1].slot
  <2>1. /\ UNCHANGED <<stored, slotOf>>
        /\ workflowOf' = IF i \in stored THEN [workflowOf EXCEPT ![i] = todo[c][1].workflow]
                                         ELSE workflowOf
        /\ u \notin Behind(c, s, {i})
    BY <1>2 DEF UpdateFound
  <2>2. \A a \in ToDo(u) : a.slot # s
    BY <2>1, BehindWrites
  <2>3. \A a \in ToDo(u) : \A j \in InSlot(a.slot)' :
          j \in InSlot(a.slot) /\ workflowOf'[j] = workflowOf[j]
    BY <2>1, <2>2 DEF InSlot, RowInv, TypeOK
  <2> QED
    BY <2>1, <2>3, OthersAgree
<1> QED
  BY <1>1, <1>2

LEMMA OtherAttachAgrees ==
  ASSUME RowInv, NEW c \in Attaches, NEW u \in Updates, AgreesWithRows(u), u \notin overtaken',
         Attach(c)
  PROVE  AgreesWithRows(u)'
<1>1. c \in Calls /\ u \in Calls /\ u # c
  BY AssignmentsAssumption DEF Calls
<1>2. /\ UNCHANGED <<stored, slotOf, found>> /\ contested \subseteq contested'
      /\ at'[u] = at[u] /\ todo'[u] = todo[u]
  BY <1>1 DEF Attach, WillInsert, RowInv, TypeOK
<1>3. CASE InSlot(Target[c].slot) # {}
  <2>1. /\ \A i \in Ids : workflowOf'[i] = IF i \in InSlot(Target[c].slot) THEN Target[c].workflow
                                                                           ELSE workflowOf[i]
        /\ u \notin Behind(c, Target[c].slot, InSlot(Target[c].slot))
    BY <1>3 DEF Attach
  <2>2. \A a \in ToDo(u) : a.slot # Target[c].slot
    BY <1>1, <2>1, BehindWrites
  <2>3. \A a \in ToDo(u) : \A i \in InSlot(a.slot)' :
          i \in InSlot(a.slot) /\ workflowOf'[i] = workflowOf[i]
    BY <1>2, <2>1, <2>2 DEF InSlot, RowInv, TypeOK
  <2> QED
    BY <1>2, <2>3, OthersAgree
<1>4. CASE InSlot(Target[c].slot) = {}
  <2>1. UNCHANGED workflowOf
    BY <1>4 DEF Attach
  <2> QED
    BY <1>2, <2>1, OthersAgree DEF InSlot
<1> QED
  BY <1>3, <1>4

LEMMA StepKeepsRead ==
  ASSUME RowInv, OneRowPerSlot, ReadInv, [Next]_vars
  PROVE  ReadInv'
<1> SUFFICES ASSUME NEW u \in Updates, Refreshing(u)', at'[u] \in {"looking", "updating", "inserting"}
             PROVE  AgreesWithRows(u)'
  BY DEF ReadInv
<1>1. u \in Calls /\ u \notin Creates \cup Deletes \cup Attaches
  BY AssignmentsAssumption DEF Calls
<1>2. overtaken \subseteq overtaken'
  BY DEF Next, vars, rowVars, StartCreate, StartUpdate, FindSlot, UpdateFound, Insert, Store,
         InsertRefused, Attach, InsertAttached, StartDelete, DeleteNext, CallFails
<1>3. Refreshing(u) /\ u \notin overtaken'
  BY <1>2 DEF Refreshing
<1>4. at[u] \in {"looking", "updating", "inserting"} => AgreesWithRows(u)
  BY <1>3 DEF ReadInv
\* A step of another call that writes no row.
<1>5. ASSUME at'[u] = at[u], todo'[u] = todo[u], found'[u] = found[u], UNCHANGED rowVars,
             contested \subseteq contested'
      PROVE  AgreesWithRows(u)'
  BY <1>4, <1>5, OthersAgree DEF rowVars, InSlot
<1>6. ASSUME NEW c \in Creates, StartCreate(c)
      PROVE  AgreesWithRows(u)'
  BY <1>1, <1>5, <1>6 DEF StartCreate, Continue, RowInv, TypeOK
<1>7. ASSUME NEW v \in Updates, StartUpdate(v)
      PROVE  AgreesWithRows(u)'
  <2>1. v \in Calls
    BY DEF Calls
  <2>2. PICK rest : Continue(v, rest)
    BY <1>7 DEF StartUpdate
  <2>3. CASE v = u
    <3>1. at'[u] \in {"looking", "done", "rejected"}
      BY <1>1, <2>2, <2>3 DEF Continue, RowInv, TypeOK
    <3> QED
      BY <1>3, <1>7, <2>3, <3>1, StartAgrees
  <2>4. CASE v # u
    BY <1>1, <1>5, <1>7, <2>1, <2>2, <2>4 DEF StartUpdate, Continue, RowInv, TypeOK
  <2> QED
    BY <2>3, <2>4
<1>8. ASSUME NEW c \in Attaches, Attach(c)
      PROVE  AgreesWithRows(u)'
  <2>1. at[u] = at'[u]
    BY <1>1, <1>8 DEF Attach, WillInsert, RowInv, TypeOK
  <2> QED
    BY <1>3, <1>4, <1>8, <2>1, OtherAttachAgrees
<1>9. ASSUME NEW c \in Attaches, InsertAttached(c)
      PROVE  AgreesWithRows(u)'
  <2>1. c \in Calls /\ u \in Updates \ {c}
    BY <1>1 DEF Calls
  <2>2. at'[u] = at[u] /\ todo'[u] = todo[u] /\ found'[u] = found[u] /\ UNCHANGED contested
    BY <1>1, <1>9, <2>1 DEF InsertAttached, RowInv, TypeOK
  <2>3. at[c] = "inserting" /\ Acceptable(todo[c][1]) /\ Store(c)
    BY <1>9 DEF InsertAttached
  <2> QED
    BY <1>3, <1>4, <2>1, <2>2, <2>3, OtherWriteAgrees
<1>10. ASSUME NEW d \in Deletes, StartDelete(d)
       PROVE  AgreesWithRows(u)'
  <2>1. d \in Calls /\ d # u
    BY <1>1 DEF Calls
  <2>2. PICK rest : DeleteRest(d, rest)
    BY <1>10 DEF StartDelete
  <2> QED
    BY <1>1, <1>5, <1>10, <2>1, <2>2 DEF StartDelete, DeleteRest, RowInv, TypeOK
<1>11. ASSUME NEW d \in Deletes, DeleteNext(d)
       PROVE  AgreesWithRows(u)'
  <2>1. d \in Calls /\ d # u
    BY <1>1 DEF Calls
  <2>2. /\ at'[u] = at[u] /\ todo'[u] = todo[u] /\ stored' \subseteq stored
        /\ UNCHANGED <<slotOf, workflowOf, found, contested>>
    BY <1>1, <1>11, <2>1 DEF DeleteNext, DeleteRest, RowInv, TypeOK
  <2> QED
    BY <1>4, <2>2, OthersAgree DEF InSlot
<1>12. ASSUME NEW c \in Calls, FindSlot(c)
       PROVE  AgreesWithRows(u)'
  <2>1. CASE c = u
    BY <1>4, <1>12, <2>1, OwnFindAgrees DEF FindSlot
  <2>2. CASE c # u
    BY <1>1, <1>5, <1>12, <2>2 DEF FindSlot, WillInsert, RowInv, TypeOK
  <2> QED
    BY <2>1, <2>2
<1>13. ASSUME NEW c \in Calls, UpdateFound(c)
       PROVE  AgreesWithRows(u)'
  <2>1. CASE c = u
    BY <1>4, <1>13, <2>1, OwnUpdateAgrees DEF UpdateFound
  <2>2. CASE c # u
    <3>1. at'[u] = at[u] /\ todo'[u] = todo[u] /\ found'[u] = found[u] /\ UNCHANGED contested
      BY <1>1, <1>13, <2>2 DEF UpdateFound, Continue, RowInv, TypeOK
    <3> QED
      BY <1>3, <1>4, <1>13, <2>2, <3>1, OtherWriteAgrees
  <2> QED
    BY <2>1, <2>2
<1>14. ASSUME NEW c \in Calls, Insert(c)
       PROVE  AgreesWithRows(u)'
  <2>1. CASE c = u
    BY <1>4, <1>14, <2>1, OwnInsertAgrees DEF Insert
  <2>2. CASE c # u
    <3>1. at'[u] = at[u] /\ todo'[u] = todo[u] /\ found'[u] = found[u] /\ UNCHANGED contested
      BY <1>1, <1>14, <2>2 DEF Insert, Continue, RowInv, TypeOK
    <3>2. at[c] = "inserting" /\ Acceptable(todo[c][1]) /\ Store(c)
      BY <1>14 DEF Insert
    <3> QED
      BY <1>3, <1>4, <2>2, <3>1, <3>2, OtherWriteAgrees
  <2> QED
    BY <2>1, <2>2
<1>15. ASSUME NEW c \in Calls, InsertRefused(c) \/ CallFails(c)
       PROVE  AgreesWithRows(u)'
  BY <1>1, <1>5, <1>15 DEF InsertRefused, CallFails, RowInv, TypeOK
<1>16. CASE UNCHANGED vars
  BY <1>5, <1>16 DEF vars
<1> QED
  BY <1>6, <1>7, <1>8, <1>9, <1>10, <1>11, <1>12, <1>13, <1>14, <1>15, <1>16 DEF Next

\* An update that sets nothing leaves the workflow of its row, unless another call wrote the
\* slot after the update had read it, or the slot has two rows: then it takes it back.
THEOREM UpdatesKeepWorkflows == Spec => UpdateKeepsWorkflow
<1> DEFINE Keeps(u) ==
      /\ at[u] = "updating" /\ Set[u].workflow = None /\ todo'[u] # todo[u]
      /\ Set[u].slot = [scope |-> None, user |-> None, organization |-> None]
      /\ todo[u][1].slot \notin contested
      => UNCHANGED workflowOf
<1>1. Init => ReadInv
  BY DEF Init, ReadInv, Calls
<1>2. RowInv /\ OneRowPerSlot /\ ReadInv /\ [Next]_vars => ReadInv'
  BY StepKeepsRead
<1>3. RowInv /\ ReadInv /\ [Next]_vars => [\A u \in Updates \ overtaken : Keeps(u)]_vars
  <2> SUFFICES ASSUME RowInv, ReadInv, [Next]_vars, NEW u \in Updates \ overtaken,
                      at[u] = "updating", Set[u].workflow = None, Set[u].slot = NoPart,
                      todo'[u] # todo[u], todo[u][1].slot \notin contested
               PROVE  UNCHANGED workflowOf
    BY DEF NoPart
  <2>1. u \in Calls /\ u \notin Creates \cup Deletes \cup Attaches
    BY AssignmentsAssumption DEF Calls
  <2>2. AgreesWithRows(u)
    BY DEF ReadInv, Refreshing
  <2>3. ASSUME NEW c \in Creates, StartCreate(c) PROVE UNCHANGED workflowOf
    BY <2>3 DEF StartCreate, rowVars
  <2>4. ASSUME NEW v \in Updates, StartUpdate(v) PROVE UNCHANGED workflowOf
    BY <2>4 DEF StartUpdate, rowVars
  <2>5. ASSUME NEW c \in Attaches, Attach(c) \/ InsertAttached(c) PROVE FALSE
    BY <2>1, <2>5 DEF Attach, InsertAttached, RowInv, TypeOK
  <2>6. ASSUME NEW d \in Deletes, StartDelete(d) \/ DeleteNext(d) PROVE UNCHANGED workflowOf
    BY <2>6 DEF StartDelete, DeleteNext, rowVars
  <2>7. ASSUME NEW c \in Calls, FindSlot(c) \/ InsertRefused(c) \/ CallFails(c)
        PROVE  UNCHANGED workflowOf
    BY <2>7 DEF FindSlot, InsertRefused, CallFails, rowVars
  <2>8. ASSUME NEW c \in Calls, Insert(c) PROVE FALSE
    BY <2>1, <2>8 DEF Insert, Continue, RowInv, TypeOK
  <2>9. ASSUME NEW c \in Calls, UpdateFound(c) PROVE UNCHANGED workflowOf
    <3>1. CASE c = u
      BY <2>2, <2>9, <3>1, OwnUpdateAgrees
    <3>2. CASE c # u
      BY <2>1, <2>9, <3>2 DEF UpdateFound, Continue, RowInv, TypeOK
    <3> QED
      BY <3>1, <3>2
  <2>10. Next
    BY DEF vars
  <2> QED
    BY <2>3, <2>4, <2>5, <2>6, <2>7, <2>8, <2>9, <2>10 DEF Next
<1> QED
  BY <1>1, <1>2, <1>3, RowInvariant, SlotsStaySingle, PTL DEF Spec, UpdateKeepsWorkflow
=================================================================================
