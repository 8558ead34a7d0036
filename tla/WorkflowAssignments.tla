--------------------------- MODULE WorkflowAssignments ---------------------------
(***************************************************************************)
(* The assignments of workflows to slots: a slot is a scope (a channel, a  *)
(* category, ...) of a user or of an organization. Rows are upserted by a  *)
(* read and a write, in batches (resolver-system.ts) or by attaching       *)
(* (credential-host-context.ts); updates and deletions list the rows       *)
(* first. An action is what runs between two round trips to the store.     *)
(***************************************************************************)
EXTENDS Naturals, Sequences, FiniteSets

CONSTANTS
  Creates, Updates, Deletes, Attaches, \* calls
  Workflows,
  Scopes, Users, Organizations,
  None,      \* null, or a part of an input that is missing
  Ids,       \* ids of rows
  Items,     \* what a create call is to assign: an id, a slot and a workflow each
  Target,    \* what an attach call is to assign
  Set,       \* what an update call sets: a workflow, parts of the slot, or None
  Selected,  \* the slots whose rows an update or a deletion selects and may delete
  CallerOf,  \* the user who calls
  Root,      \* the calls of root users
  Failing    \* the calls whose round trips may be rejected

Calls == Creates \cup Updates \cup Deletes \cup Attaches
Slots == [scope : Scopes \cup {None}, user : Users \cup {None},
          organization : Organizations \cup {None}]
Assignment == [id : Ids, slot : Slots, workflow : Workflows]

ASSUME AssignmentsAssumption ==
  /\ None \notin Workflows \cup Scopes \cup Users \cup Organizations
  /\ Items \in [Creates -> Seq(Assignment)]
  /\ Target \in [Attaches -> Assignment]
  /\ Set \in [Updates -> [workflow : Workflows \cup {None}, slot : Slots]]
  /\ Selected \in [Updates \cup Deletes -> SUBSET Slots]
  /\ CallerOf \in [Creates \cup Updates -> Users]
  /\ Failing \subseteq Calls
  /\ Creates \cap (Updates \cup Deletes \cup Attaches) = {}
  /\ Updates \cap (Deletes \cup Attaches) = {} /\ Deletes \cap Attaches = {}

VARIABLES
  stored,     \* the ids of the rows
  slotOf,     \* a row's scope, user and organization
  workflowOf, \* a row's workflow
  at,         \* where a call is
  todo,       \* what a call has still to assign or to delete
  found,      \* the row a call is going to update
  contested,  \* history: slots into which two calls were about to insert
  last,       \* history: the workflow a slot was last given, None after a deletion
  torn,       \* history: slots from which a row was deleted that a call was about to update
  overtaken   \* history: updates that have read a slot before another call wrote it

rowVars == <<stored, slotOf, workflowOf>>
vars == <<rowVars, at, todo, found, contested, last, torn, overtaken>>

Init ==
  /\ stored = {}
  /\ slotOf = [i \in Ids |-> [scope |-> None, user |-> None, organization |-> None]]
  /\ workflowOf = [i \in Ids |-> None]
  /\ at = [c \in Calls |-> "idle"]
  /\ todo = [c \in Calls |-> <<>>]
  /\ found = [c \in Calls |-> None]
  /\ contested = {}
  /\ last = [s \in Slots |-> None]
  /\ torn = {}
  /\ overtaken = {}

-------------------------------------------------------------------------------
(* Slots. *)

\* normalizeAssignmentSlot: a user's slot has a scope, a slot without owner has none.
Normal(s) ==
  /\ s.user = None \/ s.organization = None
  /\ s.user # None => s.scope # None
  /\ s.user = None /\ s.organization = None => s.scope = None

\* Only root users assign for another user or for everybody.
MayAssign(c, s) ==
  c \in Root \/ (s.user \in {CallerOf[c], None} /\ (s.user # None \/ s.organization # None))

\* The constraints of the table: a scope and an owner.
Storable(s) == s.scope # None /\ (s.user # None \/ s.organization # None)

\* Mutant: a part that is null is compared like a value, and no row equals null.
InSlotByValue(s) == {i \in stored : slotOf[i] = s /\ s.user # None /\ s.organization # None}

\* Mutant: the owner of the slot is not looked at.
InSlotOfAnyOwner(s) == {i \in stored : slotOf[i].scope = s.scope}

\* readLatestSlot's rows.

InSlot(s) == {i \in stored : slotOf[i] = s}

-------------------------------------------------------------------------------
(* Upserts. *)

\* The next assignment of a call: an input that is not in order rejects the call and keeps
\* what it has already assigned.
Continue(c, rest) ==
  /\ todo' = [todo EXCEPT ![c] = rest]
  /\ at' = [at EXCEPT ![c] =
              IF rest = <<>> THEN "done"
              ELSE IF Normal(rest[1].slot) /\ MayAssign(c, rest[1].slot) THEN "looking"
              ELSE "rejected"]

StartCreate(c) ==
  /\ at[c] = "idle"
  /\ Continue(c, Items[c])
  /\ UNCHANGED <<rowVars, found, contested, last, torn, overtaken>>

\* A part that is set replaces the row's; a part cannot be cleared.
PatchedSlot(s, t) ==
  [scope |-> IF t.scope = None THEN s.scope ELSE t.scope,
   user |-> IF t.user = None THEN s.user ELSE t.user,
   organization |-> IF t.organization = None THEN s.organization ELSE t.organization]

\* Mutant: a workflow that the update does not set is not taken from the row.
SetWorkflow(u, i) == Set[u].workflow

\* Mutant: it is taken from somewhere else.
FirstWorkflow(u, i) == IF Set[u].workflow = None THEN CHOOSE w \in Workflows : TRUE
                                                 ELSE Set[u].workflow

PatchedWorkflow(u, i) == IF Set[u].workflow = None THEN workflowOf[i] ELSE Set[u].workflow

\* The rows a call selects, in any order.
SelectedRows(c) == {i \in stored : slotOf[i] \in Selected[c]}
Orders(S) == {o \in [1..Cardinality(S) -> S] : \A i \in S : \E n \in 1..Cardinality(S) : o[n] = i}

StartUpdate(u) ==
  /\ at[u] = "idle"
  /\ \E o \in Orders(SelectedRows(u)) :
       Continue(u, [n \in 1..Cardinality(SelectedRows(u)) |->
                      [id |-> o[n], slot |-> PatchedSlot(slotOf[o[n]], Set[u].slot),
                       workflow |-> PatchedWorkflow(u, o[n])]])
  /\ UNCHANGED <<rowVars, found, contested, last, torn, overtaken>>

Inserting(s) == {c \in Calls : at[c] = "inserting" /\ todo[c][1].slot = s}

\* Nothing is in the slot: the call will insert.
WillInsert(c, s) ==
  /\ at' = [at EXCEPT ![c] = "inserting"]
  /\ contested' = IF Inserting(s) # {} THEN contested \cup {s} ELSE contested

\* upsertWorkflowAssignmentSlot: of several rows the newest is found, and the times come from
\* the inputs.
FindSlot(c) ==
  LET s == todo[c][1].slot
  IN  /\ at[c] = "looking"
      /\ \/ \E i \in InSlot(s) : /\ found' = [found EXCEPT ![c] = i]
                                 /\ at' = [at EXCEPT ![c] = "updating"]
                                 /\ UNCHANGED contested
         \/ InSlot(s) = {} /\ WillInsert(c, s) /\ UNCHANGED found
      /\ UNCHANGED <<rowVars, todo, last, torn, overtaken>>

\* The calls that have read this slot or these rows and are going to write what they have read.
Behind(c, s, rows) ==
  {u \in Updates \ {c} : found[u] \in rows \/ \E n \in 1..Len(todo[u]) : todo[u][n].slot = s}

\* A row that was deleted meanwhile is not updated, and the call goes on.
UpdateFound(c) ==
  LET i == found[c]
      written == IF i \in stored THEN slotOf[i] ELSE todo[c][1].slot
  IN  /\ at[c] = "updating"
      /\ workflowOf' = IF i \in stored THEN [workflowOf EXCEPT ![i] = todo[c][1].workflow]
                                       ELSE workflowOf
      /\ last' = [s \in Slots |-> IF s \in {todo[c][1].slot, written} THEN todo[c][1].workflow
                                                                   ELSE last[s]]
      /\ overtaken' = overtaken \cup Behind(c, written, {i})
      /\ found' = [found EXCEPT ![c] = None]
      /\ Continue(c, Tail(todo[c]))
      /\ UNCHANGED <<stored, slotOf, contested, torn>>

Store(c) ==
  LET a == todo[c][1]
  IN  /\ stored' = stored \cup {a.id}
      /\ slotOf' = [slotOf EXCEPT ![a.id] = a.slot]
      /\ workflowOf' = [workflowOf EXCEPT ![a.id] = a.workflow]
      /\ last' = [last EXCEPT ![a.slot] = a.workflow]
      /\ overtaken' = overtaken \cup Behind(c, a.slot, {a.id})

Acceptable(a) == Storable(a.slot) /\ a.id \notin stored

Insert(c) ==
  /\ at[c] = "inserting" /\ c \notin Attaches
  /\ Acceptable(todo[c][1])
  /\ Store(c)
  /\ Continue(c, Tail(todo[c]))
  /\ UNCHANGED <<found, contested, torn>>

\* The store does not take a slot without scope or owner, nor an id it has: an update that
\* moves a row to a free slot is an insert with the id of the row.
InsertRefused(c) ==
  /\ at[c] = "inserting"
  /\ ~Acceptable(todo[c][1])
  /\ at' = [at EXCEPT ![c] = "rejected"]
  /\ todo' = [todo EXCEPT ![c] = <<>>]
  /\ UNCHANGED <<rowVars, found, contested, last, torn, overtaken>>

-------------------------------------------------------------------------------
(* Attaching and deleting. *)

\* attachWorkflowDefinition: all rows of the slot are updated at once, or there is none.
Attach(c) ==
  LET a == Target[c]
      s == a.slot
  IN  /\ at[c] = "idle"
      /\ \/ /\ InSlot(s) # {}
            /\ workflowOf' = [i \in Ids |-> IF i \in InSlot(s) THEN a.workflow ELSE workflowOf[i]]
            /\ last' = [last EXCEPT ![s] = a.workflow]
            /\ overtaken' = overtaken \cup Behind(c, s, InSlot(s))
            /\ at' = [at EXCEPT ![c] = "done"]
            /\ UNCHANGED <<todo, contested>>
         \/ /\ InSlot(s) = {}
            /\ WillInsert(c, s)
            /\ todo' = [todo EXCEPT ![c] = <<a>>]
            /\ UNCHANGED <<workflowOf, last, overtaken>>
      /\ UNCHANGED <<stored, slotOf, found, torn>>

InsertAttached(c) ==
  /\ at[c] = "inserting" /\ c \in Attaches
  /\ Acceptable(todo[c][1])
  /\ Store(c)
  /\ at' = [at EXCEPT ![c] = "done"]
  /\ todo' = [todo EXCEPT ![c] = <<>>]
  /\ UNCHANGED <<found, contested, torn>>

DeleteRest(c, rest) ==
  /\ todo' = [todo EXCEPT ![c] = rest]
  /\ at' = [at EXCEPT ![c] = IF rest = <<>> THEN "done" ELSE "deleting"]

StartDelete(d) ==
  /\ at[d] = "idle"
  /\ \E o \in Orders(SelectedRows(d)) :
       DeleteRest(d, [n \in 1..Cardinality(SelectedRows(d)) |->
                        [id |-> o[n], slot |-> slotOf[o[n]], workflow |-> workflowOf[o[n]]]])
  /\ UNCHANGED <<rowVars, found, contested, last, torn, overtaken>>

\* deleteByIds: rows are deleted one by one, and those that are gone are passed over.
DeleteNext(d) ==
  LET i == todo[d][1].id
      s == slotOf[i]
  IN  /\ at[d] = "deleting"
      /\ stored' = stored \ {i}
      /\ last' = IF i \in stored THEN [last EXCEPT ![s] = None] ELSE last
      /\ torn' = IF \E c \in Calls : found[c] = i THEN torn \cup {s} ELSE torn
      /\ DeleteRest(d, Tail(todo[d]))
      /\ UNCHANGED <<slotOf, workflowOf, found, contested, overtaken>>

\* A rejected round trip rejects the call; what it has written stays.
CallFails(c) ==
  /\ c \in Failing
  /\ at[c] \in {"looking", "updating", "inserting", "deleting"}
  /\ at' = [at EXCEPT ![c] = "rejected"]
  /\ todo' = [todo EXCEPT ![c] = <<>>]
  /\ found' = [found EXCEPT ![c] = None]
  /\ UNCHANGED <<rowVars, contested, last, torn, overtaken>>

Next ==
  \/ \E c \in Creates : StartCreate(c)
  \/ \E u \in Updates : StartUpdate(u)
  \/ \E a \in Attaches : Attach(a) \/ InsertAttached(a)
  \/ \E d \in Deletes : StartDelete(d) \/ DeleteNext(d)
  \/ \E c \in Calls : FindSlot(c) \/ UpdateFound(c) \/ Insert(c) \/ InsertRefused(c) \/ CallFails(c)

Spec == Init /\ [][Next]_vars

-------------------------------------------------------------------------------
(* Properties. *)

\* The type invariant.
TypeOK ==
  /\ stored \subseteq Ids
  /\ slotOf \in [Ids -> Slots]
  /\ workflowOf \in [Ids -> Workflows \cup {None}]
  /\ at \in [Calls -> {"idle", "looking", "updating", "inserting", "deleting", "done", "rejected"}]
  /\ todo \in [Calls -> Seq(Assignment)]
  /\ found \in [Calls -> Ids \cup {None}]
  /\ contested \subseteq Slots /\ torn \subseteq Slots
  /\ last \in [Slots -> Workflows \cup {None}]
  /\ overtaken \subseteq Updates

\* A slot has one row as long as no two calls were about to insert into it at a time, whatever
\* is updated, moved, deleted or attached meanwhile.
OneRowPerSlot ==
  \A i, j \in stored : slotOf[i] = slotOf[j] /\ slotOf[i] \notin contested => i = j

\* The workflow a slot was last given is assigned to it, unless a row was deleted while a call
\* was about to update it: that call has then assigned nothing, and succeeds.
AssignmentTakesEffect ==
  \A s \in Slots \ torn : last[s] # None =>
                             \E i \in stored : slotOf[i] = s /\ workflowOf[i] = last[s]

\* An update that sets no workflow changes none, unless another call has written the slot since
\* the update read it (its assignment is then lost), or the slot has two rows.
UpdateKeepsWorkflow ==
  [][\A u \in Updates \ overtaken :
       /\ at[u] = "updating" /\ Set[u].workflow = None /\ todo'[u] # todo[u]
       /\ Set[u].slot = [scope |-> None, user |-> None, organization |-> None]
       /\ todo[u][1].slot \notin contested
       => UNCHANGED workflowOf]_vars
=================================================================================
