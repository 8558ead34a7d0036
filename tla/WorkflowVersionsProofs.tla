------------------------- MODULE WorkflowVersionsProofs -------------------------
(***************************************************************************)
(* Proofs about WorkflowVersions, for every set of publications,           *)
(* deletions and executions, however many publications are under way.      *)
(***************************************************************************)
EXTENDS WorkflowVersions, TLAPS

\* A version is stored, and a deletion can want it, only once its publication is over;
\* what a deletion wants was not current when it looked and cannot become current.
Stored == \A v \in versions : publication[v] = "published"
Numbered == \A p \in Publications : publication[p] \in {"numbered", "clearing"} => number[p] > 0
Doomed ==
  \A d \in Deletions : \A v \in doomed[d] : publication[v] = "published" /\ v \notin current
KeepInv == TypeOK /\ Stored /\ Numbered /\ Doomed

USE DEF PublicationStates

LEMMA InitKeepInv == Init => KeepInv
  BY VersionsAssumption DEF Init, KeepInv, TypeOK, Stored, Numbered, Doomed

LEMMA PublishKeepsInv ==
  ASSUME KeepInv, NEW p \in Publications, Publish(p)
  PROVE  KeepInv'
<1> USE DEF KeepInv, TypeOK
<1>1. CASE UpdateRow(p)
  BY <1>1 DEF UpdateRow, Stored, Numbered, Doomed, deletionVars, executionVars
<1>2. CASE ReadLatest(p)
  <2>1. number' \in [Publications -> Nat] /\ number'[p] > 0
        /\ \A q \in Publications : q # p => number'[q] = number[q]
    BY <1>2 DEF ReadLatest, Newest
  <2>2. p \notin versions
    BY <1>2 DEF ReadLatest, Stored
  <2> QED
    BY <1>2, <2>1, <2>2 DEF ReadLatest, Stored, Numbered, Doomed, deletionVars, executionVars
<1>3. CASE ListCurrent(p)
  BY <1>3 DEF ListCurrent, Stored, Numbered, Doomed, deletionVars, executionVars
<1>4. CASE ClearNext(p)
  BY <1>4 DEF ClearNext, Stored, Numbered, Doomed, deletionVars, executionVars
<1>5. CASE CreateVersion(p)
  BY <1>5 DEF CreateVersion, Stored, Numbered, Doomed, deletionVars, executionVars
<1>6. CASE PublicationFails(p)
  BY <1>6 DEF PublicationFails, Stored, Numbered, Doomed, deletionVars, executionVars
<1> QED
  BY <1>1, <1>2, <1>3, <1>4, <1>5, <1>6 DEF Publish

LEMMA DeleteKeepsInv ==
  ASSUME KeepInv, NEW d \in Deletions, Delete(d)
  PROVE  KeepInv'
<1> USE DEF KeepInv, TypeOK, Stored, Numbered, Doomed, publicationVars, executionVars
<1>1. CASE ListVersions(d)
  BY <1>1 DEF ListVersions
<1>2. CASE ListReferences(d)
  BY <1>2 DEF ListReferences
<1>3. CASE DeleteNext(d)
  BY <1>3 DEF DeleteNext
<1>4. CASE DeletionFails(d)
  BY <1>4 DEF DeletionFails
<1> QED
  BY <1>1, <1>2, <1>3, <1>4 DEF Delete

LEMMA QueueKeepsInv ==
  ASSUME KeepInv, NEW x \in Executions, Queue(x)
  PROVE  KeepInv'
  BY DEF Queue, ResolveCurrent, Track, Newest, KeepInv, TypeOK, Stored, Numbered, Doomed,
     publicationVars, deletionVars

LEMMA StutterKeepsInv == KeepInv /\ UNCHANGED vars => KeepInv'
  BY DEF KeepInv, TypeOK, Stored, Numbered, Doomed, vars, publicationVars, deletionVars,
     executionVars

\* Every behaviour keeps the types and the three facts above.
THEOREM KeepInvariant == Spec => []KeepInv
<1>1. KeepInv /\ [Next]_vars => KeepInv'
  BY PublishKeepsInv, DeleteKeepsInv, QueueKeepsInv, StutterKeepsInv DEF Next
<1> QED
  BY <1>1, InitKeepInv, PTL DEF Spec

\* The type invariant, for every instance.
THEOREM TypeCorrect == Spec => []TypeOK
<1>1. KeepInv => TypeOK
  BY DEF KeepInv
<1> QED
  BY <1>1, KeepInvariant, PTL

-------------------------------------------------------------------------------
(* What a deletion leaves alone, whoever publishes and whatever fails. *)

\* No deletion removes a row that is current when it is removed.
THEOREM CurrentSurvives == Spec => CurrentIsKept
<1>1. KeepInv /\ [Next]_vars => [current \subseteq versions']_vars
  <2> SUFFICES ASSUME KeepInv, Next
               PROVE  current \subseteq versions'
    OBVIOUS
  <2> USE DEF KeepInv, TypeOK
  <2>1. CASE \E p \in Publications : Publish(p)
    BY <2>1 DEF Publish, UpdateRow, ReadLatest, ListCurrent, ClearNext, CreateVersion,
       PublicationFails
  <2>2. CASE \E d \in Deletions : Delete(d)
    BY <2>2 DEF Delete, ListVersions, ListReferences, DeleteNext, DeletionFails, Doomed
  <2>3. CASE \E x \in Executions : Queue(x)
    BY <2>3 DEF Queue, ResolveCurrent, Track
  <2> QED
    BY <2>1, <2>2, <2>3 DEF Next
<1> QED
  BY <1>1, KeepInvariant, PTL DEF Spec, CurrentIsKept

LEMMA DeleteKeepsVersion ==
  ASSUME KeepInv, NEW d \in Deletions, Delete(d), NEW x \in Executions, KeepsVersion(x)
  PROVE  KeepsVersion(x)'
<1> USE DEF KeepInv, TypeOK, KeepsVersion, executionVars
<1>1. CASE ListVersions(d)
  BY <1>1 DEF ListVersions
<1>2. CASE ListReferences(d)
  <2>1. attributed[x] \in UNION {References(y) : y \in Executions}
    BY DEF References
  <2> QED
    BY <1>2, <2>1 DEF ListReferences
<1>3. CASE DeleteNext(d)
  BY <1>3 DEF DeleteNext
<1>4. CASE DeletionFails(d)
  BY <1>4 DEF DeletionFails
<1> QED
  BY <1>1, <1>2, <1>3, <1>4 DEF Delete

\* An execution's version stays once no deletion has decided on it.
THEOREM ReferenceSurvives == Spec => ReferencedIsKept
<1>1. KeepInv /\ [Next]_vars
        => [\A x \in Executions : KeepsVersion(x) => KeepsVersion(x)']_vars
  <2> SUFFICES ASSUME KeepInv, Next, NEW x \in Executions, KeepsVersion(x)
               PROVE  KeepsVersion(x)'
    OBVIOUS
  <2>1. CASE \E p \in Publications : Publish(p)
    BY <2>1 DEF Publish, UpdateRow, ReadLatest, ListCurrent, ClearNext, CreateVersion,
       PublicationFails, KeepsVersion, deletionVars, executionVars
  <2>2. CASE \E d \in Deletions : Delete(d)
    BY <2>2, DeleteKeepsVersion
  <2>3. CASE \E y \in Executions : Queue(y)
    BY <2>3 DEF Queue, ResolveCurrent, Track, KeepsVersion, deletionVars, KeepInv, TypeOK
  <2> QED
    BY <2>1, <2>2, <2>3 DEF Next
<1> QED
  BY <1>1, KeepInvariant, PTL DEF Spec, ReferencedIsKept

-------------------------------------------------------------------------------
(* What publications leave that did not meet. *)

\* Publications that are under way together have met, and the workflow's row holds what one
\* wrote that is under way, or what one wrote that met it. The number of a publication is
\* ahead of every stored one, and it has yet to clear whatever is current, except for what
\* was stored by publications it met.
Together == \A p, q \in Publications : Underway(p) /\ Underway(q) => p = q \/ Met(p, q)
Writing == \A p \in Publications : Underway(p) => content = p \/ Met(content, p)
Ahead ==
  \A p \in Publications :
    publication[p] \in {"numbered", "clearing"} =>
      \A v \in versions : number[v] < number[p] \/ Met(v, p)
Clearing ==
  \A p \in Publications :
    publication[p] = "clearing" => \A v \in current : v \in clearing[p] \/ Met(v, p)
OverlapInv ==
  /\ KeepInv /\ Together /\ Writing /\ Ahead /\ Clearing
  /\ AtMostOneCurrent /\ NumbersUnique /\ PublishedIsNewest

LEMMA MetIsSymmetric == \A p, q : Met(p, q) <=> Met(q, p)
  BY DEF Met

LEMMA InitOverlapInv == Init => OverlapInv
  BY InitKeepInv, VersionsAssumption
  DEF Init, OverlapInv, Together, Writing, Ahead, Clearing, Underway, AtMostOneCurrent,
      NumbersUnique, PublishedIsNewest

\* Publications meet when one begins: those who have met before have met since.
LEMMA UpdateRowKeepsOverlapInv ==
  ASSUME OverlapInv, NEW p \in Publications, UpdateRow(p), KeepInv'
  PROVE  OverlapInv'
<1> USE DEF OverlapInv, KeepInv, TypeOK
<1>1. /\ publication[p] = "idle" /\ content' = p
      /\ publication' = [publication EXCEPT ![p] = "updated"]
      /\ UNCHANGED <<versions, number, current, clearing>>
  BY DEF UpdateRow
<1>2. /\ \A q, r : Met(q, r) => Met(q, r)'
      /\ \A q \in Publications : Underway(q) => Met(p, q)'
  BY DEF UpdateRow, Met
<1>3. \A q \in Publications : q # p => (Underway(q)' <=> Underway(q))
  BY <1>1 DEF Underway
<1>4. Together'
  BY <1>2, <1>3, MetIsSymmetric DEF Together, Met
<1>5. Writing'
  BY <1>1, <1>2, <1>3 DEF Writing
<1>6. Ahead' /\ Clearing'
  BY <1>1, <1>2 DEF Ahead, Clearing
<1>7. AtMostOneCurrent' /\ NumbersUnique'
  BY <1>1, <1>2 DEF AtMostOneCurrent, NumbersUnique
<1>8. PublishedIsNewest'
  BY <1>1 DEF PublishedIsNewest
<1> QED
  BY <1>4, <1>5, <1>6, <1>7, <1>8

LEMMA ReadLatestKeepsOverlapInv ==
  ASSUME OverlapInv, NEW p \in Publications, ReadLatest(p), KeepInv'
  PROVE  OverlapInv'
<1> USE DEF OverlapInv, KeepInv, TypeOK
<1>1. /\ number' \in [Publications -> Nat]
      /\ \A q \in Publications : q # p => number'[q] = number[q]
      /\ \A v \in versions : number[v] < number'[p]
  BY DEF ReadLatest, Newest
<1>2. p \notin versions
  BY DEF ReadLatest, Stored
<1>3. \A v \in versions : number'[v] = number[v]
  BY <1>1, <1>2
<1>4. /\ publication[p] = "updated"
      /\ publication' = [publication EXCEPT ![p] = "numbered"]
      /\ UNCHANGED <<content, versions, current, clearing, met>>
  BY DEF ReadLatest
<1>5. \A q \in Publications : Underway(q)' <=> Underway(q)
  BY <1>4 DEF Underway
<1>6. Together' /\ Writing' /\ Clearing'
  BY <1>4, <1>5 DEF Together, Writing, Clearing, Met
<1>7. Ahead'
  BY <1>1, <1>3, <1>4 DEF Ahead, Met
<1>8. AtMostOneCurrent' /\ NumbersUnique'
  BY <1>3, <1>4 DEF AtMostOneCurrent, NumbersUnique, Met
<1>9. PublishedIsNewest'
  <2>1. Newest' = Newest
    BY <1>3, <1>4 DEF Newest
  <2> QED
    BY <1>4, <2>1 DEF PublishedIsNewest, Met
<1> QED
  BY <1>6, <1>7, <1>8, <1>9

\* A row is cleared that is not the version of an undisturbed publication: whoever clears
\* when the workflow's row holds what that one wrote has met it.
LEMMA ClearNextKeepsOverlapInv ==
  ASSUME OverlapInv, NEW p \in Publications, ClearNext(p), KeepInv'
  PROVE  OverlapInv'
<1> USE DEF OverlapInv, KeepInv, TypeOK
<1>1. PICK v \in clearing[p] :
        current' = current \ {v} /\ clearing' = [clearing EXCEPT ![p] = @ \ {v}]
  BY DEF ClearNext
<1>2. /\ publication[p] = "clearing" /\ Underway(p)
      /\ UNCHANGED <<content, versions, number, publication, met>>
  BY DEF ClearNext, Underway
<1>3. Together' /\ Writing' /\ Ahead'
  BY <1>2 DEF Together, Writing, Ahead, Underway, Met
<1>4. Clearing'
  BY <1>1, <1>2 DEF Clearing, Met
<1>5. AtMostOneCurrent' /\ NumbersUnique'
  BY <1>1, <1>2 DEF AtMostOneCurrent, NumbersUnique, Met
<1>6. PublishedIsNewest'
  <2> SUFFICES ASSUME NEW q \in Publications, content = q, publication[q] = "published",
                      \A r \in Publications : ~Met(q, r)
               PROVE  FALSE
    BY <1>2 DEF PublishedIsNewest, Met
  <2> QED
    BY <1>2 DEF Writing
<1> QED
  BY <1>3, <1>4, <1>5, <1>6

\* The row that is created is alone but for what was stored by publications it met.
LEMMA CreateVersionKeepsOverlapInv ==
  ASSUME OverlapInv, NEW p \in Publications, CreateVersion(p), KeepInv'
  PROVE  OverlapInv'
<1> USE DEF OverlapInv, KeepInv, TypeOK
<1>1. /\ publication[p] = "clearing" /\ clearing[p] = {} /\ Underway(p)
      /\ versions' = versions \cup {p} /\ current' = current \cup {p}
      /\ publication' = [publication EXCEPT ![p] = "published"]
      /\ UNCHANGED <<content, number, clearing, met>>
  BY DEF CreateVersion, Underway
<1>2. \A q, r : Met(q, r)' <=> Met(q, r)
  BY <1>1 DEF Met
<1>3. /\ \A q \in Publications : Underway(q)' => Underway(q) /\ q # p
      /\ \A q \in Publications : q # p => publication'[q] = publication[q]
  BY <1>1 DEF Underway
<1>4. \A q \in Publications : Underway(q)' => Met(p, q)
  BY <1>1, <1>3 DEF Together
<1>5. Together' /\ Writing'
  BY <1>1, <1>2, <1>3 DEF Together, Writing
<1>6. Ahead'
  BY <1>1, <1>2, <1>3, <1>4 DEF Ahead, Underway
<1>7. Clearing'
  BY <1>1, <1>2, <1>3, <1>4 DEF Clearing, Underway
<1>8. \A v \in versions : number[v] < number[p] \/ Met(v, p)
  BY <1>1 DEF Ahead
<1>9. \A v \in current : Met(v, p)
  BY <1>1 DEF Clearing
<1>10. AtMostOneCurrent'
  BY <1>1, <1>2, <1>9, MetIsSymmetric DEF AtMostOneCurrent
<1>11. NumbersUnique'
  BY <1>1, <1>2, <1>8, MetIsSymmetric DEF NumbersUnique
<1>12. PublishedIsNewest'
  <2> SUFFICES ASSUME NEW q \in Publications, content = q, publication'[q] = "published",
                      \A r \in Publications : ~Met(q, r)
               PROVE  (current = {q} /\ Newest = {q})'
    BY <1>1, <1>2 DEF PublishedIsNewest
  <2>1. q = p
    BY <1>1 DEF Writing
  <2>2. current' = {p}
    BY <1>1, <1>9, <2>1, MetIsSymmetric
  <2>3. \A v \in versions : number[v] < number[p]
    BY <1>8, <2>1, MetIsSymmetric
  <2>4. Newest' = {p}
    BY <1>1, <2>3 DEF Newest
  <2> QED
    BY <2>1, <2>2, <2>4
<1> QED
  BY <1>5, <1>6, <1>7, <1>10, <1>11, <1>12

LEMMA PublishKeepsOverlapInv ==
  ASSUME OverlapInv, NEW p \in Publications, Publish(p)
  PROVE  OverlapInv'
<1>1. KeepInv'
  BY PublishKeepsInv DEF OverlapInv
<1>2. CASE ListCurrent(p)
  BY <1>1, <1>2 DEF OverlapInv, KeepInv, TypeOK, ListCurrent, Together, Writing, Ahead,
     Clearing, Underway, Newest, AtMostOneCurrent, NumbersUnique, PublishedIsNewest, Met
<1>3. CASE PublicationFails(p)
  BY <1>1, <1>3 DEF OverlapInv, KeepInv, TypeOK, PublicationFails, Together, Writing, Ahead,
     Clearing, Underway, Newest, AtMostOneCurrent, NumbersUnique, PublishedIsNewest, Met
<1> QED
  BY <1>1, <1>2, <1>3, UpdateRowKeepsOverlapInv, ReadLatestKeepsOverlapInv,
     ClearNextKeepsOverlapInv, CreateVersionKeepsOverlapInv DEF Publish

LEMMA DeleteKeepsOverlapInv ==
  ASSUME OverlapInv, NEW d \in Deletions, Delete(d)
  PROVE  OverlapInv'
<1>1. KeepInv'
  BY DeleteKeepsInv DEF OverlapInv
<1>2. /\ versions' \subseteq versions /\ current' = current
      /\ UNCHANGED <<content, number, publication, clearing, met>>
  BY DEF Delete, ListVersions, ListReferences, DeleteNext, DeletionFails, publicationVars,
     OverlapInv, KeepInv, Doomed
<1>3. Together' /\ Writing' /\ Ahead' /\ Clearing'
  BY <1>2 DEF OverlapInv, Together, Writing, Ahead, Clearing, Underway, Met
<1>4. AtMostOneCurrent' /\ NumbersUnique'
  BY <1>2 DEF OverlapInv, AtMostOneCurrent, NumbersUnique, Met
<1>5. PublishedIsNewest'
  <2> SUFFICES ASSUME NEW p \in Publications, content = p, publication[p] = "published",
                      \A q \in Publications : ~Met(p, q)
               PROVE  current = {p} /\ Newest' = {p}
    BY <1>2 DEF PublishedIsNewest, Met
  <2>1. current = {p} /\ Newest = {p}
    BY DEF OverlapInv, PublishedIsNewest
  <2>2. p \in versions'
    BY <1>1, <1>2, <2>1 DEF KeepInv, TypeOK
  <2>3. \A v \in versions : number[v] \in Nat /\ number[v] <= number[p]
    BY <2>1 DEF Newest, OverlapInv, KeepInv, TypeOK
  <2>4. \A v \in versions : v # p => number[v] < number[p]
    <3> SUFFICES ASSUME NEW v \in versions, v # p, ~(number[v] < number[p])
                 PROVE  FALSE
      OBVIOUS
    <3>1. number[v] = number[p]
      BY <1>2, <2>2, <2>3
    <3>2. v \in Newest
      BY <2>3, <3>1 DEF Newest
    <3> QED
      BY <2>1, <3>2
  <2> QED
    BY <1>2, <2>1, <2>2, <2>4, <2>3 DEF Newest
<1> QED
  BY <1>1, <1>3, <1>4, <1>5 DEF OverlapInv

LEMMA QueueKeepsOverlapInv ==
  ASSUME OverlapInv, UNCHANGED <<versions, current, publicationVars>>, KeepInv'
  PROVE  OverlapInv'
  BY DEF publicationVars, OverlapInv, Together, Writing, Ahead, Clearing, Underway, Newest,
     AtMostOneCurrent, NumbersUnique, PublishedIsNewest, Met

\* Every behaviour keeps what publications leave that did not meet, and what they have left
\* to do; nothing is assumed of who publishes, deletes or fails.
THEOREM OverlapInvariant == Spec => []OverlapInv
<1>1. OverlapInv /\ [Next]_vars => OverlapInv'
  <2> SUFFICES ASSUME OverlapInv, [Next]_vars
               PROVE  OverlapInv'
    OBVIOUS
  <2>1. CASE \E p \in Publications : Publish(p)
    BY <2>1, PublishKeepsOverlapInv
  <2>2. CASE \E d \in Deletions : Delete(d)
    BY <2>2, DeleteKeepsOverlapInv
  <2>3. CASE \E x \in Executions : Queue(x)
    <3>1. KeepInv'
      BY <2>3, QueueKeepsInv DEF OverlapInv
    <3>2. UNCHANGED <<versions, current, publicationVars>>
      BY <2>3 DEF Queue, ResolveCurrent, Track
    <3> QED
      BY <3>1, <3>2, QueueKeepsOverlapInv
  <2>4. CASE UNCHANGED vars
    <3>1. KeepInv'
      BY <2>4, StutterKeepsInv DEF OverlapInv
    <3> QED
      BY <2>4, <3>1, QueueKeepsOverlapInv DEF vars
  <2> QED
    BY <2>1, <2>2, <2>3, <2>4 DEF Next
<1> QED
  BY <1>1, InitOverlapInv, PTL DEF Spec

\* Two versions are current only if their publications met.
THEOREM OneCurrentVersion == Spec => []AtMostOneCurrent
<1>1. OverlapInv => AtMostOneCurrent
  BY DEF OverlapInv
<1> QED
  BY <1>1, OverlapInvariant, PTL

\* A version number is given twice among the stored versions only by publications that met.
THEOREM NumbersStayUnique == Spec => []NumbersUnique
<1>1. OverlapInv => NumbersUnique
  BY DEF OverlapInv
<1> QED
  BY <1>1, OverlapInvariant, PTL

\* An undisturbed publication that is the last one leaves the only current and newest
\* version, whatever the publications before it have left.
THEOREM UndisturbedPublicationPrevails == Spec => []PublishedIsNewest
<1>1. OverlapInv => PublishedIsNewest
  BY DEF OverlapInv
<1> QED
  BY <1>1, OverlapInvariant, PTL

\* If no two publications ever meet, no two versions are ever current or of one number.
COROLLARY SerialPublications ==
  Spec /\ [](met = {}) => [](\A v, w \in versions : v # w =>
                                number[v] # number[w] /\ ~(v \in current /\ w \in current))
<1>1. OverlapInv /\ met = {} =>
        \A v, w \in versions : v # w =>
          number[v] # number[w] /\ ~(v \in current /\ w \in current)
  BY DEF OverlapInv, AtMostOneCurrent, NumbersUnique, Met
<1> QED
  BY <1>1, OverlapInvariant, PTL
=================================================================================
