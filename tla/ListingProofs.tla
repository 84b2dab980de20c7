--------------------------- MODULE ListingProofs ---------------------------
(***************************************************************************)
(* A listing neither repeats nor skips: proofs for any number of           *)
(* documents, any page size and any clock.                                 *)
(***************************************************************************)
EXTENDS Listing, FiniteSetTheorems, TLAPS

(* What the walk has returned is the caller's, was returned once, and lies at
   or before the cursor. *)
SeenOnce(d) ==
  /\ times[d] \in {0, 1}
  /\ times[d] = 1 =>
       /\ IsThere(d) /\ rows[d].tenant = walk.tenant
       /\ ~walk.ended => ~IsAfter(d, walk.cursor)

(* What the walk owes still matches, and was returned or is yet to come. *)
OwedStill(d) ==
  /\ Matches(d, walk.tenant, walk.filter)
  /\ times[d] = 0 => ~walk.ended /\ IsAfter(d, walk.cursor)

WalkInv ==
  /\ TypeOK
  /\ \A d \in Docs : SeenOnce(d)
  /\ \A d \in owed : OwedStill(d)

-----------------------------------------------------------------------------
(* A committed row has a time and an identifier that are numbers: the keyset
   is a total order. *)
LEMMA RowFacts ==
  ASSUME TypeOK, NEW d \in Docs, rows[d] # Absent
  PROVE  /\ rows[d].at \in 0..now /\ rows[d].tenant \in Tenants
         /\ rows[d].status \in Statuses /\ rows[d].state \in {"open", "there"}
         /\ rows[d] = RowOf(rows[d].state, rows[d].tenant, rows[d].at, rows[d].status)
  BY DEF TypeOK, Rows, RowOf, Absent

(* A row the queries see is one. *)
LEMMA ThereIsNotAbsent ==
  ASSUME NEW d \in Docs, IsThere(d)
  PROVE  rows[d] # Absent
  BY DEF IsThere, Absent

(* The rows of a page that is not the last are the newest that remain: with a
   row, every remaining row that is newer. *)
LEMMA PageIsNewest ==
  ASSUME ListingAssumption, TypeOK, HasMore,
         NEW d \in Page, NEW e \in Remaining, Newer(e, d)
  PROVE  e \in Page
<1> DEFINE Above(x) == {y \in Remaining : Newer(y, x)}
<1>1. IsFiniteSet(Remaining)
  BY FS_Subset DEF ListingAssumption, Remaining
<1>2. d \in Remaining /\ Cardinality(Above(d)) < Limit
  BY <1>1, FS_CardinalityType DEF Page, HasMore, ListingAssumption
<1>3. ASSUME NEW y \in Remaining, Newer(y, e) PROVE Newer(y, d)
  <2>1. /\ y \in Docs /\ rows[y].at \in Nat
        /\ d \in Docs /\ rows[d].at \in Nat
        /\ e \in Docs /\ rows[e].at \in Nat
    BY <1>2, RowFacts, ThereIsNotAbsent DEF Remaining, Matches, TypeOK
  <2> QED BY <1>3, <2>1 DEF Newer, ListingAssumption
<1>4. Above(e) \subseteq Above(d)
  BY <1>3
<1>5. Cardinality(Above(e)) <= Cardinality(Above(d))
  <2>1. IsFiniteSet(Above(d))
    BY <1>1, FS_Subset
  <2> QED BY <2>1, <1>4, FS_Subset
<1>6. Cardinality(Above(e)) \in Nat /\ Cardinality(Above(d)) \in Nat
  BY <1>1, FS_Subset, FS_CardinalityType
<1> QED
  BY <1>1, <1>2, <1>5, <1>6, FS_CardinalityType DEF Page, HasMore, ListingAssumption

-----------------------------------------------------------------------------
(* No document is there, and no walk is under way, when the system starts. *)
LEMMA InitWalkInv == ListingAssumption /\ Init => WalkInv
  BY DEF ListingAssumption, Init, WalkInv, TypeOK, SeenOnce, OwedStill, Rows, Cursors, Absent,
         Start, IsThere

(* A change of one row that the walk has not returned and is not owed keeps
   the invariant. *)
LEMMA OtherRow ==
  ASSUME WalkInv, TypeOK', NEW d \in Docs, ~IsThere(d), UNCHANGED <<walk, times, owed>>,
         \A e \in Docs \ {d} : rows'[e] = rows[e]
  PROVE  WalkInv'
<1>1. times[d] = 0 /\ d \notin owed
  BY DEF WalkInv, SeenOnce, OwedStill, Matches, TypeOK
<1>2. ASSUME NEW e \in Docs PROVE SeenOnce(e)'
  BY <1>1, <1>2 DEF WalkInv, SeenOnce, IsThere, IsAfter
<1>3. ASSUME NEW e \in owed PROVE OwedStill(e)'
  <2>1. e \in Docs \ {d}
    BY <1>1, <1>3 DEF WalkInv, TypeOK
  <2>2. OwedStill(e) /\ rows'[e] = rows[e]
    BY <2>1, <1>3 DEF WalkInv
  <2> QED BY <2>2 DEF OwedStill, Matches, IsThere, IsAfter
<1> QED BY <1>2, <1>3 DEF WalkInv
(* Every action keeps the types. *)
LEMMA TypeStep == ListingAssumption /\ TypeOK /\ [Next]_vars => TypeOK'
<1> SUFFICES ASSUME ListingAssumption, TypeOK, [Next]_vars PROVE TypeOK'
  OBVIOUS
<1> USE DEF ListingAssumption, TypeOK
<1>1. CASE Tick
  <2>1. now' \in Nat /\ 0..now \subseteq 0..now'
    BY <1>1 DEF Tick
  <2>2. Rows \subseteq Rows' /\ Cursors \subseteq Cursors'
    BY <2>1 DEF Rows, Cursors
  <2> QED BY <1>1, <2>1, <2>2 DEF Tick
<1>2. ASSUME NEW d \in Docs, NEW tenant \in Tenants, OpenUpload(d, tenant) PROVE TypeOK'
  <2>1. now \in 0..now
    OBVIOUS
  <2>2. RowOf("open", tenant, now, "QUEUED") \in Rows
    BY <2>1 DEF Rows
  <2> QED BY <1>2, <2>2 DEF OpenUpload, Rows, Cursors
<1>3. ASSUME NEW d \in Docs, CommitUpload(d) PROVE TypeOK'
  <2>1. [rows[d] EXCEPT !.state = "there"] \in Rows
    <3>1. rows[d] # Absent
      BY <1>3 DEF CommitUpload, Absent
    <3> QED BY <3>1, RowFacts DEF Rows, RowOf
  <2> QED BY <1>3, <2>1 DEF CommitUpload, Rows, Cursors
<1>4. ASSUME NEW d \in Docs, RollbackUpload(d) PROVE TypeOK'
  BY <1>4 DEF RollbackUpload, Rows, Cursors
<1>5. ASSUME NEW d \in Docs, NEW status \in Statuses, Move(d, status) PROVE TypeOK'
  <2>1. [rows[d] EXCEPT !.status = status] \in Rows
    BY <1>5, RowFacts, ThereIsNotAbsent DEF Move, Rows, RowOf
  <2> QED BY <1>5, <2>1 DEF Move, Rows, Cursors
<1>6. ASSUME NEW tenant \in Tenants, NEW filter \in Statuses \union {Any},
             StartWalk(tenant, filter)
      PROVE  TypeOK'
  BY <1>6 DEF StartWalk, table, Rows, Cursors
<1>7. CASE ReadPage
  <2>1. times' \in [Docs -> Nat]
    BY <1>7 DEF ReadPage
  <2>2. UNCHANGED <<now, rows, moves, owed>> /\ Rows' = Rows /\ Cursors' = Cursors
    BY <1>7 DEF ReadPage, table, Rows, Cursors
  <2>3. CASE HasMore
    <3>1. PICK last \in Page : walk' = [walk EXCEPT !.cursor = At(rows[last].at, last)]
      BY <1>7, <2>3 DEF ReadPage
    <3>2. last \in Docs /\ IsThere(last)
      BY DEF Page, Remaining, Matches
    <3>3. At(rows[last].at, last) \in Cursors
      BY <3>2, RowFacts, ThereIsNotAbsent DEF Cursors
    <3> QED BY <2>1, <2>2, <3>1, <3>3
  <2>4. CASE ~HasMore
    BY <1>7, <2>1, <2>2, <2>4 DEF ReadPage
  <2> QED BY <2>3, <2>4
<1>8. CASE UNCHANGED vars
  BY <1>8 DEF vars, table, Rows, Cursors
<1> QED BY <1>1, <1>2, <1>3, <1>4, <1>5, <1>6, <1>7, <1>8 DEF Next

(* A page returns documents the walk has not returned, every one that is owed
   and not after the new cursor among them. *)
LEMMA ReadStep ==
  ASSUME ListingAssumption, WalkInv, TypeOK', ReadPage
  PROVE  WalkInv'
<1>1. TypeOK /\ \A d \in Docs : SeenOnce(d)
  BY DEF WalkInv
<1>2. UNCHANGED <<rows, owed>> /\ walk'.tenant = walk.tenant /\ walk'.filter = walk.filter
  BY <1>1 DEF ReadPage, table, TypeOK
<1>3. Page \subseteq Remaining /\ Remaining \subseteq Docs
  BY DEF Page, Remaining
<1>4. \A d \in Page : times[d] = 0 /\ IsThere(d) /\ rows[d].tenant = walk.tenant
  BY <1>1, <1>3 DEF Remaining, Matches, SeenOnce, ReadPage
<1>5. \A d \in Docs : times'[d] = IF d \in Page THEN 1 ELSE times[d]
  BY <1>4 DEF ReadPage
<1>6. ASSUME NEW d \in owed, times[d] = 0 PROVE d \in Remaining
  BY <1>6 DEF WalkInv, OwedStill, Remaining, TypeOK
<1>7. CASE ~HasMore
  <2>1. Page = Remaining /\ walk'.ended
    <3>1. Cardinality(Remaining) \in Nat
      BY <1>3, FS_Subset, FS_CardinalityType DEF ListingAssumption
    <3> QED BY <1>1, <1>7, <3>1 DEF Page, HasMore, ReadPage, ListingAssumption, TypeOK
  <2>2. ASSUME NEW d \in Docs PROVE SeenOnce(d)'
    BY <1>1, <1>2, <1>4, <1>5, <2>1 DEF SeenOnce, IsThere
  <2>3. ASSUME NEW d \in owed PROVE OwedStill(d)'
    <3>1. times'[d] = 1
      BY <1>1, <1>5, <1>6, <2>1 DEF SeenOnce, TypeOK
    <3> QED BY <1>2, <3>1 DEF WalkInv, OwedStill, Matches, IsThere
  <2> QED BY <1>2, <2>2, <2>3 DEF WalkInv
<1>8. CASE HasMore
  <2>1. PICK last \in Page :
          /\ \A d \in Page : d = last \/ Newer(d, last)
          /\ walk' = [walk EXCEPT !.cursor = At(rows[last].at, last)]
    BY <1>8 DEF ReadPage
  <2>2. /\ ~walk'.ended /\ ~walk.ended
        /\ walk'.cursor = At(rows[last].at, last)
    BY <1>1, <2>1 DEF TypeOK, ReadPage
  <2>3. \A d \in Docs : IsThere(d) => d \in Nat /\ rows[d].at \in Nat
    BY <1>1, RowFacts, ThereIsNotAbsent DEF ListingAssumption, TypeOK
  <2>4. \A d \in Docs : IsAfter(d, walk.cursor)' <=>
          (rows[d].at < rows[last].at \/ (rows[d].at = rows[last].at /\ d < last))
    <3>1. /\ walk'.cursor # Start
          /\ walk'.cursor.at = rows[last].at /\ walk'.cursor.id = last
      BY <2>2 DEF At, Start
    <3>2. rows' = rows
      BY <1>2
    <3> QED BY <3>1, <3>2 DEF IsAfter
  <2>5. IsThere(last) /\ last \in Docs /\ IsAfter(last, walk.cursor)
    BY <1>3 DEF Remaining, Matches
  <2>6. walk.cursor # Start =>
          /\ walk.cursor.at \in Nat /\ walk.cursor.id \in Nat
    BY <1>1 DEF TypeOK, Cursors, At, ListingAssumption
  <2>7. ASSUME NEW d \in Docs PROVE SeenOnce(d)'
    <3>1. CASE d \in Page
      <4>1. IsThere(d) /\ rows[d].tenant = walk.tenant /\ times'[d] = 1
        BY <1>4, <1>5, <3>1
      <4>2. d = last \/ Newer(d, last)
        BY <2>1, <3>1
      <4>3. /\ d \in Nat /\ rows[d].at \in Nat
            /\ last \in Nat /\ rows[last].at \in Nat
        BY <2>3, <2>5, <4>1
      <4>4. ~(rows[d].at < rows[last].at \/ (rows[d].at = rows[last].at /\ d < last))
        BY <4>2, <4>3 DEF Newer
      <4>5. ~IsAfter(d, walk.cursor)'
        BY <2>4, <4>4
      <4> QED BY <1>2, <4>1, <4>5 DEF SeenOnce, IsThere
    <3>2. CASE d \notin Page /\ times[d] = 1
      <4>1. IsThere(d) /\ rows[d].tenant = walk.tenant /\ ~IsAfter(d, walk.cursor)
        BY <1>1, <2>2, <3>2 DEF SeenOnce
      <4>2. /\ d \in Nat /\ rows[d].at \in Nat
            /\ last \in Nat /\ rows[last].at \in Nat
        BY <2>3, <2>5, <4>1
      <4>3. ~(rows[d].at < rows[last].at \/ (rows[d].at = rows[last].at /\ d < last))
        BY <2>5, <2>6, <4>1, <4>2 DEF IsAfter
      <4>4. ~IsAfter(d, walk.cursor)'
        BY <2>4, <4>3
      <4> QED BY <1>2, <1>5, <3>2, <4>1, <4>4 DEF SeenOnce, IsThere
    <3>3. CASE d \notin Page /\ times[d] = 0
      BY <1>5, <3>3 DEF SeenOnce
    <3> QED BY <1>1, <3>1, <3>2, <3>3 DEF SeenOnce
  <2>8. ASSUME NEW d \in owed PROVE OwedStill(d)'
    <3>1. d \in Docs /\ Matches(d, walk.tenant, walk.filter)
      BY <1>1 DEF WalkInv, OwedStill, TypeOK
    <3>2. ASSUME times'[d] = 0 PROVE IsAfter(d, walk.cursor)'
      <4>1. d \in Remaining /\ d \notin Page
        BY <1>5, <1>6, <3>1, <3>2
      <4>2. d # last /\ ~Newer(d, last)
        BY <1>1, <1>8, <4>1, PageIsNewest
      <4>3. /\ d \in Nat /\ rows[d].at \in Nat
            /\ last \in Nat /\ rows[last].at \in Nat
        BY <2>3, <2>5, <3>1 DEF Matches
      <4>4. rows[d].at < rows[last].at \/ (rows[d].at = rows[last].at /\ d < last)
        BY <4>2, <4>3 DEF Newer
      <4> QED BY <2>4, <3>1, <4>4
    <3> QED BY <1>2, <2>2, <3>1, <3>2 DEF OwedStill, Matches, IsThere
  <2> QED BY <1>2, <2>7, <2>8 DEF WalkInv
<1> QED BY <1>7, <1>8

(* Every action keeps the invariant. *)
LEMMA WalkStep == ListingAssumption /\ WalkInv /\ [Next]_vars => WalkInv'
<1> SUFFICES ASSUME ListingAssumption, WalkInv, [Next]_vars PROVE WalkInv'
  OBVIOUS
<1>0. TypeOK /\ TypeOK'
  BY TypeStep DEF WalkInv
<1>1. CASE Tick
  BY <1>0, <1>1 DEF Tick, WalkInv, SeenOnce, OwedStill, Matches, IsThere, IsAfter
<1>2. ASSUME NEW d \in Docs, NEW tenant \in Tenants, OpenUpload(d, tenant) PROVE WalkInv'
  <2>1. ~IsThere(d)
    BY <1>2 DEF OpenUpload, IsThere, Absent
  <2>2. \A e \in Docs \ {d} : rows'[e] = rows[e]
    BY <1>0, <1>2 DEF OpenUpload, TypeOK
  <2>3. UNCHANGED <<walk, times, owed>>
    BY <1>2 DEF OpenUpload
  <2> QED BY <1>0, <2>1, <2>2, <2>3, OtherRow
<1>3. ASSUME NEW d \in Docs, CommitUpload(d) PROVE WalkInv'
  BY <1>0, <1>3, OtherRow DEF CommitUpload, IsThere, TypeOK
<1>4. ASSUME NEW d \in Docs, RollbackUpload(d) PROVE WalkInv'
  BY <1>0, <1>4, OtherRow DEF RollbackUpload, IsThere, TypeOK
<1>5. ASSUME NEW d \in Docs, NEW status \in Statuses, Move(d, status) PROVE WalkInv'
  <2>1. /\ \A e \in Docs : /\ rows'[e].state = rows[e].state
                           /\ IsThere(e) => /\ rows'[e].tenant = rows[e].tenant
                                            /\ rows'[e].at = rows[e].at
        /\ rows'[d].status = status
        /\ \A e \in Docs \ {d} : rows'[e] = rows[e]
        /\ UNCHANGED <<walk, times>>
    <3>1. rows[d] = RowOf(rows[d].state, rows[d].tenant, rows[d].at, rows[d].status)
      BY <1>0, <1>5, RowFacts, ThereIsNotAbsent DEF Move
    <3> QED BY <1>0, <1>5, <3>1 DEF Move, TypeOK, RowOf
  <2>2. ASSUME NEW e \in Docs PROVE SeenOnce(e)'
    BY <2>1 DEF WalkInv, SeenOnce, IsThere, IsAfter
  <2>3. ASSUME NEW e \in owed' PROVE OwedStill(e)'
    <3>1. e \in owed /\ e \in Docs /\ OwedStill(e)
      BY <1>0, <1>5, <2>3 DEF Move, WalkInv, TypeOK
    <3>2. e = d => walk.filter \in {Any, status}
      BY <1>5, <2>3 DEF Move
    <3> QED BY <2>1, <3>1, <3>2 DEF OwedStill, Matches, IsThere, IsAfter
  <2> QED BY <1>0, <2>2, <2>3 DEF WalkInv
<1>6. ASSUME NEW tenant \in Tenants, NEW filter \in Statuses \union {Any},
             StartWalk(tenant, filter)
      PROVE  WalkInv'
  BY <1>0, <1>6 DEF StartWalk, table, WalkInv, SeenOnce, OwedStill, Matches, IsThere, IsAfter
<1>7. CASE ReadPage
  BY <1>0, <1>7, ReadStep
<1>8. CASE UNCHANGED vars
  BY <1>0, <1>8 DEF vars, table, WalkInv, SeenOnce, OwedStill, Matches, IsThere, IsAfter
<1> QED BY <1>1, <1>2, <1>3, <1>4, <1>5, <1>6, <1>7, <1>8 DEF Next

-----------------------------------------------------------------------------
(* The inductive invariant holds in every reachable state. *)
THEOREM WalkInvariant == Spec => []WalkInv
<1>1. Init => WalkInv
  BY InitWalkInv, ListingAssumption
<1>2. WalkInv /\ [Next]_vars => WalkInv'
  BY WalkStep, ListingAssumption
<1> QED BY <1>1, <1>2, PTL DEF Spec

(* Every variable stays in its type. *)
THEOREM ListingTypeCorrect == Spec => []TypeOK
<1>1. WalkInv => TypeOK
  BY DEF WalkInv
<1> QED BY <1>1, WalkInvariant, PTL

(* A listing shows its caller's documents only: the tenant filter is in every
   query of the walk, and rows do not change tenant. *)
THEOREM ListingIsTenants == Spec => []OwnDocumentsOnly
<1>1. WalkInv => OwnDocumentsOnly
  BY DEF WalkInv, SeenOnce, OwnDocumentsOnly
<1> QED BY <1>1, WalkInvariant, PTL

(* No page repeats a document. *)
THEOREM ListingNeverRepeats == Spec => []NothingRepeated
<1>1. WalkInv => NothingRepeated
  BY DEF WalkInv, SeenOnce, NothingRepeated
<1> QED BY <1>1, WalkInvariant, PTL

(* A listing that ended returned all it owed, for every page size and however
   many documents share a time. *)
THEOREM ListingNeverSkips == Spec => []NothingSkipped
<1>1. WalkInv => NothingSkipped
  BY DEF WalkInv, TypeOK, SeenOnce, OwedStill, NothingSkipped
<1> QED BY <1>1, WalkInvariant, PTL
=============================================================================
