-------------------------------- MODULE Listing --------------------------------
(***************************************************************************)
(* The lists every module answers: a page of the rows that are not deleted and *)
(* match the search and the filters, and a count of them, read by two          *)
(* statements at the same time, and a client that follows hasNextPage to the    *)
(* end.  ORDER BY names one column, so rows that are equal in it come in any    *)
(* order, in each statement anew.                                            *)
(***************************************************************************)
EXTENDS Integers, FiniteSets

CONSTANTS
  MaxListed,  \* bound: rows of the table
  RawLimits   \* what ?limit is parsed to, 0 standing for no number

ASSUME ListingAssumption == MaxListed \in Nat /\ RawLimits \subseteq Int

VARIABLES
  listed,   \* the rows: the column sorted by, and whether the WHERE clause keeps them
  walk,     \* the client
  unique,   \* the column sorted by holds no value twice
  ordered,  \* ORDER BY names a column
  touched   \* history: a row was written during the walk

listVars == <<listed, walk, unique, ordered, touched>>

-----------------------------------------------------------------------------
(* utils/order.ts and the sortable columns of the repositories               *)

Sortable(columns, default) == [columns |-> columns, default |-> default]

academicSessionList == Sortable({"name", "start_date", "end_date", "created_at"}, "created_at")
studentAttendanceList == Sortable({"attendance_date", "created_at"}, "attendance_date")
classList == Sortable({"name", "created_at"}, "created_at")
errorLogList == Sortable({"created_at", "status_code"}, "created_at")
examResultList == Sortable({"marks", "created_at"}, "created_at")
examList == Sortable({"name", "exam_date", "created_at"}, "exam_date")
permissionList == Sortable({"name!", "created_at"}, "created_at")
roleList == Sortable({"name!", "created_at"}, "created_at")
sectionList == Sortable({"name", "max_capacity", "created_at"}, "created_at")
studentEnrollmentList == Sortable({"roll_number", "created_at"}, "created_at")
studentList == Sortable({"full_name", "student_code!", "created_at"}, "created_at")
subjectAssignmentList == Sortable({"created_at"}, "created_at")
subjectList == Sortable({"name", "code", "created_at"}, "name")
teacherList == Sortable({"full_name", "joining_date", "created_at"}, "created_at")
uploadList == Sortable({"created_at", "file_size", "original_name", "category"}, "created_at")
userList == Sortable({"full_name", "email!", "created_at"}, "created_at")

Lists ==
  {academicSessionList, studentAttendanceList, classList, errorLogList, examResultList,
   examList, permissionList, roleList, sectionList, studentEnrollmentList, studentList,
   subjectAssignmentList, subjectList, teacherList, uploadList, userList}

\* Columns with a UNIQUE and a NOT NULL constraint are written with a mark.
UniqueColumns == {"name!", "student_code!", "email!"}

AnyColumn == UNION {l.columns : l \in Lists}

\* What every JavaScript object has; the lookup in allowedFields finds it as well.
Inherited == {"constructor"}

BuildOrder(l, asked) == IF asked \in l.columns \cup Inherited THEN asked ELSE l.default

-----------------------------------------------------------------------------
(* utils/pagination.ts                                                       *)

\* parseInt(...) || 20, then between 1 and 100
GetLimit(raw) ==
  LET n == IF raw = 0 THEN 20 ELSE raw
      m == IF n >= 1 THEN n ELSE 1
  IN  IF m <= 100 THEN m ELSE 100

\* Mutated GetOffset: pages counted from 0.
GetOffsetZero(page, limit) == page * limit

GetOffset(page, limit) == (page - 1) * limit

TotalPages(total, limit) == (total + limit - 1) \div limit

HasNextPage(total, page, limit) == page * limit < total

-----------------------------------------------------------------------------
Rows == 1..MaxListed

Kept == {i \in Rows : listed[i].kept}

\* The orders a statement may answer in: sorted by the column, ties anyhow.
Orders ==
  {o \in [1..Cardinality(Kept) -> Kept] :
     /\ \A i, j \in DOMAIN o : i # j => o[i] # o[j]
     /\ \A i, j \in DOMAIN o : i < j => listed[o[i]].key >= listed[o[j]].key}

NewWalk(limit) ==
  [pc |-> "page", page |-> 1, limit |-> limit, got |-> {}, listed |-> FALSE, total |-> -1,
   seen |-> [i \in Rows |-> 0]]

ListInit ==
  /\ \E l \in Lists, asked \in AnyColumn \cup Inherited \cup {"other"} :
       /\ unique = (BuildOrder(l, asked) \in UniqueColumns)
       /\ ordered = (BuildOrder(l, asked) \in l.columns)
  /\ listed \in [Rows -> [key: Rows, kept: BOOLEAN]]
  /\ unique => \A i, j \in Rows : i # j => listed[i].key # listed[j].key
  /\ \E raw \in RawLimits : walk = NewWalk(GetLimit(raw))
  /\ touched = FALSE

\* findAll
FindAll ==
  LET from == GetOffset(walk.page, walk.limit) IN
  /\ walk.pc = "page" /\ ~ walk.listed /\ ordered
  /\ \E o \in Orders :
       walk' = [walk EXCEPT
                  !.listed = TRUE,
                  !.got = {o[i] : i \in {j \in DOMAIN o : from < j /\ j <= from + walk.limit}}]
  /\ UNCHANGED <<listed, unique, ordered, touched>>

\* ORDER BY a text that is no column: a syntax error, answered with 500.
FindAllFails ==
  /\ walk.pc = "page" /\ ~ ordered
  /\ walk' = [walk EXCEPT !.pc = "failed"]
  /\ UNCHANGED <<listed, unique, ordered, touched>>

\* countAll, with the same WHERE clause
CountAll ==
  /\ walk.pc = "page" /\ walk.total = -1
  /\ walk' = [walk EXCEPT !.total = Cardinality(Kept)]
  /\ UNCHANGED <<listed, unique, ordered, touched>>

\* buildMeta, and the client's next request.
FollowPage ==
  LET more == HasNextPage(walk.total, walk.page, walk.limit) IN
  /\ walk.pc = "page" /\ walk.listed /\ walk.total # -1
  /\ walk' = [pc |-> IF more THEN "page" ELSE "done",
              page |-> IF more THEN walk.page + 1 ELSE walk.page,
              limit |-> walk.limit, got |-> {}, listed |-> FALSE, total |-> -1,
              seen |-> [i \in Rows |-> walk.seen[i] + IF i \in walk.got THEN 1 ELSE 0]]
  /\ UNCHANGED <<listed, unique, ordered, touched>>

\* Another request inserts a row, or deletes one (or stops it from matching).
InsertListed ==
  /\ walk.pc = "page"
  /\ \E i \in Rows \ Kept :
       /\ \E k \in Rows :
            /\ unique => \A j \in Rows \ {i} : listed[j].key # k
            /\ listed' = [listed EXCEPT ![i] = [key |-> k, kept |-> TRUE]]
  /\ touched' = TRUE
  /\ UNCHANGED <<walk, unique, ordered>>

DeleteListed ==
  /\ walk.pc = "page"
  /\ \E i \in Kept : listed' = [listed EXCEPT ![i] = [@ EXCEPT !.kept = FALSE]]
  /\ touched' = TRUE
  /\ UNCHANGED <<walk, unique, ordered>>

ListNext == FindAll \/ FindAllFails \/ CountAll \/ FollowPage \/ InsertListed \/ DeleteListed

ListSpec == ListInit /\ [][ListNext]_listVars

-----------------------------------------------------------------------------
(* Properties                                                              *)

SeenSum == Cardinality({x \in Rows \X (1..(MaxListed + 1)) : x[2] <= walk.seen[x[1]]})

\* Type invariant.
ListTypeOK ==
  /\ listed \in [Rows -> [key: Rows, kept: BOOLEAN]]
  /\ walk.pc \in {"page", "done", "failed"}
  /\ walk.page \in 1..(MaxListed + 1) /\ walk.limit \in 1..100
  /\ walk.got \subseteq Rows /\ walk.total \in -1..MaxListed
  /\ \A i \in Rows : walk.seen[i] \in 0..(MaxListed + 1)
  /\ unique \in BOOLEAN /\ ordered \in BOOLEAN /\ touched \in BOOLEAN

\* A client that follows hasNextPage over a table nobody writes is given as many
\* rows as there are, and every row exactly once when it sorts by a unique column,
\* whatever limit it asks for (pagination.ts:10, order.ts:11).
WalkComplete ==
  walk.pc = "done" /\ ~ touched =>
    /\ SeenSum = Cardinality(Kept)
    /\ unique => \A i \in Rows : walk.seen[i] = IF i \in Kept THEN 1 ELSE 0

-----------------------------------------------------------------------------
(* What a client would expect and the code does not give                    *)

\* Rows that are equal in the column sorted by (created_at within one transaction,
\* a name, a date) may come twice or never: no ORDER BY has a tie-breaker.
EveryRowOnce ==
  walk.pc = "done" /\ ~ touched => \A i \in Kept : walk.seen[i] = 1
=============================================================================
