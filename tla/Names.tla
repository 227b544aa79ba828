--------------------------------- MODULE Names ---------------------------------
(***************************************************************************)
(* Names that only one live row is to have.  Every service looks for the name *)
(* and inserts or renames in a later statement; only some tables have a       *)
(* UNIQUE constraint as well, and that one counts deleted rows.  One table at  *)
(* a time; a section is named within its class.                              *)
(***************************************************************************)
EXTENDS Handlers, Sequences

CONSTANTS
  NameSet,
  MaxNamed  \* bound: rows of the table

ASSUME NamesAssumption == MaxNamed \in Nat /\ NameSet # {}

VARIABLES
  kind,        \* the table, chosen once
  named,       \* its rows
  naming,      \* what each request does next
  nameOverlap  \* history: two requests have been in flight together

nameVars == <<kind, named, naming, nameOverlap>>

-----------------------------------------------------------------------------
\* The tables, and whether the name has a UNIQUE constraint.
Unique ==
  [class |-> FALSE, session |-> FALSE, section |-> FALSE, subject |-> FALSE,
   subject_code |-> TRUE, role |-> TRUE, permission |-> TRUE]

NamedRow == [name: NameSet, deleted: BOOLEAN]

Naming == [pc: {"idle", "insert", "rename"}, name: NameSet, row: Nat]

NoNaming == [pc |-> "idle", name |-> CHOOSE n \in NameSet : TRUE, row |-> 0]

\* findByName: deleted_at IS NULL
LiveNamed(n) == {i \in DOMAIN named : named[i].name = n /\ ~ named[i].deleted}

\* What the constraint compares with.
AnyNamed(n) == {i \in DOMAIN named : named[i].name = n}

NameInit ==
  /\ kind \in DOMAIN Unique
  /\ named = <<>>
  /\ naming = [r \in Requests |-> NoNaming]
  /\ nameOverlap = FALSE

NameCall(r, pc, n, row) ==
  /\ naming[r].pc = "idle"
  /\ naming' = [naming EXCEPT ![r] = [pc |-> pc, name |-> n, row |-> row]]
  /\ nameOverlap' = (nameOverlap \/ Meets(naming, r))
  /\ UNCHANGED <<kind, named>>

NameEnd(r) == naming' = [naming EXCEPT ![r] = NoNaming]

-----------------------------------------------------------------------------
(* The services                                                            *)

CreateNamed(r, n) == LiveNamed(n) = {} /\ NameCall(r, "insert", n, 0)

UpdateNamed(r, i, n) ==
  /\ ~ named[i].deleted
  /\ LiveNamed(n) \subseteq {i}
  /\ NameCall(r, "rename", n, i)

ClassCreate(r, n)      == kind = "class" /\ CreateNamed(r, n)
SessionCreate(r, n)    == kind = "session" /\ CreateNamed(r, n)
SectionCreate(r, n)    == kind = "section" /\ CreateNamed(r, n)
SubjectCreate(r, n)    == kind \in {"subject", "subject_code"} /\ CreateNamed(r, n)
RoleCreate(r, n)       == kind = "role" /\ CreateNamed(r, n)
PermissionCreate(r, n) == kind = "permission" /\ CreateNamed(r, n)

\* Mutated ClassUpdate: any name will do.
ClassUpdateAny(r, i, n) == kind = "class" /\ ~ named[i].deleted /\ NameCall(r, "rename", n, i)

ClassUpdate(r, i, n)      == kind = "class" /\ UpdateNamed(r, i, n)
SessionUpdate(r, i, n)    == kind = "session" /\ UpdateNamed(r, i, n)
SectionUpdate(r, i, n)    == kind = "section" /\ UpdateNamed(r, i, n)
SubjectUpdate(r, i, n)    == kind \in {"subject", "subject_code"} /\ UpdateNamed(r, i, n)
RoleUpdate(r, i, n)       == kind = "role" /\ UpdateNamed(r, i, n)
PermissionUpdate(r, i, n) == kind = "permission" /\ UpdateNamed(r, i, n)

\* The INSERT; a violated constraint is answered with 409.
InsertNamed(r) ==
  LET n == naming[r].name IN
  /\ naming[r].pc = "insert"
  /\ Len(named) < MaxNamed
  /\ NameEnd(r)
  /\ IF Unique[kind] /\ AnyNamed(n) # {}
     THEN UNCHANGED named
     ELSE named' = Append(named, [name |-> n, deleted |-> FALSE])
  /\ UNCHANGED <<kind, nameOverlap>>

\* UPDATE ... WHERE deleted_at IS NULL
RenameRow(r) ==
  LET n == naming[r].name
      i == naming[r].row IN
  /\ naming[r].pc = "rename"
  /\ NameEnd(r)
  /\ IF named[i].deleted \/ (Unique[kind] /\ ~ (AnyNamed(n) \subseteq {i}))
     THEN UNCHANGED named
     ELSE named' = [named EXCEPT ![i] = [@ EXCEPT !.name = n]]
  /\ UNCHANGED <<kind, nameOverlap>>

\* softDelete: the name stays in the row.
DeleteNamed(i) ==
  /\ ~ named[i].deleted
  /\ named' = [named EXCEPT ![i] = [@ EXCEPT !.deleted = TRUE]]
  /\ UNCHANGED <<kind, naming, nameOverlap>>

NamingAborts(r) ==
  /\ naming[r].pc # "idle"
  /\ NameEnd(r)
  /\ UNCHANGED <<kind, named, nameOverlap>>

NameNext ==
  \/ \E r \in Requests :
       \/ \E n \in NameSet :
            \/ ClassCreate(r, n) \/ SessionCreate(r, n) \/ SectionCreate(r, n)
            \/ SubjectCreate(r, n) \/ RoleCreate(r, n) \/ PermissionCreate(r, n)
            \/ \E i \in DOMAIN named :
                 \/ ClassUpdate(r, i, n) \/ SessionUpdate(r, i, n) \/ SectionUpdate(r, i, n)
                 \/ SubjectUpdate(r, i, n) \/ RoleUpdate(r, i, n) \/ PermissionUpdate(r, i, n)
       \/ InsertNamed(r) \/ RenameRow(r) \/ NamingAborts(r)
  \/ \E i \in DOMAIN named : DeleteNamed(i)

NameSpec == NameInit /\ [][NameNext]_nameVars

-----------------------------------------------------------------------------
(* Properties                                                              *)

\* Type invariant.
NameTypeOK ==
  /\ kind \in DOMAIN Unique
  /\ named \in Seq(NamedRow)
  /\ naming \in [Requests -> Naming]
  /\ nameOverlap \in BOOLEAN
  /\ \A r \in Requests : naming[r].pc = "rename" => naming[r].row \in DOMAIN named

\* A name is that of at most one live row, where the table has the constraint or
\* requests come one at a time, and of no more rows than there are requests in
\* flight otherwise, however often rows are renamed and deleted
\* (class.service.ts:16, section.service.ts:57).
NamesApart ==
  \A n \in NameSet :
    Cardinality(LiveNamed(n)) <=
      IF Unique[kind] \/ ~ nameOverlap THEN 1 ELSE Cardinality(Requests)

-----------------------------------------------------------------------------
(* What the documentation of the code says and the code does not keep       *)

\* "already exists" (subject.service.ts:28) is said of live rows only: the name of
\* a deleted role, permission or subject code is refused by the constraint.
FreeNamesInsert ==
  [][\A r \in Requests :
       naming[r].pc = "insert" /\ naming'[r].pc = "idle" /\ LiveNamed(naming[r].name) = {}
         => named' # named]_nameVars
=============================================================================
