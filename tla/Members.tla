------------------------------- MODULE Members ------------------------------
(* The people of a project as an administrator sees them: the table, which   *)
(* is loaded page by page while he scrolls (rest/profile.py), and the file   *)
(* they are exported to (rest/project_profiles.py), both made from           *)
(* get_project_members with a filter, while people join and leave, are       *)
(* renamed and grouped for merging.                                          *)
EXTENDS Naturals, FiniteSets

CONSTANTS
  People,        \* their keys
  Projects,
  Ours,          \* the project that is selected
  FullNames,     \* values of un_sort, in their order
  States,        \* values of a field of the member's row
  PageSize,      \* 30 in the code
  MaxChanges     \* bound

ASSUME MembersAssumption ==
  /\ People \subseteq Nat \ {0} /\ FullNames \subseteq Nat /\ IsFiniteSet(People)
  /\ Ours \in Projects /\ PageSize \in Nat \ {0} /\ MaxChanges \in Nat

VARIABLES
  member,     \* the rows of members: project, profile
  state,      \* the field of each row
  name,       \* un_sort of each profile
  gone,       \* profiles whose delete_at has passed
  grouped,    \* the people in groups the administrator made for merging
  table,      \* the table of the page: rows loaded so far, those loaded twice
  file,       \* the export: its dialog, then what was downloaded
  fit,        \* history: who fitted the filter when the table was opened
  touched,    \* history: to whom something happened since
  renamed,    \* history: who was renamed since
  changes

membersVars == <<member, state, name, gone, grouped, table, file, fit, touched, renamed, changes>>

NoFilter == <<"none", 0>>
Filters == {NoFilter} \union ({"full_name"} \X FullNames) \union ({"state"} \X States)

Closed == [open |-> FALSE, filter |-> NoFilter, hide |-> FALSE, rows |-> {}, twice |-> {},
           cursor |-> <<0, 0>>, end |-> FALSE]

NoFile == [step |-> "none", filter |-> NoFilter, rows |-> {}]

-----------------------------------------------------------------------------
(* What the server answers *)

\* get_project_members: hide is the parameter remove-merge-users.
ProjectMembers(hide) ==
  {p \in People : <<Ours, p>> \in member /\ p \notin gone /\ (hide => p \notin grouped)}

\* A filter for the state joins the rows of members once more, and so finds
\* the state a person has in any project.
HasState(p, s) == \E q \in Projects : <<q, p>> \in member /\ state[<<q, p>>] = s

\* ProjectProfilesViewSet.filter_queryset_field with that of its base
TableFilter(S, f) ==
  CASE f[1] = "full_name" -> {p \in S : name[p] = f[2]}
    [] f[1] = "state" -> {p \in S : HasState(p, f[2])}
    [] OTHER -> S

\* Mutant: the profile has no field of this name.
ProfileFilter(S, f) == IF f[1] = "full_name" THEN {p \in S : name[p] = f[2]} ELSE S

\* filter_project_members_fields: a field that a profile does not have and a
\* value that cannot be read leave all.
ExportFilter(S, f) ==
  CASE f[1] = "full_name" -> {p \in S : name[p] = f[2]}
    [] f[1] = "state" -> {p \in S : HasState(p, f[2])}
    [] OTHER -> S

Before(p, q) == name[p] < name[q] \/ (name[p] = name[q] /\ p < q)

\* Mutant: the rows are ordered by their names alone.
AfterName(p, c) == name[p] > c[1]

\* The rows after a cursor, by ["un_sort", "id"], and the first page of them
After(p, c) == name[p] > c[1] \/ (name[p] = c[1] /\ p > c[2])

Page(left) == {p \in left : Cardinality({q \in left : Before(q, p)}) < PageSize}

-----------------------------------------------------------------------------
MembersInit ==
  /\ member \in SUBSET (Projects \X People) /\ state \in [Projects \X People -> States]
  /\ name \in [People -> FullNames] /\ gone = {} /\ grouped = {}
  /\ table = Closed /\ file = NoFile
  /\ fit = {} /\ touched = {} /\ renamed = {} /\ changes = 0

\* The table is opened or reloaded; it may hide those who wait to be merged
\* (merge-users.vue).
OpenTable(f, h) ==
  /\ table' = [Closed EXCEPT !.open = TRUE, !.filter = f, !.hide = h] /\ file' = NoFile
  /\ fit' = TableFilter(ProjectMembers(h), f) /\ touched' = {} /\ renamed' = {}
  /\ UNCHANGED <<member, state, name, gone, grouped, changes>>

\* Its user scrolls to the end of what was loaded.
Scroll ==
  /\ table.open /\ ~table.end
  /\ LET left == {p \in TableFilter(ProjectMembers(table.hide), table.filter) : After(p, table.cursor)}
         page == Page(left)
     IN table' = [table EXCEPT
          !.rows = @ \union page, !.twice = @ \union (page \intersect table.rows),
          !.cursor = IF page = {} THEN @
                     ELSE LET last == CHOOSE p \in page : \A q \in page : ~Before(p, q)
                          IN  <<name[last], last>>,
          !.end = (page = left)]
  /\ UNCHANGED <<member, state, name, gone, grouped, file, fit, touched, renamed, changes>>

\* ProfileExportViewSet.new_object: the dialog keeps the filter of the table.
OpenExport ==
  /\ table.open /\ file.step = "none"
  /\ file' = [NoFile EXCEPT !.step = "dialog", !.filter = table.filter]
  /\ UNCHANGED <<member, state, name, gone, grouped, table, fit, touched, renamed, changes>>

\* download, a POST, has no parameter remove-merge-users.
Download ==
  /\ file.step = "dialog"
  /\ file' = [file EXCEPT !.step = "done", !.rows = ExportFilter(ProjectMembers(FALSE), file.filter)]
  /\ UNCHANGED <<member, state, name, gone, grouped, table, fit, touched, renamed, changes>>

-----------------------------------------------------------------------------
(* What others do meanwhile *)

Change(p) ==
  /\ changes < MaxChanges /\ changes' = changes + 1 /\ table.open
  /\ touched' = touched \union {p}
  /\ UNCHANGED <<table, file, fit>>

Join(p, q) ==
  /\ <<q, p>> \notin member /\ Change(p)
  /\ member' = member \union {<<q, p>>}
  /\ UNCHANGED <<state, name, gone, grouped, renamed>>

Leave(p, q) ==
  /\ <<q, p>> \in member /\ Change(p)
  /\ member' = member \ {<<q, p>>}
  /\ UNCHANGED <<state, name, gone, grouped, renamed>>

EditState(p, q, s) ==
  /\ <<q, p>> \in member /\ state[<<q, p>>] # s /\ Change(p)
  /\ state' = [state EXCEPT ![<<q, p>>] = s]
  /\ UNCHANGED <<member, name, gone, grouped, renamed>>

Rename(p, n) ==
  /\ n # name[p] /\ Change(p)
  /\ name' = [name EXCEPT ![p] = n] /\ renamed' = renamed \union {p}
  /\ UNCHANGED <<member, state, gone, grouped>>

\* delete_at passes; whoever restores his profile clears it.
ExpireMember(p) ==
  /\ Change(p)
  /\ gone' = IF p \in gone THEN gone \ {p} ELSE gone \union {p}
  /\ UNCHANGED <<member, state, name, grouped, renamed>>

\* The administrator's groups are made and dissolved.
Group(p) ==
  /\ Change(p)
  /\ grouped' = IF p \in grouped THEN grouped \ {p} ELSE grouped \union {p}
  /\ UNCHANGED <<member, state, name, gone, renamed>>

MembersNext ==
  \/ \E f \in Filters, h \in BOOLEAN : OpenTable(f, h)
  \/ Scroll \/ OpenExport \/ Download
  \/ \E p \in People :
       \/ \E q \in Projects : Join(p, q) \/ Leave(p, q) \/ \E s \in States : EditState(p, q, s)
       \/ \E n \in FullNames : Rename(p, n)
       \/ ExpireMember(p) \/ Group(p)

MembersSpec == MembersInit /\ [][MembersNext]_membersVars

-----------------------------------------------------------------------------
(* Properties *)

MembersTypeOK ==
  /\ name \in [People -> FullNames]
  /\ table \in [open : BOOLEAN, filter : Filters, hide : BOOLEAN, rows : SUBSET People,
                twice : SUBSET People, cursor : Nat \X Nat, end : BOOLEAN]
  /\ file \in [step : {"none", "dialog", "done"}, filter : Filters, rows : SUBSET People]
  /\ fit \subseteq People /\ touched \subseteq People /\ renamed \subseteq touched

\* Whoever fits the filter while the table is read to its end is in it, also
\* when others of the same name are around the end of a page, and people join,
\* leave and change their names between two pages.  Nobody is in it twice who
\* kept his name, and nobody who never fitted.
EachInTheTableOnce ==
  /\ table.end => fit \ touched \subseteq table.rows
  /\ table.rows \subseteq fit \union touched
  /\ table.twice \subseteq renamed

\* A file exported from the table has the people of the table, but for those
\* to whom something happened meanwhile; a table that hides people for merging
\* has no more of them than its file.
FileHasTheTable ==
  table.end /\ file.step = "done" =>
    /\ table.rows \ touched \subseteq file.rows
    /\ ~table.hide => file.rows \ touched \subseteq table.rows

\* The table and its file leave out nobody and show nobody too often.
TableIsRight == EachInTheTableOnce /\ FileHasTheTable
=============================================================================
