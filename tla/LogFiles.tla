------------------------------ MODULE LogFiles ------------------------------
(* The numbered log files of the profiling middleware (_do_profile): every   *)
(* request lists them, rotates them when there are four, and writes its      *)
(* record.  Nothing keeps the requests of several processes apart, which     *)
(* interleave at every operation on a file.                                  *)
EXTENDS Naturals, Sequences, FiniteSets, FiniteSetsExt

CONSTANTS
  Writers,      \* the requests that write a record
  Full,         \* records that fill a file
  OldRecord     \* a record from before

ASSUME LogFilesAssumption == Full \in Nat \ {0} /\ OldRecord \notin Writers

VARIABLES
  files,    \* /tmp/wsgi_performance.txt.<n>: n -> the records in it
  saw,      \* the greatest number a request saw, 0 before
  todo,     \* the operations its rotation has left
  written,  \* who is done
  logged,   \* the requests in the order their records were written
  crossed   \* between its list and its write a request was passed by a rotation
            \* or by a newer file

logVars == <<files, saw, todo, written, logged, crossed>>

Numbers == DOMAIN files

WriteTo(r, n) ==
  /\ files' = [k \in Numbers \union {n} |->
                 (IF k \in Numbers THEN files[k] ELSE {}) \union (IF k = n THEN {r} ELSE {})]
  /\ logged' = Append(logged, r)

Removal(S) == [op |-> "remove", from |-> S, to |-> 0]
Renaming(n, to) == [op |-> "rename", from |-> {n}, to |-> to]

\* Mutant: the others go before the second newest is renamed.
RotationEarly(max) ==
  <<Removal({1}), Removal({2}), Renaming(max, 1), Removal(Numbers \ {1, 2}), Renaming(max - 1, 2)>>

\* 1 and 2 go, the two newest take their places, the others go.
Rotation(max) ==
  <<Removal({1}), Removal({2}), Renaming(max, 1), Renaming(max - 1, 2), Removal(Numbers \ {1, 2})>>

InUse(r) == saw[r] # 0 /\ r \notin written

\* glob; without files the record is written here, and once more by WriteRecord.
ListFiles(r) ==
  /\ saw[r] = 0
  /\ LET max == Max(Numbers \union {1})
         others == {s \in Writers \ {r} : InUse(s)}
     IN /\ saw' = [saw EXCEPT ![r] = max]
        /\ todo' = [todo EXCEPT ![r] = IF max > 3 THEN Rotation(max) ELSE <<>>]
        /\ crossed' = (crossed \/ IF max > 3 THEN others # {} ELSE \E s \in others : todo[s] # <<>>)
  /\ IF Numbers = {} THEN WriteTo(r, 1) ELSE UNCHANGED <<files, logged>>
  /\ UNCHANGED written

\* The rename of a file that is gone raises, and the record is lost.
Raises(do) == do.op = "rename" /\ ~(do.from \subseteq Numbers)

Rotate(r) ==
  /\ InUse(r) /\ todo[r] # <<>>
  /\ LET do == Head(todo[r])
     IN /\ files' = CASE do.op = "remove" -> [n \in Numbers \ do.from |-> files[n]]
                      [] Raises(do) -> files
                      [] OTHER -> [n \in (Numbers \ do.from) \union {do.to} |->
                                     IF n = do.to THEN UNION {files[k] : k \in do.from} ELSE files[n]]
        /\ written' = IF Raises(do) THEN written \union {r} ELSE written
  /\ todo' = [todo EXCEPT ![r] = Tail(@)]
  /\ UNCHANGED <<saw, logged, crossed>>

\* The size of the file that was the greatest: after a rotation it is gone, and
\* the record is lost.
WriteRecord(r) ==
  /\ InUse(r) /\ todo[r] = <<>>
  /\ LET max == saw[r]
     IN /\ CASE Numbers = {} -> WriteTo(r, 1)
            [] Numbers # {} /\ max \notin Numbers -> UNCHANGED <<files, logged>>
            [] OTHER -> WriteTo(r, IF Cardinality(files[max]) >= Full THEN max + 1 ELSE max)
        /\ crossed' = (crossed \/ \E n \in Numbers : n > max)
  /\ written' = written \union {r}
  /\ UNCHANGED <<saw, todo>>

LogInit ==
  /\ \E n \in 0..4 : files = [k \in 1..n |-> {OldRecord}]
  /\ saw = [r \in Writers |-> 0] /\ todo = [r \in Writers |-> <<>>]
  /\ written = {} /\ logged = <<>> /\ crossed = FALSE

LogNext == \E r \in Writers : ListFiles(r) \/ Rotate(r) \/ WriteRecord(r)

-----------------------------------------------------------------------------
(* As long as no rotation runs beside another request and no one writes      *)
(* behind a newer file, the two records written last are in the files.       *)
NewestSurvive ==
  ~crossed => \A i \in DOMAIN logged : i > Len(logged) - 2 => \E n \in Numbers : logged[i] \in files[n]

=============================================================================
