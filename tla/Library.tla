------------------------------ MODULE Library ------------------------------
(***************************************************************************)
(* perplab.strategy.library with the part of perplab.store.runs that refers *)
(* to it: strategies, their immutable versions and the runs of a version.   *)
(* Every operation of the library runs under its lock and in a transaction  *)
(* of its connection; the run store has a connection of its own, so a run's *)
(* row comes between what the library checked and what it did.  Row ids are *)
(* SQLite's: one more than the largest in use, so the id of a deleted row   *)
(* is given again.  Names are numbered in the order an import tries them;   *)
(* notes, tags, timestamps and the archive mark of a strategy, which only   *)
(* select what lists show, are left out, and refused requests are no steps. *)
(***************************************************************************)
EXTENDS Naturals, FiniteSets, FiniteSetsExt, Functions

CONSTANTS Editor,         \* the API's request threads
          Name,           \* 1 .. n: an import tries the next one
          Code, Invalid,  \* the codes, and those that failed validation
          Message,
          MaxStrategies, MaxVersions, MaxRows   \* bounds

VARIABLES strategies,  \* id |-> its name and head version
          versions,    \* id |-> the strategy it is of, its number, code and message
          runs,        \* id |-> its strategy and version, the code in its spec, its marks
          doing        \* what each editor is in the middle of

library_vars == <<strategies, versions, runs, doing>>

NotBusy == [at |-> "idle"]
Free == \A c \in Editor : doing[c].at # "deleting"   \* the library's lock
Turn(c) == doing[c] = NotBusy

LibraryInit ==
    /\ strategies = <<>> /\ versions = <<>> /\ runs = <<>>
    /\ doing = [c \in Editor |-> NotBusy]

NewId(table) == IF DOMAIN table = {} THEN 1 ELSE Max(DOMAIN table) + 1
With(table, id, row) == [i \in DOMAIN table \cup {id} |-> IF i = id THEN row ELSE table[i]]
VersionsOf(s) == {v \in DOMAIN versions : versions[v].of = s}
RunsOf(s)     == {r \in DOMAIN runs : runs[r].of = s}
Taken         == {strategies[s].name : s \in DOMAIN strategies}
Room          == NewId(versions) <= MaxVersions

\* Mutant: a version is numbered by how many there are in the table.
InsertVersion_Counted(s, name, code, message) ==
    LET v == NewId(versions) IN
        /\ versions' = With(versions, v, [of |-> s, no |-> Cardinality(DOMAIN versions) + 1,
                                          code |-> code, message |-> message])
        /\ strategies' = With(strategies, s, [name |-> name, head |-> v])

\* The next number, the row, and the strategy's head moved to it.
InsertVersion(s, name, code, message) ==
    LET v  == NewId(versions)
        no == IF VersionsOf(s) = {} THEN 1 ELSE Max({versions[w].no : w \in VersionsOf(s)}) + 1
    IN  /\ versions' = With(versions, v, [of |-> s, no |-> no, code |-> code, message |-> message])
        /\ strategies' = With(strategies, s, [name |-> name, head |-> v])

Stored(name, code) ==
    /\ name \notin Taken
    /\ Room /\ NewId(strategies) <= MaxStrategies
    /\ InsertVersion(NewId(strategies), name, code, "created")

CreateStrategy(c, name, code) == Free /\ Turn(c) /\ Stored(name, code) /\ UNCHANGED <<runs, doing>>

\* Unless the code is the head's, and so is the message or there is none.
Save(c, s, code, message) ==
    /\ Free /\ Turn(c) /\ Room
    /\ LET head == versions[strategies[s].head] IN code # head.code \/ message \notin {"", head.message}
    /\ InsertVersion(s, strategies[s].name, code, message)
    /\ UNCHANGED <<runs, doing>>

Rename(c, s, name) ==
    /\ Free /\ Turn(c)
    /\ \A t \in DOMAIN strategies \ {s} : strategies[t].name # name
    /\ strategies' = [strategies EXCEPT ![s].name = name]
    /\ UNCHANGED <<versions, runs, doing>>

-----------------------------------------------------------------------------
(* An import looks for an unused name under the lock, and creates under it  *)
(* again: the name may be taken by then, and the import is refused.         *)

UniqueName(c, name, code) ==
    /\ Free /\ Turn(c)
    /\ \E n \in Name \ Taken :
           /\ n >= name /\ \A m \in name .. n - 1 : m \in Taken
           /\ doing' = [doing EXCEPT ![c] = [at |-> "storing", name |-> n, code |-> code]]
    /\ UNCHANGED <<strategies, versions, runs>>

StoreImported(c) ==
    /\ doing[c].at = "storing" /\ Free
    /\ doing' = [doing EXCEPT ![c] = NotBusy]
    /\ \/ Stored(doing[c].name, doing[c].code)
       \/ doing[c].name \in Taken /\ UNCHANGED <<strategies, versions>>
    /\ UNCHANGED runs

-----------------------------------------------------------------------------
(* A delete counts the runs that are not archived, then removes the rows in *)
(* one transaction, with the lock held throughout.                          *)

BeginDelete(c, s) ==
    /\ Free /\ Turn(c)
    /\ \A r \in RunsOf(s) : runs[r].archived
    /\ doing' = [doing EXCEPT ![c] = [at |-> "deleting", of |-> s]]
    /\ UNCHANGED <<strategies, versions, runs>>

\* Whoever has read the strategy holds what is no more, which `stale` marks.  The
\* foreign keys undo it all when another strategy's run names one of the versions.
DeleteStrategy(c) ==
    /\ doing[c].at = "deleting"
    /\ LET s == doing[c].of IN
           \/ /\ \A r \in DOMAIN runs \ RunsOf(s) : runs[r].version \notin VersionsOf(s)
              /\ runs' = Restrict(runs, DOMAIN runs \ RunsOf(s))
              /\ versions' = Restrict(versions, DOMAIN versions \ VersionsOf(s))
              /\ strategies' = Restrict(strategies, DOMAIN strategies \ {s})
              /\ doing' = [d \in Editor |->
                              IF d = c THEN NotBusy
                              ELSE IF doing[d].at = "starting" /\ doing[d].row.of = s
                                   THEN [doing[d] EXCEPT !.row.stale = TRUE] ELSE doing[d]]
           \/ /\ \E r \in DOMAIN runs \ RunsOf(s) : runs[r].version \in VersionsOf(s)
              /\ doing' = [doing EXCEPT ![c] = NotBusy]
              /\ UNCHANGED <<strategies, versions, runs>>

-----------------------------------------------------------------------------
(* Runs: a version is read in the library, its code goes into the run's     *)
(* spec, and the row is inserted over the other connection, whose foreign   *)
(* keys ask only that a strategy and a version of those ids exist.          *)

\* Mutant: the row names the head, whichever version was asked for.
Row_OfTheHead(s, v) ==
    [of |-> s, version |-> strategies[s].head, code |-> versions[v].code,
     over |-> FALSE, archived |-> FALSE, stale |-> FALSE]

Row(s, v) ==
    [of |-> s, version |-> v, code |-> versions[v].code,
     over |-> FALSE, archived |-> FALSE, stale |-> FALSE]

ReadForRun(c, s, v) ==
    /\ Free /\ Turn(c)
    /\ versions[v].of = s /\ versions[v].code \notin Invalid
    /\ doing' = [doing EXCEPT ![c] = [at |-> "starting", row |-> Row(s, v)]]
    /\ UNCHANGED <<strategies, versions, runs>>

CreateRun(c) ==
    /\ doing[c].at = "starting"
    /\ doing' = [doing EXCEPT ![c] = NotBusy]
    /\ LET row == doing[c].row IN
           \/ /\ row.of \in DOMAIN strategies /\ row.version \in DOMAIN versions
              /\ NewId(runs) <= MaxRows
              /\ runs' = With(runs, NewId(runs), row)
           \/ /\ ~(row.of \in DOMAIN strategies /\ row.version \in DOMAIN versions)
              /\ UNCHANGED runs
    /\ UNCHANGED <<strategies, versions>>

FinishRun(r)   == ~runs[r].over /\ runs' = [runs EXCEPT ![r].over = TRUE] /\ UNCHANGED <<strategies, versions, doing>>
Archive(r)   == runs[r].over /\ runs' = [runs EXCEPT ![r].archived = ~@] /\ UNCHANGED <<strategies, versions, doing>>
DeleteRun(r) == runs[r].over /\ runs' = Restrict(runs, DOMAIN runs \ {r}) /\ UNCHANGED <<strategies, versions, doing>>

LibraryNext ==
    \/ \E c \in Editor :
          \/ \E name \in Name, code \in Code : CreateStrategy(c, name, code) \/ UniqueName(c, name, code)
          \/ \E s \in DOMAIN strategies :
                \/ \E code \in Code, message \in Message : Save(c, s, code, message)
                \/ \E name \in Name : Rename(c, s, name)
                \/ \E v \in DOMAIN versions : ReadForRun(c, s, v)
                \/ BeginDelete(c, s)
          \/ StoreImported(c) \/ DeleteStrategy(c) \/ CreateRun(c)
    \/ \E r \in DOMAIN runs : FinishRun(r) \/ Archive(r) \/ DeleteRun(r)

LibrarySpec == LibraryInit /\ [][LibraryNext]_library_vars

-----------------------------------------------------------------------------
(* Two strategies never share a name; a strategy's versions are numbered    *)
(* without a gap and its head is the last of them.                          *)
HistoryIsWhole ==
    \A s \in DOMAIN strategies :
        /\ \A t \in DOMAIN strategies \ {s} : strategies[t].name # strategies[s].name
        /\ {versions[v].no : v \in VersionsOf(s)} = 1 .. Cardinality(VersionsOf(s))
        /\ strategies[s].head \in VersionsOf(s)
        /\ versions[strategies[s].head].no = Cardinality(VersionsOf(s))

(* A run can be reproduced: the version its row names is one of its         *)
(* strategy's and holds the code it was started with, unless the strategy   *)
(* was deleted while the run was being started.                             *)
NamedIsKept ==
    \A r \in DOMAIN runs :
        /\ runs[r].version \in DOMAIN versions /\ runs[r].of \in DOMAIN strategies
        /\ ~runs[r].stale => /\ versions[runs[r].version].of = runs[r].of
                             /\ versions[runs[r].version].code = runs[r].code

(* What a run executed is in its strategy's history: the version its row    *)
(* names exists and holds the code it was started with, names are not       *)
(* shared, and a history has no hole.                                       *)
RunsKeepTheirCode == HistoryIsWhole /\ NamedIsKept
=============================================================================
