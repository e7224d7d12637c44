----------------------------- MODULE Migrations -----------------------------
(***************************************************************************)
(* data/apply_migrations.py: any number of runners over one database.  A   *)
(* file and the row of schema_migrations that marks it are one             *)
(* transaction; the question whether it is marked is asked before, without *)
(* a lock.  Files are numbered in the order of their sorted names.         *)
(***************************************************************************)
EXTENDS Integers, FiniteSets

CONSTANTS
    Runners,
    LastFile,       \* the number of the newest migration there will be
    Rerunnable,     \* files that are no-ops on a schema that has them
    MaxCrashes      \* bound on runners that end before their last step

ASSUME MigrationsAssumption ==
    /\ LastFile \in Nat /\ Rerunnable \subseteq 1..LastFile
    /\ MaxCrashes \in Nat

VARIABLES
    released,       \* files in data/migrations: 1..released
    step,           \* what each runner does next
    file,           \* the file it is at
    last,           \* the last one it found when it listed the directory
    marks,          \* rows of schema_migrations
    applied,        \* how often the SQL of each file was committed
    crashes

runner == <<step, file, last>>
migrationsVars == <<released, runner, marks, applied, crashes>>

MigrationsInit ==
    /\ released \in 0..LastFile
    /\ step = [r \in Runners |-> "ended"]
    /\ file = [r \in Runners |-> 1]
    /\ last = [r \in Runners |-> 0]
    /\ marks = {}
    /\ applied = [f \in 1..LastFile |-> 0]
    /\ crashes = 0

\* A migration is added to the repository.
Release ==
    /\ released < LastFile
    /\ released' = released + 1
    /\ UNCHANGED <<runner, marks, applied, crashes>>

RunnerGoto(r, s) == step' = [step EXCEPT ![r] = s]

\* The directory is listed; with no file in it the script exits.  The table of
\* marks is created if it is not there.
Start(r) ==
    /\ step[r] = "ended" /\ released > 0
    /\ RunnerGoto(r, "check")
    /\ file' = [file EXCEPT ![r] = 1]
    /\ last' = [last EXCEPT ![r] = released]
    /\ UNCHANGED <<released, marks, applied, crashes>>

\* On to the next file, or out of the loop.
NextFile(r) ==
    /\ file' = [file EXCEPT ![r] = IF @ < last[r] THEN @ + 1 ELSE @]
    /\ RunnerGoto(r, IF file[r] < last[r] THEN "check" ELSE "ended")

\* Mutant of Check: every file is executed every time.
CheckNothing(r) ==
    /\ step[r] = "check"
    /\ RunnerGoto(r, "execute")
    /\ UNCHANGED <<file, released, last, marks, applied, crashes>>

\* SELECT 1 FROM schema_migrations.
Check(r) ==
    /\ step[r] = "check"
    /\ IF file[r] \in marks THEN NextFile(r) ELSE RunnerGoto(r, "execute") /\ UNCHANGED file
    /\ UNCHANGED <<released, last, marks, applied, crashes>>

\* The runner has executed file f in a transaction that is still open.
Holds(r, f) == file[r] = f /\ step[r] \in {"mark", "commit"}

\* The SQL of the file.  It waits for the locks of another runner that has
\* just created the same things, and raises when they turn out to exist.
Execute(r) ==
    /\ step[r] = "execute"
    /\ file[r] \notin marks => \A other \in Runners \ {r} : ~Holds(other, file[r])
    /\ RunnerGoto(r, IF file[r] \in marks \ Rerunnable THEN "ended" ELSE "mark")
    /\ UNCHANGED <<released, file, last, marks, applied, crashes>>

\* INSERT INTO schema_migrations: raises when the file is marked by now.
Mark(r) ==
    /\ step[r] = "mark"
    /\ RunnerGoto(r, IF file[r] \in marks THEN "ended" ELSE "commit")
    /\ UNCHANGED <<released, file, last, marks, applied, crashes>>

Commit(r) ==
    /\ step[r] = "commit"
    /\ marks' = marks \cup {file[r]}
    /\ applied' = [applied EXCEPT ![file[r]] = @ + 1]
    /\ NextFile(r)
    /\ UNCHANGED <<released, last, crashes>>

\* Mutant of Crash: the connection is in autocommit mode.
CrashWithoutTransaction(r) ==
    /\ step[r] # "ended" /\ crashes < MaxCrashes
    /\ crashes' = crashes + 1
    /\ RunnerGoto(r, "ended")
    /\ applied' = IF step[r] = "mark" THEN [applied EXCEPT ![file[r]] = @ + 1] ELSE applied
    /\ UNCHANGED <<released, file, last, marks>>

\* The process ends or loses its connection: the server rolls back.
Crash(r) ==
    /\ step[r] # "ended" /\ crashes < MaxCrashes
    /\ crashes' = crashes + 1
    /\ RunnerGoto(r, "ended")
    /\ UNCHANGED <<released, file, last, marks, applied>>

Step(r) == Start(r) \/ Check(r) \/ Execute(r) \/ Mark(r) \/ Commit(r)

MigrationsNext ==
    \/ Release
    \/ \E r \in Runners : Step(r) \/ Crash(r)

\* A runner goes on, and is run again after it ended.
Fairness == \A r \in Runners : WF_migrationsVars(Step(r))

MigrationsSpec == MigrationsInit /\ [][MigrationsNext]_migrationsVars /\ Fairness

-----------------------------------------------------------------------------

MigrationsTypeOK ==
    /\ released \in 0..LastFile
    /\ step \in [Runners -> {"ended", "check", "execute", "mark", "commit"}]
    /\ file \in [Runners -> 1..(LastFile + 1)]
    /\ last \in [Runners -> 0..LastFile]
    /\ \A r \in Runners : step[r] # "ended" => file[r] <= last[r]
    /\ marks \subseteq 1..LastFile
    /\ applied \in [1..LastFile -> Nat]
    /\ crashes \in Nat

\* Several migrations cannot be run twice, and each is written for the schema
\* its predecessors leave.  Whatever runners overlap or crash, a file is in
\* the schema exactly when it is marked, once, and with all files before it.
SchemaIsAPrefixOfTheFiles ==
    \A f \in 1..LastFile :
        /\ applied[f] = IF f \in marks THEN 1 ELSE 0
        /\ f \in marks => 1..f \subseteq marks

\* Runners that race each other raise, and may do so again; still every
\* released file is applied in the end.
EveryFileIsApplied == <>[](marks = 1..released)

=============================================================================
