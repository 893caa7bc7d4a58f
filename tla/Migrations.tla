----------------------------- MODULE Migrations -----------------------------
(***************************************************************************)
(* The commands migrate and migrate:rollback (cli/commands, and            *)
(* database/migrate.ts, which does what the first one does), run by people *)
(* and deployments that may overlap, be killed or fail at any statement,   *)
(* while files come and go.  A migration and the row that records it are   *)
(* two statements without a transaction around them.                       *)
(*                                                                         *)
(* up() and down() either happen or throw; like those of the repository    *)
(* they may be repeated (IF NOT EXISTS, IF EXISTS).  Rows of one batch may *)
(* have the same ran_at, whose resolution is a second, so that their order *)
(* is any.                                                                 *)
(***************************************************************************)
EXTENDS Naturals, SequencesExt

CONSTANTS
    Runners,     \* processes that run the commands
    Files,       \* names of migration files in their order, a sequence
    WithoutUp,   \* files that export no up()
    WithoutDown, \* files that export no down()
    Steps,       \* values of --steps
    MaxEdits,    \* bound: files added or removed
    MaxFailures, \* bound: statements that fail and runners that are killed
    MaxRuns      \* bound: commands ever started

ASSUME MigrationsAssumption ==
    /\ Files \in Seq(Range(Files)) /\ IsInjective(Files)
    /\ WithoutUp \cup WithoutDown \subseteq Range(Files)
    /\ Steps \subseteq Nat \ {0}
    /\ {MaxEdits, MaxFailures, MaxRuns} \subseteq Nat

VARIABLES
    rows,     \* the table migrations: the batch of each name it has
    applied,  \* files whose up() is in effect
    present,  \* files in database/migrations
    runner,   \* the command each process runs
    edits, failures, runs, \* the bounded counts
    adrift,   \* history: files whose row and effect were separated
    overlaid  \* history: two commands ran at the same time

migrationVars == <<rows, applied, present, runner, edits, failures, runs, adrift, overlaid>>

Names == Range(Files)

IdleRunner == [pc |-> "idle"]

\* base: the greatest batch when the command began; listed: the files it found.
Command == [pc : {"migrate", "select", "up", "insert", "down", "delete"}, base : Nat,
            steps : Nat, todo : Seq(Names), listed : SUBSET Names]

MigrationsTypeOK ==
    /\ DOMAIN rows \subseteq Names /\ rows \in [DOMAIN rows -> Nat \ {0}]
    /\ applied \subseteq Names \ WithoutUp /\ present \subseteq Names
    /\ runner \in [Runners -> {IdleRunner} \cup Command]
    /\ edits \in 0 .. MaxEdits /\ failures \in 0 .. MaxFailures /\ runs \in 0 .. MaxRuns
    /\ adrift \subseteq Names
    /\ overlaid \in BOOLEAN

MigrationsInit ==
    /\ rows = <<>>
    /\ applied = {}
    /\ present = Names
    /\ runner = [p \in Runners |-> IdleRunner]
    /\ edits = 0 /\ failures = 0 /\ runs = 0
    /\ adrift = {}
    /\ overlaid = FALSE

-----------------------------------------------------------------------------
(* Helpers.                                                                *)

Doing(p) == runner[p].pc

MaxBatch == IF rows = <<>> THEN 0 ELSE Max(Range(rows))

\* The order of the files.
Before(f, g) == \E i, j \in DOMAIN Files : i < j /\ Files[i] = f /\ Files[j] = g

Next1(p) == Head(runner[p].todo)

Ended(p) == [runner EXCEPT ![p] = IdleRunner]

\* The loop goes on with the next file.
Onward(p, pc) ==
    IF Len(runner[p].todo) = 1 THEN Ended(p)
    ELSE [runner EXCEPT ![p].pc = pc, ![p].todo = Tail(@)]

Launched(p, pc, steps, todo) ==
    /\ Doing(p) = "idle" /\ runs < MaxRuns
    /\ runs' = runs + 1
    /\ overlaid' = (overlaid \/ \E q \in Runners : Doing(q) # "idle")
    /\ runner' = [runner EXCEPT ![p] = [pc |-> pc, base |-> MaxBatch, steps |-> steps,
                                        todo |-> todo, listed |-> present]]
    /\ UNCHANGED <<rows, applied, present, edits, failures, adrift>>

others == <<present, edits, failures, runs, overlaid>>

-----------------------------------------------------------------------------
(* migrate                                                                 *)

\* SELECT MAX(batch)
migrate(p) == Launched(p, "migrate", 1, <<>>)

\* The files that are not recorded, in their order.
Pending ==
    {s \in SetToSeqs(present \ DOMAIN rows) : \A i, j \in DOMAIN s : i < j => Before(s[i], s[j])}

\* SELECT name
listPending(p) ==
    /\ Doing(p) = "migrate"
    /\ \E todo \in Pending :
          runner' = IF todo = <<>> THEN Ended(p)
                    ELSE [runner EXCEPT ![p].pc = "up", ![p].todo = todo, ![p].listed = present]
    /\ UNCHANGED <<rows, applied, adrift, others>>

\* up(); a file without it is passed over, one that is gone by now ends the run.
up(p) ==
    /\ Doing(p) = "up"
    /\ IF Next1(p) \notin present THEN runner' = Ended(p) /\ UNCHANGED applied
       ELSE IF Next1(p) \in WithoutUp THEN runner' = Onward(p, "up") /\ UNCHANGED applied
       ELSE /\ runner' = [runner EXCEPT ![p].pc = "insert"]
            /\ applied' = applied \cup {Next1(p)}
    /\ UNCHANGED <<rows, adrift, others>>

WithRow(f, batch) == [g \in DOMAIN rows \cup {f} |-> IF g = f THEN batch ELSE rows[g]]

\* Variant: the batch is the last one, not a new one.
insertSameBatch(p) ==
    LET f == Next1(p) IN
    /\ Doing(p) = "insert"
    /\ IF f \in DOMAIN rows
       THEN runner' = Ended(p) /\ UNCHANGED <<rows, adrift>>
       ELSE /\ rows' = WithRow(f, runner[p].base)
            /\ adrift' = adrift \ {f}
            /\ runner' = Onward(p, "up")
    /\ UNCHANGED <<applied, others>>

\* INSERT; a name that is there already violates UNIQUE and ends the run.
insert(p) ==
    LET f == Next1(p) IN
    /\ Doing(p) = "insert"
    /\ IF f \in DOMAIN rows
       THEN runner' = Ended(p) /\ UNCHANGED <<rows, adrift>>
       ELSE /\ rows' = WithRow(f, runner[p].base + 1)
            /\ adrift' = adrift \ {f}
            /\ runner' = Onward(p, "up")
    /\ UNCHANGED <<applied, others>>

-----------------------------------------------------------------------------
(* migrate:rollback                                                        *)

\* Variant: oldest batch first.
SelectionsUp(lowest) ==
    LET chosen == {f \in DOMAIN rows : rows[f] > lowest} IN
    {s \in SetToSeqs(chosen) : \A i, j \in DOMAIN s : i < j => rows[s[i]] <= rows[s[j]]}

\* The rows of the batches after base - steps, newest batch first.
Selections(lowest) ==
    LET chosen == {f \in DOMAIN rows : rows[f] > lowest} IN
    {s \in SetToSeqs(chosen) : \A i, j \in DOMAIN s : i < j => rows[s[i]] >= rows[s[j]]}

\* --all: one query; steps 0 stands for Infinity.
rollbackAll(p) ==
    /\ rows # <<>>
    /\ \E todo \in Selections(0) : Launched(p, "down", 0, todo)

\* SELECT MAX(batch); with no row there is nothing to do.
rollback(p, steps) == rows # <<>> /\ Launched(p, "select", steps, <<>>)

selectRows(p) ==
    LET r == runner[p] IN
    /\ Doing(p) = "select"
    /\ \E todo \in Selections(IF r.base > r.steps THEN r.base - r.steps ELSE 0) :
          runner' = IF todo = <<>> THEN Ended(p)
                    ELSE [runner EXCEPT ![p].pc = "down", ![p].todo = todo,
                                        ![p].listed = present]
    /\ UNCHANGED <<rows, applied, adrift, others>>

\* A row whose file was not found is deleted without down().
forgetMissing(p) ==
    LET f == Next1(p) IN
    /\ Doing(p) = "down"
    /\ f \notin runner[p].listed
    /\ rows' = Restrict(rows, DOMAIN rows \ {f})
    /\ adrift' = adrift \cup {f}
    /\ runner' = Onward(p, "down")
    /\ UNCHANGED <<applied, others>>

\* down(); a file without it is passed over and its row stays.
down(p) ==
    LET f == Next1(p) IN
    /\ Doing(p) = "down"
    /\ f \in runner[p].listed
    /\ IF f \notin present THEN runner' = Ended(p) /\ UNCHANGED applied
       ELSE IF f \in WithoutDown THEN runner' = Onward(p, "down") /\ UNCHANGED applied
       ELSE /\ runner' = [runner EXCEPT ![p].pc = "delete"]
            /\ applied' = applied \ {f}
    /\ UNCHANGED <<rows, adrift, others>>

delete(p) ==
    LET f == Next1(p) IN
    /\ Doing(p) = "delete"
    /\ rows' = Restrict(rows, DOMAIN rows \ {f})
    /\ adrift' = adrift \ {f}
    /\ runner' = Onward(p, "down")
    /\ UNCHANGED <<applied, others>>

-----------------------------------------------------------------------------
(* What goes wrong.                                                        *)

\* The statement throws, which ends the loop or the command, or the process is
\* killed.
fails(p) ==
    /\ Doing(p) # "idle" /\ failures < MaxFailures
    /\ failures' = failures + 1
    /\ runner' = Ended(p)
    /\ adrift' = IF Doing(p) \in {"insert", "delete"} THEN adrift \cup {Next1(p)} ELSE adrift
    /\ UNCHANGED <<rows, applied, present, edits, runs, overlaid>>

\* A file comes with a branch, or goes.
edit(f) ==
    /\ edits < MaxEdits
    /\ edits' = edits + 1
    /\ present' = IF f \in present THEN present \ {f} ELSE present \cup {f}
    /\ UNCHANGED <<rows, applied, runner, failures, runs, adrift, overlaid>>

MigrationsNext ==
    \/ \E p \in Runners :
          \/ migrate(p) \/ listPending(p) \/ up(p) \/ insert(p)
          \/ rollbackAll(p) \/ selectRows(p)
          \/ \E steps \in Steps : rollback(p, steps)
          \/ forgetMissing(p) \/ down(p) \/ delete(p)
          \/ fails(p)
    \/ \E f \in Names : edit(f)

MigrationsSpec == MigrationsInit /\ [][MigrationsNext]_migrationVars

-----------------------------------------------------------------------------
(* Properties.                                                             *)

InHand(f) == \E p \in Runners : Doing(p) \in {"insert", "delete"} /\ Next1(p) = f

\* migrate, migrate:rollback: a migration is in effect exactly when it is recorded,
\* except between its two statements, for a file at which a command stopped there
\* or whose row went because the file was missing, and once commands overlapped.
SchemaMatchesTable ==
    ~ overlaid =>
       \A f \in Names \ adrift : InHand(f) \/ (f \in applied <=> f \in DOMAIN rows)

\* migrate: when up() of a file is next, every file before it that was found is
\* recorded, or has no up().
UpInOrder ==
    \A p \in Runners : Doing(p) = "up" /\ ~ overlaid =>
       \A i, j \in DOMAIN Files :
          Files[j] = Next1(p) /\ i < j /\ Files[i] \in runner[p].listed \ WithoutUp =>
             Files[i] \in DOMAIN rows

\* migrate:rollback: when down() of a file is next, no later batch is left but for
\* files without down().
NewestFirst ==
    \A p \in Runners : Doing(p) = "down" /\ ~ overlaid =>
       \A f \in DOMAIN rows : rows[f] > rows[Next1(p)] => f \in WithoutDown

\* migrate, migrate:rollback: the table tells what is in effect, and nothing is
\* applied or rolled back before what it builds on.
MigrationsRecorded == SchemaMatchesTable /\ UpInOrder /\ NewestFirst

-----------------------------------------------------------------------------
(* The inductive invariant behind the theorems of ServersProofs.           *)

Running(p) == Doing(p) # "idle"

\* Each command that is started may make one batch.
BatchesBounded ==
    /\ \A f \in DOMAIN rows : rows[f] <= runs
    /\ \A p \in Runners : Running(p) => runner[p].base < runs

HasNext ==
    \A p \in Runners : Doing(p) \in {"up", "insert", "down", "delete"} => runner[p].todo # <<>>

Alone == \A p, q \in Runners : Running(p) /\ Running(q) => p = q

\* What a migrate found is recorded or still to be done, in the order of the files.
MigrateRest(p) ==
    LET todo == runner[p].todo IN
    /\ \A i, j \in DOMAIN todo : i < j => Before(todo[i], todo[j])
    /\ runner[p].listed \ WithoutUp \subseteq DOMAIN rows \cup Range(todo)

\* What a rollback has to do is recorded, and what is of a later batch comes
\* before or has no down().
RollbackRest(p) ==
    LET todo == runner[p].todo IN
    /\ IsInjective(todo)
    /\ Range(todo) \subseteq DOMAIN rows
    /\ \A f \in DOMAIN rows, i \in DOMAIN todo : rows[f] > rows[todo[i]] =>
          f \in WithoutDown \/ \E k \in 1 .. i - 1 : f = todo[k]

\* A command knows what is left to do, and between the two statements of a
\* migration that one is in the state of the first.
InStep(p) ==
    /\ Doing(p) = "insert" => Next1(p) \in applied
    /\ Doing(p) = "delete" => Next1(p) \notin applied
    /\ Doing(p) \in {"up", "insert"} => MigrateRest(p)
    /\ Doing(p) \in {"down", "delete"} => RollbackRest(p)

MigrationsInv ==
    /\ MigrationsTypeOK /\ BatchesBounded /\ HasNext
    /\ ~ overlaid => Alone /\ SchemaMatchesTable /\ \A p \in Runners : InStep(p)

=============================================================================
