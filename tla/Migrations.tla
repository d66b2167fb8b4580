----------------------------- MODULE Migrations -----------------------------
(***************************************************************************)
(* The migration job (apps/server/src/migrate.ts) over the connection of    *)
(* packages/postgres/src/connect.ts.  A rolling deploy starts several jobs  *)
(* at once, each with the migration files of its own image; a job holds one *)
(* advisory lock for its whole run, reads the ledger once, and applies each *)
(* file it does not find there in one transaction with its ledger row.  A   *)
(* job may die at any point: PostgreSQL then rolls back and drops its lock. *)
(***************************************************************************)
EXTENDS Integers, Sequences, FiniteSets

CONSTANTS
    Jobs,           \* the migration jobs
    Images,         \* the images a job may run: each a sequence of files
                    \* [name, sum], sorted by name; sum is the checksum
    NONE

VARIABLES
    db,         \* ledger: name -> checksum recorded, or NONE; ran: bodies run, in order
    holder,     \* the job holding the advisory lock, or NONE
    job         \* job -> pc, its image, its copy of the ledger, its next file

migrateVars == <<db, holder, job>>

Files == UNION {{image[i] : i \in DOMAIN image} : image \in Images}
Names == {f.name : f \in Files}
Sums == {f.sum : f \in Files}

ASSUME MigrateAssumption ==
    /\ \A image \in Images : image \in Seq(Files)
    /\ \A f \in Files : f = [name |-> f.name, sum |-> f.sum]
    /\ NONE \notin Sums

NewJob(image) ==
    [pc |-> "start", image |-> image, already |-> [n \in Names |-> NONE], next |-> 1]

MigrateInit ==
    /\ db = [ledger |-> [n \in Names |-> NONE], ran |-> << >>]
    /\ holder = NONE
    /\ job \in [Jobs -> {NewJob(image) : image \in Images}]

\* pg_advisory_lock, then the ledger is read once.
TakeLock(j) ==
    /\ job[j].pc = "start" /\ holder = NONE
    /\ holder' = j
    /\ job' = [job EXCEPT ![j].pc = "lock held"]
    /\ UNCHANGED db

ReadLedger(j) ==
    /\ job[j].pc = "lock held"
    /\ job' = [job EXCEPT ![j].pc = "applying", ![j].already = db.ledger]
    /\ UNCHANGED <<db, holder>>

File(j) == job[j].image[job[j].next]
Pending(j) == job[j].pc = "applying" /\ job[j].next <= Len(job[j].image)

\* A file the ledger has, with the same checksum.
Skip(j) ==
    /\ Pending(j) /\ job[j].already[File(j).name] = File(j).sum
    /\ job' = [job EXCEPT ![j].next = @ + 1]
    /\ UNCHANGED <<db, holder>>

\* A file edited since it was applied ends the job; so does the end of the
\* list.  Either way the lock is released (finally).
Finish(j) ==
    /\ \/ Pending(j) /\ job[j].already[File(j).name] \notin {NONE, File(j).sum}
       \/ job[j].pc = "applying" /\ job[j].next > Len(job[j].image)
    /\ job' = [job EXCEPT ![j].pc = "done"]
    /\ holder' = NONE
    /\ UNCHANGED db

\* Mutant: the body commits before the ledger row is written, and the job may
\* die in between.
ApplyThenRecord(j) ==
    /\ Pending(j) /\ job[j].already[File(j).name] = NONE
    /\ db.ledger[File(j).name] = NONE
    /\ \/ /\ db' = [ledger |-> [db.ledger EXCEPT ![File(j).name] = File(j).sum],
                    ran |-> Append(db.ran, File(j))]
          /\ job' = [job EXCEPT ![j].next = @ + 1]
          /\ UNCHANGED holder
       \/ /\ db' = [db EXCEPT !.ran = Append(@, File(j))]
          /\ job' = [job EXCEPT ![j].pc = "done"]
          /\ holder' = NONE

\* One transaction: the body and its ledger row.  The row's primary key makes
\* it fail, and roll back, if the name is recorded by then.
Apply(j) ==
    /\ Pending(j) /\ job[j].already[File(j).name] = NONE
    /\ db.ledger[File(j).name] = NONE
    /\ db' = [ledger |-> [db.ledger EXCEPT ![File(j).name] = File(j).sum],
              ran |-> Append(db.ran, File(j))]
    /\ job' = [job EXCEPT ![j].next = @ + 1]
    /\ UNCHANGED holder

\* The job dies: its transaction rolls back, its session's lock goes.
JobDies(j) ==
    /\ job[j].pc \in {"lock held", "applying"}
    /\ job' = [job EXCEPT ![j].pc = "done"]
    /\ holder' = NONE
    /\ UNCHANGED db

\* A deploy runs the job again, from any image.
Redeploy(j) ==
    /\ job[j].pc = "done"
    /\ \E image \in Images : job' = [job EXCEPT ![j] = NewJob(image)]
    /\ UNCHANGED <<db, holder>>

MigrateNext == \E j \in Jobs : TakeLock(j) \/ ReadLedger(j) \/ Skip(j) \/ Finish(j) \/ Apply(j)
                                \/ JobDies(j) \/ Redeploy(j)

MigrateSpec == MigrateInit /\ [][MigrateNext]_migrateVars

\* Whatever dies when, and however many jobs start together, a migration's body
\* runs at most once, and the ledger holds exactly the checksums of the bodies
\* that ran (migrate.ts: "a schema that is applied and a ledger that says it
\* is not").
LedgerIsTheSchema ==
    /\ \A i, k \in DOMAIN db.ran : db.ran[i].name = db.ran[k].name => i = k
    /\ \A n \in Names, s \in Sums :
         db.ledger[n] = s <=> \E i \in DOMAIN db.ran : db.ran[i] = [name |-> n, sum |-> s]

=============================================================================
