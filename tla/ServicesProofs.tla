--------------------------- MODULE ServicesProofs ---------------------------
(***************************************************************************)
(* Proofs about parts that run beside the rounds.                          *)
(*                                                                         *)
(* The ledger of migrations and the schema agree, for any number of jobs   *)
(* and any images, whichever jobs die where.  The proof does not use the   *)
(* advisory lock: the primary key of the ledger, inside the transaction of *)
(* the body, is enough for this; the lock only spares jobs a failure.      *)
(*                                                                         *)
(* The sign-in rate limit is kept over every stretch of time, for any      *)
(* limit, any window and any number of instances whose clocks agree.       *)
(* What the bucket holds is not enough to carry the argument, since it is  *)
(* refilled lazily and forgotten: Level is what a charge now would find.   *)
(* Whatever has been granted and what can be granted at once together grow *)
(* only as fast as time refills (LevelKept).                               *)
(*                                                                         *)
(* The paced client never starts two calls too close together.  What a     *)
(* sleeping turn has left is not spacing by itself; with the time since    *)
(* the last start it is (TurnSleepsEnough), because nothing starts while a *)
(* turn sleeps, and only one does (QueueIsOrdered).                        *)
(*                                                                         *)
(* The repositories of the tests answer as those of the deployment do, for *)
(* any wallets, keys and charges: a simulation for each of the three.  The *)
(* two do not hold the same.  Memory deletes what the database marks, and  *)
(* forgets expired rows the database leaves unmarked, so only the rows     *)
(* that are Alive are the same; a card's charge is counted in one and      *)
(* looked up again in the other; and a claim leaves another state.         *)
(*                                                                         *)
(* What is queued about one alert condition alternates and ends with       *)
(* FIRING exactly while the condition is reported, for any number of       *)
(* rounds, however long the webhook takes.  It is inductive once typed:    *)
(* one tick sends at most one message about a condition (EachOnce,         *)
(* ReconcileSays), and that message says the other thing than the last.    *)
(***************************************************************************)
EXTENDS Stores, Migrations, RateLimit, Pacer, Server, FiniteSetTheorems, SequenceTheorems, TLAPS

-----------------------------------------------------------------------------
(* Migrations.                                                               *)

Job == [pc : {"start", "lock held", "applying", "done"},
        image : Images,
        already : [Names -> Sums \cup {NONE}],
        next : Nat \ {0}]

MigrateTypeOK ==
  /\ db \in [ledger : [Names -> Sums \cup {NONE}], ran : Seq(Files)]
  /\ job \in [Jobs -> Job]

MigrateInv == MigrateTypeOK /\ LedgerIsTheSchema

\* A file a job has still to look at is one of its image's.
LEMMA PendingFile ==
  ASSUME MigrateTypeOK, NEW j \in Jobs, Pending(j)
  PROVE  File(j) \in Files /\ File(j).name \in Names /\ File(j).sum \in Sums
<1>1. job[j].image \in Seq(Files) /\ job[j].next \in 1..Len(job[j].image)
  <2>1. job[j] \in Job
    BY DEF MigrateTypeOK
  <2>2. job[j].image \in Images /\ job[j].next \in Nat \ {0}
    BY <2>1 DEF Job
  <2>3. job[j].image \in Seq(Files)
    BY <2>2, MigrateAssumption
  <2>4. job[j].next <= Len(job[j].image) /\ Len(job[j].image) \in Nat
    BY <2>3 DEF Pending
  <2>5. QED
    BY <2>2, <2>3, <2>4
<1>2. File(j) \in Files
  BY <1>1 DEF File
<1>3. QED
  BY <1>2 DEF Names, Sums

LEMMA StartedType == \A image \in Images : NewJob(image) \in Job
BY DEF NewJob, Job

LEMMA JobMovesOn ==
  ASSUME MigrateTypeOK, NEW j \in Jobs
  PROVE  [job EXCEPT ![j].next = @ + 1] \in [Jobs -> Job]
<1>1. job[j] \in Job
  BY DEF MigrateTypeOK
<1>2. [job[j] EXCEPT !.next = @ + 1] \in Job
  <2>1. \A x \in Job, n \in Nat \ {0} : [x EXCEPT !.next = n] \in Job
    BY DEF Job
  <2>2. job[j].next + 1 \in Nat \ {0}
    <3>1. job[j].next \in Nat \ {0}
      BY <1>1 DEF Job
    <3>2. QED
      BY <3>1
  <2>3. QED
    BY <1>1, <2>1, <2>2
<1>3. QED
  BY <1>2 DEF MigrateTypeOK

LEMMA MigrateTypeStep ==
  MigrateTypeOK /\ [MigrateNext]_migrateVars => MigrateTypeOK'
<1> SUFFICES ASSUME MigrateTypeOK, [MigrateNext]_migrateVars
             PROVE  MigrateTypeOK'
  OBVIOUS
<1>1. CASE UNCHANGED migrateVars
  BY <1>1 DEF migrateVars, MigrateTypeOK
<1>2. ASSUME NEW j \in Jobs, TakeLock(j)
      PROVE  MigrateTypeOK'
  BY <1>2 DEF TakeLock, MigrateTypeOK, Job
<1>3. ASSUME NEW j \in Jobs, ReadLedger(j)
      PROVE  MigrateTypeOK'
  BY ZenonT(60), <1>3 DEF ReadLedger, MigrateTypeOK, Job
<1>4. ASSUME NEW j \in Jobs, Skip(j)
      PROVE  MigrateTypeOK'
  BY <1>4, JobMovesOn DEF Skip, MigrateTypeOK
<1>5. ASSUME NEW j \in Jobs, Finish(j)
      PROVE  MigrateTypeOK'
  BY <1>5 DEF Finish, MigrateTypeOK, Job
<1>6. ASSUME NEW j \in Jobs, Apply(j)
      PROVE  MigrateTypeOK'
  <2>1. File(j) \in Files /\ File(j).name \in Names /\ File(j).sum \in Sums
    BY <1>6, PendingFile DEF Apply
  <2>2. db' \in [ledger : [Names -> Sums \cup {NONE}], ran : Seq(Files)]
    <3>1. [db.ledger EXCEPT ![File(j).name] = File(j).sum]
            \in [Names -> Sums \cup {NONE}]
      BY <2>1 DEF MigrateTypeOK
    <3>2. \A s \in Seq(Files) : Append(s, File(j)) \in Seq(Files)
      BY <2>1
    <3>3. db.ran \in Seq(Files)
      BY DEF MigrateTypeOK
    <3>4. QED
      BY <1>6, <3>1, <3>2, <3>3 DEF Apply
  <2>3. job' \in [Jobs -> Job]
    BY <1>6, JobMovesOn DEF Apply
  <2>4. QED
    BY <2>2, <2>3 DEF MigrateTypeOK
<1>7. ASSUME NEW j \in Jobs, JobDies(j)
      PROVE  MigrateTypeOK'
  BY <1>7 DEF JobDies, MigrateTypeOK, Job
<1>8. ASSUME NEW j \in Jobs, Redeploy(j)
      PROVE  MigrateTypeOK'
  BY <1>8, StartedType DEF Redeploy, MigrateTypeOK
<1>9. QED
  BY <1>1, <1>2, <1>3, <1>4, <1>5, <1>6, <1>7, <1>8 DEF MigrateNext

\* One transaction adds a body that has not run under its name, and its row.
LEMMA ApplyKeepsLedger ==
  ASSUME MigrateInv, NEW j \in Jobs, Apply(j)
  PROVE  LedgerIsTheSchema'
<1> DEFINE f == File(j)
           L == Len(db.ran)
<1>1. /\ f \in Files /\ f.name \in Names /\ f.sum \in Sums
      /\ f = [name |-> f.name, sum |-> f.sum]
  BY PendingFile, MigrateAssumption DEF Apply, MigrateInv
<1>2. /\ db.ledger \in [Names -> Sums \cup {NONE}]
      /\ db.ran \in Seq(Files) /\ L \in Nat
      /\ DOMAIN db.ran = 1..L
      /\ \A i \in 1..L : db.ran[i] \in Files
  <2>1. \A s \in Seq(Files) : /\ Len(s) \in Nat /\ DOMAIN s = 1..Len(s)
                              /\ \A i \in 1..Len(s) : s[i] \in Files
    OBVIOUS
  <2>2. db.ran \in Seq(Files) /\ db.ledger \in [Names -> Sums \cup {NONE}]
    BY DEF MigrateInv, MigrateTypeOK
  <2>3. QED
    BY <2>1, <2>2
<1>3. /\ db.ledger[f.name] = NONE
      /\ db'.ledger = [db.ledger EXCEPT ![f.name] = f.sum]
      /\ db'.ran = Append(db.ran, f)
  BY DEF Apply
<1>4. /\ DOMAIN db'.ran = 1..(L + 1)
      /\ \A i \in 1..L : db'.ran[i] = db.ran[i]
      /\ db'.ran[L + 1] = f
  <2>1. \A s \in Seq(Files), g \in Files :
          /\ DOMAIN Append(s, g) = 1..(Len(s) + 1)
          /\ \A i \in 1..Len(s) : Append(s, g)[i] = s[i]
          /\ Append(s, g)[Len(s) + 1] = g
    OBVIOUS
  <2>2. db.ran \in Seq(Files) /\ f \in Files
    BY <1>1, <1>2
  <2> HIDE DEF f
  <2>3. QED
    BY <1>3, <2>1, <2>2
<1> HIDE DEF f, L
<1>5. \A i \in 1..L : db.ran[i].name # f.name
  <2> SUFFICES ASSUME NEW i \in 1..L, db.ran[i].name = f.name
               PROVE  FALSE
    OBVIOUS
  <2>1. /\ db.ran[i].sum \in Sums
        /\ db.ran[i] = [name |-> f.name, sum |-> db.ran[i].sum]
    BY <1>2, MigrateAssumption DEF Sums
  <2>2. db.ledger[f.name] = db.ran[i].sum
    BY <1>1, <1>2, <2>1 DEF MigrateInv, LedgerIsTheSchema
  <2>3. QED
    BY <1>3, <2>1, <2>2, MigrateAssumption
<1>6. \A i, k \in DOMAIN db'.ran : db'.ran[i].name = db'.ran[k].name => i = k
  <2>1. \A i, k \in 1..L : db.ran[i].name = db.ran[k].name => i = k
    BY <1>2 DEF MigrateInv, LedgerIsTheSchema
  <2>2. \A i \in 1..(L + 1) : i \in 1..L \/ i = L + 1
    BY <1>2
  <2>3. QED
    BY <1>4, <1>5, <2>1, <2>2
<1>7. ASSUME NEW n \in Names, NEW s \in Sums
      PROVE  db'.ledger[n] = s
               <=> \E i \in DOMAIN db'.ran : db'.ran[i] = [name |-> n, sum |-> s]
  <2>1. db.ledger[n] = s <=> \E i \in 1..L : db.ran[i] = [name |-> n, sum |-> s]
    BY <1>2 DEF MigrateInv, LedgerIsTheSchema
  <2>2. (\E i \in 1..(L + 1) : db'.ran[i] = [name |-> n, sum |-> s])
          <=> \/ \E i \in 1..L : db.ran[i] = [name |-> n, sum |-> s]
              \/ f = [name |-> n, sum |-> s]
    BY <1>2, <1>4
  <2>3. f = [name |-> n, sum |-> s] <=> n = f.name /\ s = f.sum
    BY <1>1
  <2>4. CASE n = f.name
    <3>1. db'.ledger[n] = f.sum
      BY <1>1, <1>2, <1>3, <2>4
    <3>2. ~\E i \in 1..L : db.ran[i] = [name |-> n, sum |-> s]
      BY <1>5, <2>4
    <3>3. QED
      BY <1>4, <2>2, <2>3, <2>4, <3>1, <3>2
  <2>5. CASE n # f.name
    <3>1. db'.ledger[n] = db.ledger[n]
      BY <1>2, <1>3, <2>5
    <3>2. QED
      BY <1>4, <2>1, <2>2, <2>3, <2>5, <3>1
  <2>6. QED
    BY <2>4, <2>5
<1>8. QED
  BY <1>6, <1>7 DEF LedgerIsTheSchema

\* However many jobs start together and whichever die where, a migration's body
\* runs at most once and the ledger holds exactly the checksums of what ran
\* (migrate.ts).
THEOREM LedgerMatchesSchema == MigrateSpec => []LedgerIsTheSchema
<1>1. MigrateInit => MigrateInv
  <2> SUFFICES ASSUME MigrateInit
               PROVE  MigrateInv
    OBVIOUS
  <2>1. db.ledger = [n \in Names |-> NONE] /\ db.ran = << >>
    BY DEF MigrateInit
  <2>2. db \in [ledger : [Names -> Sums \cup {NONE}], ran : Seq(Files)]
    BY DEF MigrateInit
  <2>3. job \in [Jobs -> Job]
    BY StartedType DEF MigrateInit
  <2>4. LedgerIsTheSchema
    BY <2>1, MigrateAssumption DEF LedgerIsTheSchema
  <2>5. QED
    BY <2>2, <2>3, <2>4 DEF MigrateInv, MigrateTypeOK
<1>2. MigrateInv /\ [MigrateNext]_migrateVars => MigrateInv'
  <2> SUFFICES ASSUME MigrateInv, [MigrateNext]_migrateVars
               PROVE  MigrateInv'
    OBVIOUS
  <2>1. MigrateTypeOK'
    BY MigrateTypeStep DEF MigrateInv
  <2>2. CASE UNCHANGED db
    <3>1. LedgerIsTheSchema'
      BY <2>2 DEF MigrateInv, LedgerIsTheSchema
    <3>2. QED
      BY <2>1, <3>1 DEF MigrateInv
  <2>3. ASSUME NEW j \in Jobs, Apply(j)
        PROVE  LedgerIsTheSchema'
    BY <2>3, ApplyKeepsLedger
  <2>4. UNCHANGED db \/ \E j \in Jobs : Apply(j)
    BY DEF MigrateNext, migrateVars, TakeLock, ReadLedger, Skip, Finish,
           JobDies, Redeploy
  <2>5. QED
    BY <2>1, <2>2, <2>3, <2>4 DEF MigrateInv
<1>3. QED
  BY <1>1, <1>2, PTL DEF MigrateSpec, MigrateInv

-----------------------------------------------------------------------------
(* The rate limit.                                                           *)

Capacity == LIMIT * WINDOW
Level == IF bucket = NoBucket THEN Capacity ELSE Refilled(bucket, trueTime).tokens

RateTypeOK ==
  /\ trueTime \in Nat /\ touched \in Nat /\ touched <= trueTime
  /\ granted \in [count : Nat, since : Nat] /\ granted.since <= trueTime
  /\ \/ bucket = NoBucket
     \/ /\ bucket \in [tokens : 0..Capacity, at : Nat]
        /\ bucket.at = touched

LevelKept == granted.count * WINDOW + Level
               <= Capacity + (trueTime - granted.since) * LIMIT

RateInv == RateTypeOK /\ LevelKept

\* The lesser of two integers.
LEMMA MinOfTwo ==
  ASSUME NEW a \in Int, NEW b \in Int
  PROVE  Min({a, b}) = IF a <= b THEN a ELSE b
<1>1. CASE a <= b
  <2>1. /\ a \in {a, b} /\ \A y \in {a, b} : a <= y
        /\ \A x \in {a, b} : (\A y \in {a, b} : x <= y) => x = a
    BY <1>1
  <2>2. QED
    BY <1>1, <2>1 DEF Min
<1>2. CASE ~(a <= b)
  <2>1. /\ b \in {a, b} /\ \A y \in {a, b} : b <= y
        /\ \A x \in {a, b} : (\A y \in {a, b} : x <= y) => x = b
    BY <1>2
  <2>2. QED
    BY <1>2, <2>1 DEF Min
<1>3. QED
  BY <1>1, <1>2

\* Products of a natural number with the limit and with the window.
LEMMA Products ==
  /\ Capacity \in Nat
  /\ \A x \in Int : x * LIMIT \in Int /\ (x + 1) * LIMIT = x * LIMIT + LIMIT
  /\ \A x \in Nat : x * LIMIT \in Nat /\ x * WINDOW \in Nat
  /\ \A x \in Nat : (x + 1) * WINDOW = x * WINDOW + WINDOW
  /\ \A x \in Nat : x >= WINDOW => x * LIMIT >= Capacity
  /\ 0 * WINDOW = 0 /\ 0 * LIMIT = 0
<1>1. LIMIT \in Nat /\ WINDOW \in Nat
  BY RateAssumption
<1>2. \A x \in Nat : x >= WINDOW => x * LIMIT >= LIMIT * WINDOW
  <2> SUFFICES ASSUME NEW x \in Nat, x >= WINDOW
               PROVE  x * LIMIT >= LIMIT * WINDOW
    OBVIOUS
  <2>1. PICK d \in Nat : x = WINDOW + d
    <3>1. x - WINDOW \in Nat /\ x = WINDOW + (x - WINDOW)
      BY <1>1
    <3>2. QED
      BY <3>1
  <2>2. x * LIMIT = LIMIT * WINDOW + d * LIMIT /\ d * LIMIT \in Nat
    BY <1>1, <2>1
  <2>3. LIMIT * WINDOW \in Nat
    BY <1>1
  <2>4. QED
    BY <2>2, <2>3
<1>3. QED
  BY <1>1, <1>2 DEF Capacity

\* What a bucket that is there holds at an instant at or after its last.
LEMMA RefilledLevel ==
  ASSUME NEW b \in [tokens : 0..Capacity, at : Nat], NEW now \in Nat, b.at <= now
  PROVE  LET gain == (now - b.at) * LIMIT
         IN  /\ gain \in Nat
             /\ Refilled(b, now) =
                  [tokens |-> IF Capacity <= b.tokens + gain THEN Capacity
                                                            ELSE b.tokens + gain,
                   at |-> now]
             /\ Refilled(b, now) = [tokens |-> Refilled(b, now).tokens, at |-> now]
<1> DEFINE gain == (now - b.at) * LIMIT
<1>1. b.tokens \in 0..Capacity /\ b.at \in Nat /\ now - b.at \in Nat
  OBVIOUS
<1>2. gain \in Nat /\ Capacity \in Nat /\ b.tokens \in Nat /\ b.tokens <= Capacity
  BY <1>1, Products
<1>3. CASE now > b.at
  <2>1. Refilled(b, now) = [tokens |-> Min({Capacity, b.tokens + gain}), at |-> now]
    BY <1>3 DEF Refilled, Capacity
  <2> HIDE DEF gain
  <2>2. Min({Capacity, b.tokens + gain})
          = IF Capacity <= b.tokens + gain THEN Capacity ELSE b.tokens + gain
    BY <1>2, MinOfTwo
  <2>3. QED
    BY <1>2, <2>1, <2>2 DEF gain
<1>4. CASE now = b.at
  <2>1. gain = 0
    BY <1>1, <1>4, Products
  <2>2. Refilled(b, now) = b /\ b = [tokens |-> b.tokens, at |-> now]
    BY <1>1, <1>4 DEF Refilled
  <2> HIDE DEF gain
  <2>3. (IF Capacity <= b.tokens + gain THEN Capacity ELSE b.tokens + gain) = b.tokens
    BY <1>2, <2>1
  <2>4. QED
    BY <1>2, <2>2, <2>3 DEF gain
<1>5. QED
  BY <1>1, <1>3, <1>4

\* What a charge now would find is between nothing and a full bucket.
LEMMA LevelType ==
  ASSUME RateTypeOK
  PROVE  Level \in Nat /\ Level <= Capacity
<1>1. CASE bucket = NoBucket
  BY <1>1, Products DEF Level
<1>2. CASE bucket # NoBucket
  <2>1. /\ bucket \in [tokens : 0..Capacity, at : Nat] /\ bucket.at <= trueTime
        /\ trueTime \in Nat
    BY <1>2 DEF RateTypeOK
  <2>2. bucket.tokens \in 0..Capacity
    BY <2>1
  <2> DEFINE gain == (trueTime - bucket.at) * LIMIT
  <2>3. gain \in Nat /\ Level = IF Capacity <= bucket.tokens + gain THEN Capacity
                                                                   ELSE bucket.tokens + gain
    BY <1>2, <2>1, RefilledLevel DEF Level
  <2> HIDE DEF gain
  <2>4. QED
    BY <2>2, <2>3, Products
<1>3. QED
  BY <1>1, <1>2

\* As time passes the level rises by at most the limit.
LEMMA TickKeepsLevel ==
  ASSUME RateInv, RateTick
  PROVE  RateInv'
<1>1. /\ trueTime' = trueTime + 1 /\ bucket' = bucket /\ touched' = touched
      /\ granted' = granted /\ Capacity' = Capacity
  BY DEF RateTick, Capacity
<1>2. RateTypeOK'
  BY <1>1 DEF RateInv, RateTypeOK
<1>3. Level' <= Level + LIMIT /\ Level \in Nat /\ Level' \in Nat
  <2>1. Level \in Nat
    BY LevelType DEF RateInv
  <2>2. CASE bucket = NoBucket
    <3>1. Level' = Level
      BY <1>1, <2>2 DEF Level
    <3>2. QED
      BY <2>1, <3>1, RateAssumption
  <2>3. CASE bucket # NoBucket
    <3>1. /\ bucket \in [tokens : 0..Capacity, at : Nat] /\ bucket.at <= trueTime
          /\ trueTime \in Nat /\ bucket.tokens \in 0..Capacity /\ bucket.at \in Nat
      BY <2>3 DEF RateInv, RateTypeOK
    <3> DEFINE gain == (trueTime - bucket.at) * LIMIT
               more == (trueTime + 1 - bucket.at) * LIMIT
               Held(g) == IF Capacity <= bucket.tokens + g THEN Capacity
                                                           ELSE bucket.tokens + g
    <3>2. gain \in Nat /\ Level = Held(gain)
      BY <2>3, <3>1, RefilledLevel DEF Level
    <3>3. trueTime + 1 \in Nat /\ bucket.at <= trueTime + 1
      BY <3>1
    <3>4. more \in Nat /\ Refilled(bucket, trueTime + 1).tokens = Held(more)
      BY <3>1, <3>3, RefilledLevel
    <3>5. Level' = Refilled(bucket, trueTime + 1).tokens
      BY <1>1, <2>3 DEF Level, Refilled
    <3>6. more = gain + LIMIT
      <4>1. trueTime - bucket.at \in Int /\ trueTime + 1 - bucket.at = (trueTime - bucket.at) + 1
        BY <3>1
      <4>2. QED
        BY <4>1, Products
    <3> HIDE DEF gain, more
    <3>7. QED
      BY <2>1, <3>1, <3>2, <3>4, <3>5, <3>6, RateAssumption, Products
  <2>4. QED
    BY <2>2, <2>3
<1>4. (trueTime + 1 - granted.since) * LIMIT = (trueTime - granted.since) * LIMIT + LIMIT
  <2>1. trueTime - granted.since \in Int
        /\ trueTime + 1 - granted.since = (trueTime - granted.since) + 1
    BY DEF RateInv, RateTypeOK
  <2>2. QED
    BY <2>1, Products
<1>5. /\ granted.count * WINDOW \in Nat /\ (trueTime - granted.since) * LIMIT \in Int
      /\ Capacity \in Nat
  BY Products DEF RateInv, RateTypeOK
<1>6. LevelKept'
  <2>1. granted.count * WINDOW + Level <= Capacity + (trueTime - granted.since) * LIMIT
    BY DEF RateInv, LevelKept
  <2>2. PICK given \in Int, earned \in Int, held \in Int, next \in Int :
          /\ given = granted.count * WINDOW /\ held = Level /\ next = Level'
          /\ earned = (trueTime - granted.since) * LIMIT
    BY <1>3, <1>5
  <2>3. given + held <= Capacity + earned
    BY <2>1, <2>2
  <2>4. next <= held + LIMIT
    BY <1>3, <2>2
  <2>5. given + next <= Capacity + (earned + LIMIT)
    <3>1. LIMIT \in Int /\ Capacity \in Int
      BY <1>5, RateAssumption
    <3>2. QED
      BY <2>3, <2>4, <3>1
  <2>6. granted'.count * WINDOW = given
    BY <1>1, <2>2
  <2>7. (trueTime' - granted'.since) * LIMIT = earned + LIMIT
    <3>1. trueTime' - granted'.since = trueTime + 1 - granted.since
      BY <1>1 DEF RateInv, RateTypeOK
    <3>2. (trueTime' - granted'.since) * LIMIT = (trueTime + 1 - granted.since) * LIMIT
      BY <3>1
    <3>3. QED
      BY <1>4, <2>2, <3>2
  <2>8. granted'.count * WINDOW + Level' <= Capacity' + (trueTime' - granted'.since) * LIMIT
    BY <1>1, <2>2, <2>5, <2>6, <2>7
  <2>9. QED
    BY <2>8 DEF LevelKept
<1>7. QED
  BY <1>2, <1>6 DEF RateInv

\* A bucket is only forgotten when time has refilled it.
LEMMA ExpireKeepsLevel ==
  ASSUME RateInv, Expire
  PROVE  RateInv'
<1>1. /\ bucket # NoBucket /\ trueTime - touched >= WINDOW
      /\ bucket' = NoBucket /\ UNCHANGED <<trueTime, touched, granted>>
  BY DEF Expire
<1>2. /\ bucket \in [tokens : 0..Capacity, at : Nat] /\ bucket.at = touched
      /\ trueTime \in Nat /\ touched \in Nat /\ touched <= trueTime
      /\ bucket.tokens \in 0..Capacity
  BY <1>1 DEF RateInv, RateTypeOK
<1> DEFINE gain == (trueTime - bucket.at) * LIMIT
<1>3. gain \in Nat /\ Level = IF Capacity <= bucket.tokens + gain THEN Capacity
                                                                 ELSE bucket.tokens + gain
  BY <1>1, <1>2, RefilledLevel DEF Level
<1>4. gain >= Capacity
  <2>1. trueTime - bucket.at \in Nat /\ trueTime - bucket.at >= WINDOW
    BY <1>1, <1>2
  <2>2. QED
    BY <2>1, Products
<1> HIDE DEF gain
<1>5. Level = Capacity
  <2>1. bucket.tokens \in 0..Capacity /\ Capacity \in Nat
    BY <1>2, Products
  <2>2. Capacity <= bucket.tokens + gain
    BY <1>3, <1>4, <2>1
  <2>3. QED
    BY <1>3, <2>2
<1>6. Level' = Capacity
  BY <1>1 DEF Level, Capacity
<1>7. LevelKept'
  BY <1>1, <1>5, <1>6 DEF RateInv, LevelKept, Capacity
<1>8. RateTypeOK'
  BY <1>1 DEF RateInv, RateTypeOK
<1>9. QED
  BY <1>7, <1>8 DEF RateInv

\* A charge finds the level, and what it takes it grants.
LEMMA CheckKeepsLevel ==
  ASSUME RateInv, ClocksAgree, NEW i \in Instances, check(i)
  PROVE  RateInv'
<1> DEFINE b == Refilled(IF bucket = NoBucket THEN Full(trueTime) ELSE bucket, trueTime)
<1>1. trueTime \in Nat /\ trueTime + Skew[i] = trueTime
  BY DEF ClocksAgree, RateInv, RateTypeOK
<1>2. /\ bucket' = IF b.tokens >= WINDOW THEN [b EXCEPT !.tokens = @ - WINDOW] ELSE b
      /\ granted' = IF b.tokens >= WINDOW THEN [granted EXCEPT !.count = @ + 1] ELSE granted
      /\ touched' = trueTime /\ trueTime' = trueTime
  BY <1>1 DEF check
<1>3. b = [tokens |-> Level, at |-> trueTime]
  <2>1. CASE bucket = NoBucket
    <3>1. b = Refilled([tokens |-> Capacity, at |-> trueTime], trueTime)
      BY <2>1 DEF Full, Capacity
    <3>2. b = [tokens |-> Capacity, at |-> trueTime]
      BY <1>1, <3>1 DEF Refilled
    <3>3. QED
      BY <2>1, <3>2 DEF Level
  <2>2. CASE bucket # NoBucket
    <3>1. /\ bucket \in [tokens : 0..Capacity, at : Nat] /\ bucket.at <= trueTime
      BY <2>2 DEF RateInv, RateTypeOK
    <3>2. Refilled(bucket, trueTime) = [tokens |-> Refilled(bucket, trueTime).tokens, at |-> trueTime]
      BY <1>1, <3>1, RefilledLevel
    <3>3. QED
      BY <2>2, <3>2 DEF Level
  <2>3. QED
    BY <2>1, <2>2
<1>4. Level \in Nat /\ Level <= Capacity /\ Capacity \in Nat /\ Capacity' = Capacity
  BY LevelType, Products DEF RateInv, Capacity
<1>5. granted \in [count : Nat, since : Nat] /\ granted.since <= trueTime
  BY DEF RateInv, RateTypeOK
<1> HIDE DEF b
<1>6. CASE Level >= WINDOW
  <2>1. /\ bucket' = [tokens |-> Level - WINDOW, at |-> trueTime]
        /\ granted'.count = granted.count + 1 /\ granted'.since = granted.since
        /\ granted' \in [count : Nat, since : Nat]
    BY <1>2, <1>3, <1>5, <1>6
  <2>2. Level - WINDOW \in 0..Capacity /\ Level - WINDOW <= Capacity
    BY <1>4, <1>6, RateAssumption
  <2>3. RateTypeOK'
    BY <1>1, <1>2, <1>4, <1>5, <2>1, <2>2 DEF RateTypeOK
  <2>4. Level' = Level - WINDOW
    <3>1. bucket' # NoBucket
      BY <2>1, <2>2 DEF NoBucket
    <3>2. Level' = Refilled(bucket', trueTime').tokens
      BY <3>1 DEF Level
    <3>3. Refilled(bucket', trueTime') = bucket'
      BY <1>1, <1>2, <2>1 DEF Refilled
    <3>4. QED
      BY <2>1, <3>2, <3>3
  <2>5. granted'.count * WINDOW = granted.count * WINDOW + WINDOW
        /\ granted.count * WINDOW \in Nat
    BY <1>5, <2>1, Products
  <2>6. granted'.count * WINDOW + Level' = granted.count * WINDOW + Level
    BY <1>4, <2>4, <2>5, RateAssumption
  <2>7. LevelKept'
    BY <1>2, <1>4, <2>1, <2>6 DEF RateInv, LevelKept
  <2>8. QED
    BY <2>3, <2>7 DEF RateInv
<1>7. CASE ~(Level >= WINDOW)
  <2>1. bucket' = [tokens |-> Level, at |-> trueTime] /\ granted' = granted
    BY <1>2, <1>3, <1>7
  <2>2. RateTypeOK'
    BY <1>1, <1>2, <1>4, <1>5, <2>1 DEF RateTypeOK
  <2>3. Level' = Level
    <3>1. bucket' # NoBucket
      BY <1>4, <2>1 DEF NoBucket
    <3>2. Level' = Refilled(bucket', trueTime').tokens
      BY <3>1 DEF Level
    <3>3. Refilled(bucket', trueTime') = bucket'
      BY <1>1, <1>2, <2>1 DEF Refilled
    <3>4. QED
      BY <2>1, <3>2, <3>3
  <2>4. QED
    BY <1>2, <1>4, <2>1, <2>2, <2>3 DEF RateInv, LevelKept
<1>8. QED
  BY <1>6, <1>7

\* The Lua bucket of redis/rate-limit.ts, and the one in memory, let through at
\* most the limit and what time refills over any stretch, when clocks agree.
THEOREM LimitIsKept == ASSUME ClocksAgree PROVE RateSpec => []RateIsKept
<1>1. RateInit => RateInv
  <2> SUFFICES ASSUME RateInit
               PROVE  RateInv
    OBVIOUS
  <2>1. RateTypeOK
    BY DEF RateInit, RateTypeOK
  <2>2. granted.count = 0 /\ trueTime - granted.since = 0
    BY DEF RateInit
  <2>3. Level = Capacity
    BY DEF RateInit, Level
  <2>4. LevelKept
    BY <2>2, <2>3, Products DEF LevelKept
  <2>5. QED
    BY <2>1, <2>4 DEF RateInv
<1>2. RateInv /\ [RateNext]_rateVars => RateInv'
  <2> SUFFICES ASSUME RateInv, [RateNext]_rateVars
               PROVE  RateInv'
    OBVIOUS
  <2>1. CASE UNCHANGED rateVars
    BY <2>1 DEF rateVars, RateInv, RateTypeOK, LevelKept, Level, Capacity
  <2>2. CASE Observe
    <3>1. /\ UNCHANGED <<trueTime, bucket, touched>>
          /\ granted' = [count |-> 0, since |-> trueTime]
      BY <2>2 DEF Observe
    <3>2. RateTypeOK'
      BY <3>1 DEF RateInv, RateTypeOK
    <3>3. Level' = Level /\ Level \in Nat /\ Level <= Capacity
      BY <3>1, LevelType DEF RateInv, Level, Capacity
    <3>4. trueTime \in Nat /\ granted'.count = 0 /\ trueTime' - granted'.since = 0
      BY <3>1 DEF RateInv, RateTypeOK
    <3>5. LevelKept'
      BY <3>3, <3>4, Products DEF LevelKept, Capacity
    <3>6. QED
      BY <3>2, <3>5 DEF RateInv
  <2>3. QED
    BY <2>1, <2>2, TickKeepsLevel, ExpireKeepsLevel, CheckKeepsLevel DEF RateNext
<1>3. RateInv => RateIsKept
  <2> SUFFICES ASSUME RateInv
               PROVE  RateIsKept
    OBVIOUS
  <2>1. Level \in Nat
    BY LevelType DEF RateInv
  <2>2. granted.count * WINDOW \in Nat /\ (trueTime - granted.since) * LIMIT \in Int
    BY Products DEF RateInv, RateTypeOK
  <2>3. QED
    BY <2>1, <2>2, Products DEF RateInv, LevelKept, RateIsKept, Capacity
<1>4. QED
  BY <1>1, <1>2, <1>3, PTL DEF RateSpec

-----------------------------------------------------------------------------
(* The paced calls.                                                          *)

Stages == {"queued", "turn", "flight", "answered", "refused", "stopped"}

PacerTypes ==
  /\ stage \in [Calls -> Stages] /\ attempt \in [Calls -> Nat]
  /\ tail \in Seq(Calls)
  /\ interval \in MIN_INTERVAL..MAX_INTERVAL
  /\ since \in Nat /\ sleep \in Nat /\ pause \in Nat

\* A call waits once, and only one call sleeps at a time.
QueueIsOrdered ==
  /\ \A i \in DOMAIN tail : stage[tail[i]] = "queued"
  /\ \A i, j \in DOMAIN tail : tail[i] = tail[j] => i = j
  /\ \A c, d \in InTurn : c = d

\* A turn sleeps at least until the last start is far enough away.
TurnSleepsEnough == InTurn # {} => since + sleep >= MIN_INTERVAL

PacerInv == PacerTypes /\ QueueIsOrdered /\ TurnSleepsEnough

\* What is left of a sequence without repetitions once its head is taken.
LEMMA TailOfDistinct ==
  ASSUME NEW S, NEW s \in Seq(S), s # << >>,
         \A i, j \in DOMAIN s : s[i] = s[j] => i = j
  PROVE  /\ Head(s) \in S /\ Tail(s) \in Seq(S)
         /\ \A i \in DOMAIN Tail(s) : i + 1 \in DOMAIN s /\ Tail(s)[i] = s[i + 1]
         /\ \A i \in DOMAIN Tail(s) : Tail(s)[i] # Head(s)
         /\ \A i, j \in DOMAIN Tail(s) : Tail(s)[i] = Tail(s)[j] => i = j
<1>1. /\ Head(s) \in S /\ Tail(s) \in Seq(S) /\ Head(s) = s[1]
      /\ Len(s) \in Nat \ {0} /\ DOMAIN s = 1..Len(s)
      /\ DOMAIN Tail(s) = 1..(Len(s) - 1)
      /\ \A i \in 1..(Len(s) - 1) : Tail(s)[i] = s[i + 1]
  BY HeadTailProperties, EmptySeq, LenProperties
<1>2. QED
  BY <1>1

LEMMA AppendOfDistinct ==
  ASSUME NEW S, NEW s \in Seq(S), NEW c \in S,
         \A i \in DOMAIN s : s[i] # c,
         \A i, j \in DOMAIN s : s[i] = s[j] => i = j
  PROVE  /\ Append(s, c) \in Seq(S)
         /\ \A i \in DOMAIN Append(s, c) :
              \/ i \in DOMAIN s /\ Append(s, c)[i] = s[i]
              \/ i = Len(s) + 1 /\ Append(s, c)[i] = c
         /\ \A i, j \in DOMAIN Append(s, c) : Append(s, c)[i] = Append(s, c)[j] => i = j
<1>1. /\ Append(s, c) \in Seq(S) /\ Len(s) \in Nat /\ DOMAIN s = 1..Len(s)
      /\ DOMAIN Append(s, c) = 1..(Len(s) + 1)
      /\ \A i \in 1..Len(s) : Append(s, c)[i] = s[i]
      /\ Append(s, c)[Len(s) + 1] = c
  OBVIOUS
<1>2. \A i \in DOMAIN Append(s, c) :
        \/ i \in DOMAIN s /\ Append(s, c)[i] = s[i]
        \/ i = Len(s) + 1 /\ Append(s, c)[i] = c
  BY <1>1
<1>3. QED
  BY <1>1, <1>2

\* However a throttle or an answer moves the spacing, it keeps its bounds.
LEMMA SpacingKeepsBounds ==
  ASSUME NEW x \in MIN_INTERVAL..MAX_INTERVAL
  PROVE  /\ MIN_INTERVAL + ((x - MIN_INTERVAL) * (RECOVERY_DIVISOR - 1)) \div RECOVERY_DIVISOR
              \in MIN_INTERVAL..MAX_INTERVAL
         /\ Smaller(MAX_INTERVAL, Larger(2 * x, Larger(MIN_INTERVAL, THROTTLED_FLOOR)))
              \in MIN_INTERVAL..MAX_INTERVAL
<1>1. /\ MIN_INTERVAL \in Nat /\ MAX_INTERVAL \in Nat /\ RECOVERY_DIVISOR \in Nat \ {0}
      /\ THROTTLED_FLOOR \in Nat \ {0} /\ x \in Int /\ MIN_INTERVAL <= x /\ x <= MAX_INTERVAL
  BY PacerAssumption
<1>2. \A y \in Nat, d \in Nat \ {0} : (y * (d - 1)) \div d \in 0..y
  OBVIOUS
<1>3. x - MIN_INTERVAL \in Nat
  BY <1>1
<1>4. ((x - MIN_INTERVAL) * (RECOVERY_DIVISOR - 1)) \div RECOVERY_DIVISOR \in 0..(x - MIN_INTERVAL)
  BY <1>1, <1>2, <1>3
<1>5. MIN_INTERVAL + ((x - MIN_INTERVAL) * (RECOVERY_DIVISOR - 1)) \div RECOVERY_DIVISOR
        \in MIN_INTERVAL..MAX_INTERVAL
  <2> DEFINE part == ((x - MIN_INTERVAL) * (RECOVERY_DIVISOR - 1)) \div RECOVERY_DIVISOR
  <2>1. part \in 0..(x - MIN_INTERVAL)
    BY <1>4
  <2> HIDE DEF part
  <2>2. MIN_INTERVAL + part \in MIN_INTERVAL..MAX_INTERVAL
    BY <1>1, <2>1
  <2>3. QED
    BY <2>2 DEF part
<1>6. QED
  BY <1>1, <1>5 DEF Smaller, Larger

\* What the wait is, with the pause a number.
LEMMA WaitCoversSpacing ==
  ASSUME PacerTypes
  PROVE  Wait \in Int /\ Wait >= interval - since
BY PacerAssumption DEF PacerTypes, Wait, Larger

LEMMA PauseStaysANumber ==
  ASSUME NEW p \in Nat, NEW n \in Nat
  PROVE  Larger(p, Smaller(MAX_BACKOFF, BACKOFF * 2 ^ n)) \in Nat
<1>1. MAX_BACKOFF \in Int /\ BACKOFF \in Int /\ 2 ^ n \in Int
  BY PacerAssumption
<1> DEFINE b == BACKOFF * 2 ^ n
<1>2. b \in Int
  BY <1>1
<1> HIDE DEF b
<1>3. Larger(p, Smaller(MAX_BACKOFF, b)) \in Nat
  BY <1>1, <1>2 DEF Larger, Smaller
<1>4. QED
  BY <1>3 DEF b

LEMMA PacerTypesStep ==
  PacerInv /\ [PacerNext]_pacerVars => PacerTypes'
<1> SUFFICES ASSUME PacerInv, [PacerNext]_pacerVars
             PROVE  PacerTypes'
  OBVIOUS
<1> USE DEF PacerInv
<1>1. CASE UNCHANGED pacerVars
  BY <1>1 DEF pacerVars, PacerTypes
<1>2. CASE slot
  <2>1. Head(tail) \in Calls /\ Tail(tail) \in Seq(Calls)
    BY <1>2, TailOfDistinct DEF slot, PacerTypes, QueueIsOrdered
  <2>2. stage' \in [Calls -> Stages]
    BY <1>2, <2>1 DEF slot, StartCall, PacerTypes, Stages
  <2>3. since' \in Nat /\ sleep' \in Nat
    BY <1>2, WaitCoversSpacing DEF slot, StartCall, PacerTypes
  <2>4. QED
    BY <1>2, <2>1, <2>2, <2>3 DEF slot, PacerTypes
<1>3. CASE SleepEnds
  BY <1>3 DEF SleepEnds, StartCall, PacerTypes, Stages, InTurn
<1>4. ASSUME NEW c \in Calls, Answered(c)
      PROVE  PacerTypes'
  <2>1. interval' \in MIN_INTERVAL..MAX_INTERVAL
    BY <1>4, SpacingKeepsBounds DEF Answered, PacerTypes
  <2>2. stage' \in [Calls -> Stages]
    BY <1>4 DEF Answered, PacerTypes, Stages
  <2>3. QED
    BY <1>4, <2>1, <2>2 DEF Answered, PacerTypes
<1>5. ASSUME NEW c \in Calls, Throttled(c)
      PROVE  PacerTypes'
  <2>1. interval' \in MIN_INTERVAL..MAX_INTERVAL
    BY <1>5, SpacingKeepsBounds DEF Throttled, PacerTypes
  <2>2. stage' \in [Calls -> Stages]
    BY <1>5 DEF Throttled, PacerTypes, Stages
  <2>3. attempt' \in [Calls -> Nat]
    BY <1>5 DEF Throttled, PacerTypes
  <2>4. tail' \in Seq(Calls)
    <3>1. tail \in Seq(Calls) /\ tail' \in {tail, Append(tail, c)}
      BY <1>5 DEF Throttled, PacerTypes
    <3>2. \A q \in Seq(Calls) : Append(q, c) \in Seq(Calls)
      OBVIOUS
    <3>3. QED
      BY <3>1, <3>2
  <2>5. pause' \in Nat
    BY <1>5, PauseStaysANumber DEF Throttled, PacerTypes
  <2>6. QED
    BY <1>5, <2>1, <2>2, <2>3, <2>4, <2>5 DEF Throttled, PacerTypes
<1>6. ASSUME NEW c \in Calls, Refused(c)
      PROVE  PacerTypes'
  BY <1>6 DEF Refused, PacerTypes, Stages
<1>7. CASE Abort
  BY <1>7 DEF Abort, PacerTypes
<1>8. CASE PacerTick
  BY <1>8, PacerAssumption DEF PacerTick, PacerTypes, Down, Smaller, Long
<1>9. QED
  BY <1>1, <1>2, <1>3, <1>4, <1>5, <1>6, <1>7, <1>8 DEF PacerNext, Ends

LEMMA QueueStaysOrdered ==
  PacerInv /\ [PacerNext]_pacerVars => QueueIsOrdered'
<1> SUFFICES ASSUME PacerInv, [PacerNext]_pacerVars
             PROVE  QueueIsOrdered'
  OBVIOUS
<1> USE DEF PacerInv
<1>1. CASE UNCHANGED <<stage, tail>>
  BY <1>1 DEF QueueIsOrdered, InTurn
<1>2. CASE slot
  <2>1. /\ Head(tail) \in Calls
        /\ \A i \in DOMAIN Tail(tail) : i + 1 \in DOMAIN tail /\ Tail(tail)[i] = tail[i + 1]
        /\ \A i \in DOMAIN Tail(tail) : Tail(tail)[i] # Head(tail)
        /\ \A i, j \in DOMAIN Tail(tail) : Tail(tail)[i] = Tail(tail)[j] => i = j
    BY <1>2, TailOfDistinct DEF slot, PacerTypes, QueueIsOrdered
  <2>2. tail' = Tail(tail) /\ InTurn = {}
    BY <1>2 DEF slot
  <2>3. PICK at \in Stages : stage' = [stage EXCEPT ![Head(tail)] = at]
    BY <1>2 DEF slot, StartCall, Stages
  <2>4. \A i \in DOMAIN tail' : stage'[tail'[i]] = "queued"
    <3> SUFFICES ASSUME NEW i \in DOMAIN tail'
                 PROVE  stage'[tail'[i]] = "queued"
      OBVIOUS
    <3>1. /\ i + 1 \in DOMAIN tail /\ tail'[i] = tail[i + 1] /\ tail'[i] # Head(tail)
      BY <2>1, <2>2
    <3>2. tail[i + 1] \in Calls
      BY <3>1, LenProperties DEF PacerTypes
    <3>3. stage'[tail'[i]] = stage[tail'[i]]
      BY <2>3, <3>1, <3>2 DEF PacerTypes
    <3>4. QED
      BY <3>1, <3>3 DEF QueueIsOrdered
  <2>5. \A c \in InTurn' : c = Head(tail)
    BY <2>1, <2>2, <2>3 DEF InTurn, PacerTypes
  <2>6. QED
    BY <2>1, <2>2, <2>4, <2>5 DEF QueueIsOrdered
<1>3. ASSUME NEW c \in Calls, stage[c] # "queued", UNCHANGED tail,
             NEW at \in Stages \ {"turn"}, stage' = [stage EXCEPT ![c] = at]
      PROVE  QueueIsOrdered'
  <2>1. \A i \in DOMAIN tail : tail[i] \in Calls /\ tail[i] # c
    BY <1>3, LenProperties DEF PacerTypes, QueueIsOrdered
  <2>2. \A i \in DOMAIN tail' : stage'[tail'[i]] = "queued"
    BY <1>3, <2>1 DEF QueueIsOrdered, PacerTypes
  <2>3. InTurn' \subseteq InTurn
    BY <1>3 DEF InTurn, PacerTypes
  <2>4. QED
    BY <1>3, <2>2, <2>3 DEF QueueIsOrdered
<1>4. CASE SleepEnds
  <2>1. PICK c \in InTurn : \E at \in {"stopped", "flight"} : stage' = [stage EXCEPT ![c] = at]
    BY <1>4 DEF SleepEnds, StartCall
  <2>2. PICK at \in {"stopped", "flight"} : stage' = [stage EXCEPT ![c] = at]
    BY <2>1
  <2>3. c \in Calls /\ stage[c] # "queued" /\ UNCHANGED tail /\ at \in Stages \ {"turn"}
    BY <1>4, <2>1 DEF SleepEnds, InTurn, Stages
  <2>4. QED
    BY <1>3, <2>2, <2>3
<1>5. ASSUME NEW c \in Calls, Answered(c) \/ Refused(c)
      PROVE  QueueIsOrdered'
  <2>1. PICK at \in {"answered", "refused"} : stage' = [stage EXCEPT ![c] = at]
    BY <1>5 DEF Answered, Refused
  <2>2. stage[c] # "queued" /\ UNCHANGED tail /\ at \in Stages \ {"turn"}
    BY <1>5 DEF Answered, Refused, Stages
  <2>3. QED
    BY <1>3, <2>1, <2>2
<1>6. ASSUME NEW c \in Calls, Throttled(c)
      PROVE  QueueIsOrdered'
  <2>1. CASE attempt[c] >= RETRIES
    BY <1>3, <1>6, <2>1 DEF Throttled, Stages
  <2>2. CASE ~(attempt[c] >= RETRIES)
    <3>1. stage[c] = "flight" /\ stage' = [stage EXCEPT ![c] = "queued"] /\ tail' = Append(tail, c)
      BY <1>6, <2>2 DEF Throttled
    <3>2. \A i \in DOMAIN tail : tail[i] \in Calls /\ tail[i] # c
      BY <3>1, LenProperties DEF PacerTypes, QueueIsOrdered
    <3>3. /\ \A i \in DOMAIN tail' : \/ i \in DOMAIN tail /\ tail'[i] = tail[i]
                                     \/ i = Len(tail) + 1 /\ tail'[i] = c
          /\ \A i, j \in DOMAIN tail' : tail'[i] = tail'[j] => i = j
      BY <3>1, <3>2, AppendOfDistinct DEF PacerTypes, QueueIsOrdered
    <3>4. stage'[c] = "queued" /\ \A d \in Calls : d # c => stage'[d] = stage[d]
      BY <3>1 DEF PacerTypes
    <3>5. \A i \in DOMAIN tail' : stage'[tail'[i]] = "queued"
      BY <3>2, <3>3, <3>4 DEF QueueIsOrdered
    <3>6. InTurn' \subseteq InTurn
      BY <3>1, <3>4 DEF InTurn
    <3>7. QED
      BY <3>3, <3>5, <3>6 DEF QueueIsOrdered
  <2>3. QED
    BY <2>1, <2>2
<1>7. QED
  BY <1>1, <1>2, <1>4, <1>5, <1>6 DEF PacerNext, Ends, Abort, PacerTick, pacerVars

\* Only a slot or the end of a sleep starts a call, and neither too early.
LEMMA StartIsSpaced ==
  ASSUME PacerInv, [PacerNext]_pacerVars, Started
  PROVE  since >= MIN_INTERVAL /\ ~aborted
<1> USE DEF PacerInv
<1>1. PICK c \in Calls : stage[c] # "flight" /\ stage'[c] = "flight"
  BY DEF Started
<1>2. stage \in [Calls -> Stages] /\ MIN_INTERVAL \in Nat /\ since \in Nat /\ sleep \in Nat
  BY PacerAssumption DEF PacerTypes
<1>3. CASE slot
  <2>1. ~aborted /\ Wait <= 0
    BY <1>1, <1>2, <1>3 DEF slot, StartCall
  <2>2. Wait \in Int /\ Wait >= interval - since /\ interval \in MIN_INTERVAL..MAX_INTERVAL
    BY WaitCoversSpacing DEF PacerTypes
  <2>3. QED
    BY <1>2, <2>1, <2>2, PacerAssumption
<1>4. CASE SleepEnds
  <2>1. ~aborted /\ sleep = 0 /\ InTurn # {}
    BY <1>1, <1>2, <1>4 DEF SleepEnds, StartCall
  <2>2. QED
    BY <1>2, <2>1 DEF TurnSleepsEnough
<1>5. ASSUME NEW d \in Calls, Ends(d)
      PROVE  FALSE
  <2>1. PICK at \in {"answered", "refused", "queued"} : stage' = [stage EXCEPT ![d] = at]
    BY <1>5 DEF Ends, Answered, Throttled, Refused
  <2>2. QED
    BY <1>1, <1>2, <2>1
<1>6. QED
  BY <1>1, <1>3, <1>4, <1>5 DEF PacerNext, Abort, PacerTick, pacerVars

LEMMA SleepStaysEnough ==
  PacerInv /\ [PacerNext]_pacerVars => TurnSleepsEnough'
<1> SUFFICES ASSUME PacerInv, [PacerNext]_pacerVars, InTurn' # {}
             PROVE  (since + sleep >= MIN_INTERVAL)'
  BY DEF TurnSleepsEnough
<1> USE DEF PacerInv
<1>1. /\ stage \in [Calls -> Stages] /\ since \in Nat /\ sleep \in Nat
      /\ interval \in MIN_INTERVAL..MAX_INTERVAL /\ MIN_INTERVAL \in Nat /\ MAX_INTERVAL \in Nat
      /\ MIN_INTERVAL <= MAX_INTERVAL
  BY PacerAssumption DEF PacerTypes
<1>2. CASE slot
  <2>1. CASE ~aborted /\ Wait > 0
    <3>1. since' = since /\ sleep' = Wait
      BY <1>2, <2>1, WaitCoversSpacing DEF slot
    <3>2. QED
      BY <1>1, <3>1, WaitCoversSpacing
  <2>2. CASE ~(~aborted /\ Wait > 0)
    <3>1. PICK at \in {"stopped", "flight"} : stage' = [stage EXCEPT ![Head(tail)] = at]
      BY <1>2, <2>2 DEF slot, StartCall
    <3>2. InTurn' \subseteq InTurn
      BY <1>1, <3>1 DEF InTurn
    <3>3. QED
      BY <1>2, <3>2 DEF slot
  <2>3. QED
    BY <2>1, <2>2
<1>3. CASE SleepEnds
  <2>1. PICK c \in InTurn : \E at \in {"stopped", "flight"} : stage' = [stage EXCEPT ![c] = at]
    BY <1>3 DEF SleepEnds, StartCall
  <2>2. InTurn = {c}
    BY <2>1 DEF QueueIsOrdered
  <2>3. InTurn' = {}
    BY <1>1, <2>1, <2>2 DEF InTurn
  <2>4. QED
    BY <2>3
<1>4. ASSUME NEW c \in Calls, Ends(c)
      PROVE  (since + sleep >= MIN_INTERVAL)'
  <2>1. PICK at \in {"answered", "refused", "queued"} : stage' = [stage EXCEPT ![c] = at]
    BY <1>4 DEF Ends, Answered, Throttled, Refused
  <2>2. InTurn' \subseteq InTurn /\ UNCHANGED <<since, sleep>>
    BY <1>1, <1>4, <2>1 DEF InTurn, Ends, Answered, Throttled, Refused
  <2>3. QED
    BY <2>2 DEF TurnSleepsEnough
<1>5. CASE PacerTick
  <2>1. InTurn # {} /\ sleep > 0
    BY <1>5 DEF PacerTick, InTurn
  <2>2. sleep' = sleep - 1 /\ since' = (IF 2 * MAX_INTERVAL <= since + 1 THEN 2 * MAX_INTERVAL ELSE since + 1)
    BY <1>5, <2>1 DEF PacerTick, Down, Smaller, Long
  <2>3. QED
    BY <1>1, <2>1, <2>2 DEF TurnSleepsEnough
<1>6. CASE Abort \/ UNCHANGED pacerVars
  BY <1>6 DEF Abort, pacerVars, InTurn, TurnSleepsEnough
<1>7. QED
  BY <1>2, <1>3, <1>4, <1>5, <1>6 DEF PacerNext

\* A queue that has not begun holds each call once, and none takes a turn.
LEMMA PacerInvInit == PacerInit => PacerInv
<1> SUFFICES ASSUME PacerInit
             PROVE  PacerInv
  OBVIOUS
<1>1. PICK n \in Nat : n = Cardinality(Calls)
  BY PacerAssumption, FS_CardinalityType
<1>2. /\ tail \in [1..n -> Calls]
      /\ \A i, j \in DOMAIN tail : tail[i] = tail[j] => i = j
  BY <1>1 DEF PacerInit
<1>3. tail \in Seq(Calls) /\ DOMAIN tail = 1..n
  BY <1>2, IsASeq
<1>4. stage = [c \in Calls |-> "queued"] /\ \A i \in DOMAIN tail : tail[i] \in Calls
  BY <1>2 DEF PacerInit
<1>5. PacerTypes
  BY <1>3, PacerAssumption DEF PacerInit, PacerTypes, Stages, Long
<1>6. QueueIsOrdered /\ InTurn = {}
  BY <1>2, <1>4 DEF QueueIsOrdered, InTurn
<1>7. QED
  BY <1>5, <1>6 DEF PacerInv, TurnSleepsEnough

\* Two calls never start closer together than the configured interval, however
\* many are refused together and however the spacing widens and recovers, and
\* none starts after the stop (paced.ts).
THEOREM CallsAreSpaced == PacerInit /\ [][PacerNext]_pacerVars => StartsAreSpaced
<1>1. PacerInit => PacerInv
  BY PacerInvInit
<1>2. PacerInv /\ [PacerNext]_pacerVars => PacerInv'
  BY PacerTypesStep, QueueStaysOrdered, SleepStaysEnough DEF PacerInv
<1>3. PacerInv /\ [PacerNext]_pacerVars
        => [Started => since >= MIN_INTERVAL /\ ~aborted]_pacerVars
  BY StartIsSpaced
<1>4. QED
  BY <1>1, <1>2, <1>3, PTL DEF StartsAreSpaced

\* Whatever mix of throttles and answers the queue has seen, the spacing stays between its
\* bounds, no call is retried more often than it may be and only one takes a turn (paced.ts).
THEOREM PacerIsWellTyped == PacerInit /\ [][PacerNext]_pacerVars => []PacerTypeOK
<1> DEFINE Bounded == attempt \in [Calls -> 0..RETRIES]
<1>1. RETRIES \in Nat
  BY PacerAssumption
<1>2. PacerInit => Bounded
  BY <1>1 DEF PacerInit
<1>3. Bounded /\ [PacerNext]_pacerVars => Bounded'
  <2> SUFFICES ASSUME Bounded, [PacerNext]_pacerVars
               PROVE  Bounded'
    OBVIOUS
  <2>1. \/ attempt' = attempt
        \/ \E c \in Calls : attempt[c] < RETRIES /\ attempt' = [attempt EXCEPT ![c] = attempt[c] + 1]
    BY <1>1 DEF PacerNext, slot, SleepEnds, Ends, Answered, Throttled, Refused, Abort, PacerTick,
       pacerVars
  <2>2. QED
    BY <1>1, <2>1
<1>4. PacerInv /\ Bounded => PacerTypeOK
  <2> SUFFICES ASSUME PacerInv, Bounded
               PROVE  PacerTypeOK
    OBVIOUS
  <2>1. Cardinality(InTurn) <= 1
    <3>1. CASE InTurn = {}
      BY <3>1, FS_EmptySet
    <3>2. CASE InTurn # {}
      <4>1. PICK c : InTurn = {c}
        BY <3>2 DEF PacerInv, QueueIsOrdered
      <4>2. Cardinality({c}) = 1
        BY FS_Singleton
      <4>3. QED
        BY <4>1, <4>2
    <3>3. QED
      BY <3>1, <3>2
  <2>2. QED
    BY <2>1 DEF PacerInv, PacerTypes, QueueIsOrdered, Stages, PacerTypeOK
<1>5. PacerInv /\ [PacerNext]_pacerVars => PacerInv'
  BY PacerTypesStep, QueueStaysOrdered, SleepStaysEnough DEF PacerInv
<1>6. QED
  BY <1>2, <1>3, <1>4, <1>5, PacerInvInit, PTL

-----------------------------------------------------------------------------
(* The two sets of repositories.                                             *)

\* A round's picks: the same rows, and what has been deployed is what was armed when the
\* round froze and had a charge.
PicksAre(picks, requests, frozen, charges, deployed) ==
  /\ memory = [picks |-> picks, applied |-> requests, locked |-> frozen]
  /\ database = [picks |-> picks, requests |-> requests, frozen |-> frozen,
                 charges |-> charges, deployed |-> deployed]
  /\ deployed # {} => frozen
  /\ deployed \subseteq {w \in Owners : picks[w].card = "USE" /\ Holders[w] > 0}
  /\ charges = [w \in Owners |-> IF w \in deployed THEN Holders[w] - 1 ELSE Holders[w]]

PicksAlike ==
  \E picks, requests, frozen, charges, deployed :
    PicksAre(picks, requests, frozen, charges, deployed)

\* Challenges and sessions: memory has not deleted what the database would still accept, and
\* nothing else that is alive.
StoredRow == [key : Keys, expires : Nat, done : BOOLEAN]
MarkDone(rows, hit) == {IF r \in hit THEN [r EXCEPT !.done = TRUE] ELSE r : r \in rows}
Alive(rows) == {r \in rows : ~r.done /\ r.expires > instant}

SessionsAre(mc, ms, drawn, dc, ds) ==
  /\ memory = [challenges |-> mc, sessions |-> ms, drawn |-> drawn]
  /\ database = [challenges |-> dc, sessions |-> ds]
  /\ {mc, ms, dc, ds} \subseteq SUBSET StoredRow /\ instant \in Nat
  /\ Alive(mc) = Alive(dc) /\ Alive(ms) = Alive(ds)

SessionsAlike ==
  \E mc, ms, drawn, dc, ds : SessionsAre(mc, ms, drawn, dc, ds)

\* Genesis requests: one number, and records alike but for the state a claim leaves.
RecordsAlike(m, d) ==
  /\ m.block = d.block /\ m.claim = d.claim
  /\ m.state = d.state \/ (m.state = "COMMITTED" /\ d.state = "FINALIZED")

StoredRequest == [state : {"NONE", "PENDING", "COMMITTED", "FINALIZED"}, block : Nat, claim : Nat]

GenesisAre(m, d, number) ==
  /\ memory = [records |-> m, number |-> number]
  /\ database = [records |-> d, number |-> number]
  /\ m \in [Owners -> StoredRequest] /\ d \in [Owners -> StoredRequest] /\ number \in Nat
  /\ \A w \in Owners : RecordsAlike(m[w], d[w])

GenesisAlike == \E m, d, number : GenesisAre(m, d, number)

StoresInv ==
  /\ kind \in {"picks", "sessions", "genesis"}
  /\ kind = "picks" => PicksAlike
  /\ kind = "sessions" => SessionsAlike
  /\ kind = "genesis" => GenesisAlike
  /\ StoresAgree

LEMMA StoresStart == ASSUME StoresInit PROVE StoresInv
<1>1. StoresAgree
  BY DEF StoresInit, StoresAgree
<1>2. CASE kind = "picks"
  <2>1. PicksInit
    BY <1>2 DEF StoresInit
  <2>2. Holders = [w \in Owners |-> IF w \in {} THEN Holders[w] - 1 ELSE Holders[w]]
    BY StoresAssumption
  <2>3. PicksAre(EmptyMap, {}, FALSE, Holders, {})
    BY <2>1, <2>2 DEF PicksInit, PicksAre
  <2>5. PicksAlike
    BY <2>3 DEF PicksAlike
  <2>4. QED
    BY <1>1, <1>2, <2>5 DEF StoresInv
<1>3. CASE kind = "sessions"
  <2>1. SessionsInit /\ instant = 0
    BY <1>3 DEF StoresInit
  <2>2. SessionsAre({}, {}, {}, {}, {})
    BY <2>1 DEF SessionsInit, SessionsAre
  <2>3. QED
    BY <1>1, <1>3, <2>2 DEF StoresInv, SessionsAlike
<1>4. CASE kind = "genesis"
  <2>1. GenesisInit
    BY <1>4 DEF StoresInit
  <2>2. PICK none : none = [w \in Owners |-> NoRequest]
    OBVIOUS
  <2>3. none \in [Owners -> StoredRequest] /\ \A w \in Owners : RecordsAlike(none[w], none[w])
    BY <2>2 DEF StoredRequest, NoRequest, RecordsAlike
  <2>6. GenesisAre(none, none, 1)
    BY <2>1, <2>2, <2>3 DEF GenesisInit, GenesisAre
  <2>4. GenesisAlike
    BY <2>6 DEF GenesisAlike
  <2>5. QED
    BY <1>1, <1>4, <2>4 DEF StoresInv
<1> QED
  BY <1>2, <1>3, <1>4 DEF StoresInit

LEMMA PicksStep ==
  ASSUME PicksAlike, PicksNext
  PROVE  PicksAlike' /\ StoresAgree'
<1>1. PICK picks, requests, frozen, charges, deployed :
        PicksAre(picks, requests, frozen, charges, deployed)
  BY DEF PicksAlike
\* A call that leaves the frozen round alone and otherwise puts the same in both.
<1>2. ASSUME NEW p, NEW q,
             memory' = IF frozen THEN memory
                       ELSE [picks |-> p, applied |-> q, locked |-> frozen],
             database' = IF frozen THEN database
                         ELSE [picks |-> p, requests |-> q, frozen |-> frozen,
                               charges |-> charges, deployed |-> deployed]
      PROVE  PicksAlike'
  <2>1. CASE frozen
    <3>1. PicksAre(picks, requests, frozen, charges, deployed)'
      BY <1>1, <1>2, <2>1 DEF PicksAre
    <3>2. QED
      BY <3>1 DEF PicksAlike
  <2>2. CASE ~frozen
    <3>1. PicksAre(p, q, frozen, charges, deployed)'
      BY <1>1, <1>2, <2>2 DEF PicksAre
    <3>2. QED
      BY <3>1 DEF PicksAlike
  <2>3. QED
    BY <2>1, <2>2
<1>3. ASSUME NEW w \in Owners, NEW pick, submit(w, pick)
      PROVE  PicksAlike' /\ StoresAgree'
  <2>1. PICK seen : seen = Seen(requests, w, pick.key)
    OBVIOUS
  <2>2. SeenInMemory(w, pick.key) = seen /\ Seen(database.requests, w, pick.key) = seen
    BY <1>1, <2>1 DEF PicksAre, SeenInMemory
  <2>3. PICK p : p = IF seen # {} THEN picks ELSE [picks EXCEPT ![w] = pick]
    OBVIOUS
  <2>4. PICK q : q = IF seen # {} THEN requests ELSE requests \cup {[wallet |-> w, pick |-> pick]}
    OBVIOUS
  <2>5. /\ memory' = IF frozen THEN memory
                     ELSE [picks |-> p, applied |-> q, locked |-> frozen]
        /\ database' = IF frozen THEN database
                       ELSE [picks |-> p, requests |-> q, frozen |-> frozen,
                             charges |-> charges, deployed |-> deployed]
    <3>1. memory' = IF memory.locked \/ SeenInMemory(w, pick.key) # {} THEN memory
                    ELSE [memory EXCEPT !.picks[w] = pick,
                                        !.applied = @ \cup {[wallet |-> w, pick |-> pick]}]
      BY <1>3 DEF submit
    <3>2. database' = IF database.frozen \/ Seen(database.requests, w, pick.key) # {} THEN database
                      ELSE [database EXCEPT !.picks[w] = pick,
                                            !.requests = @ \cup {[wallet |-> w, pick |-> pick]}]
      BY <1>3 DEF submit
    <3>3. CASE seen # {}
      BY <1>1, <2>2, <2>3, <2>4, <3>1, <3>2, <3>3 DEF PicksAre
    <3>4. CASE seen = {}
      <4>1. p = [picks EXCEPT ![w] = pick] /\ q = requests \cup {[wallet |-> w, pick |-> pick]}
        BY <2>3, <2>4, <3>4
      <4>2. memory.picks = picks /\ memory.applied = requests /\ memory.locked = frozen
        BY <1>1 DEF PicksAre
      <4>3. ~frozen => memory' = [picks |-> p, applied |-> q, locked |-> frozen]
        BY <1>1, <2>2, <3>1, <3>4, <4>1, <4>2 DEF PicksAre
      <4>4. ~frozen => database' = [picks |-> p, requests |-> q, frozen |-> frozen,
                                    charges |-> charges, deployed |-> deployed]
        BY <1>1, <2>2, <3>2, <3>4, <4>1 DEF PicksAre
      <4>5. QED
        BY <1>1, <3>1, <3>2, <4>3, <4>4 DEF PicksAre
    <3>5. QED
      BY <3>3, <3>4
  <2>6. StoresAgree'
    BY <1>1, <1>3, <2>2 DEF PicksAre, submit, Says, StoresAgree
  <2>7. QED
    BY <1>2, <2>5, <2>6
<1>4. ASSUME NEW w \in Owners, withdraw(w)
      PROVE  PicksAlike' /\ StoresAgree'
  <2>1. PICK p : p = IF picks[w] = NoPick THEN picks ELSE [picks EXCEPT ![w] = NoPick]
    OBVIOUS
  <2>2. PICK q : q = IF picks[w] = NoPick THEN requests
                     ELSE requests \ Seen(requests, w, picks[w].key)
    OBVIOUS
  <2>3. /\ memory' = IF frozen THEN memory
                     ELSE [picks |-> p, applied |-> q, locked |-> frozen]
        /\ database' = IF frozen THEN database
                       ELSE [picks |-> p, requests |-> q, frozen |-> frozen,
                             charges |-> charges, deployed |-> deployed]
    <3>1. memory' = IF memory.locked \/ memory.picks[w] = NoPick THEN memory
                    ELSE [memory EXCEPT !.picks[w] = NoPick,
                                        !.applied = @ \ Seen(@, w, memory.picks[w].key)]
      BY <1>4 DEF withdraw
    <3>2. database' = IF database.frozen \/ database.picks[w] = NoPick THEN database
                      ELSE [database EXCEPT !.picks[w] = NoPick,
                                            !.requests = @ \ Seen(@, w, database.picks[w].key)]
      BY <1>4 DEF withdraw
    <3>3. CASE picks[w] = NoPick
      BY <1>1, <2>1, <2>2, <3>1, <3>2, <3>3 DEF PicksAre
    <3>4. CASE picks[w] # NoPick
      <4>1. p = [picks EXCEPT ![w] = NoPick] /\ q = requests \ Seen(requests, w, picks[w].key)
        BY <2>1, <2>2, <3>4
      <4>2. memory.picks = picks /\ memory.applied = requests /\ memory.locked = frozen
        BY <1>1 DEF PicksAre
      <4>3. ~frozen => memory' = [picks |-> p, applied |-> q, locked |-> frozen]
        BY <1>1, <3>1, <3>4, <4>1, <4>2 DEF PicksAre
      <4>4. ~frozen => database' = [picks |-> p, requests |-> q, frozen |-> frozen,
                                    charges |-> charges, deployed |-> deployed]
        BY <1>1, <3>2, <3>4, <4>1 DEF PicksAre
      <4>5. QED
        BY <1>1, <3>1, <3>2, <4>3, <4>4 DEF PicksAre
    <3>5. QED
      BY <3>3, <3>4
  <2>4. StoresAgree'
    BY <1>1, <1>4 DEF PicksAre, withdraw, Says, StoresAgree
  <2>5. QED
    BY <1>2, <2>3, <2>4
<1>5. ASSUME NEW w \in Owners, NEW card, decideCard(w, card)
      PROVE  PicksAlike' /\ StoresAgree'
  <2>1. PICK p : p = [picks EXCEPT ![w] = IF picks[w] = NoPick THEN NoPick
                                          ELSE [picks[w] EXCEPT !.card = card]]
    OBVIOUS
  <2>2. /\ memory' = IF frozen THEN memory
                     ELSE [picks |-> p, applied |-> requests, locked |-> frozen]
        /\ database' = IF frozen THEN database
                       ELSE [picks |-> p, requests |-> requests, frozen |-> frozen,
                             charges |-> charges, deployed |-> deployed]
    BY <1>1, <1>5, <2>1 DEF PicksAre, decideCard
  <2>3. StoresAgree'
    BY <1>1, <1>5 DEF PicksAre, decideCard, Says, StoresAgree
  <2>4. QED
    BY <1>2, <2>2, <2>3
<1>6. ASSUME lockedPicks
      PROVE  PicksAlike' /\ StoresAgree'
  <2>1. PICK fresh : fresh = {w \in {v \in Owners : picks[v].card = "USE"} \ deployed : charges[w] > 0}
    OBVIOUS
  <2>2. PICK now : now = deployed \cup fresh
    OBVIOUS
  <2>3. PICK left : left = [w \in Owners |-> IF w \in fresh THEN charges[w] - 1 ELSE charges[w]]
    OBVIOUS
  <2>4. /\ memory' = [picks |-> picks, applied |-> requests, locked |-> TRUE]
        /\ database' = [picks |-> picks, requests |-> requests, frozen |-> TRUE,
                        charges |-> left, deployed |-> now]
    BY <1>1, <1>6, <2>1, <2>2, <2>3 DEF PicksAre, lockedPicks
  <2>5. now = {w \in Owners : picks[w].card = "USE" /\ Holders[w] > 0}
    BY <1>1, <2>1, <2>2, StoresAssumption DEF PicksAre
  <2>6. left = [w \in Owners |-> IF w \in now THEN Holders[w] - 1 ELSE Holders[w]]
    BY <1>1, <2>1, <2>2, <2>3 DEF PicksAre
  <2>7. PicksAre(picks, requests, TRUE, left, now)'
    BY <2>4, <2>5, <2>6 DEF PicksAre
  <2>8. answers' = [memory |-> [w \in Owners |-> <<picks[w].choice, picks[w].card = "USE" /\ Holders[w] > 0>>],
                    database |-> [w \in Owners |-> <<picks[w].choice, w \in now>>]]
    BY <1>1, <1>6, <2>1, <2>2 DEF PicksAre, lockedPicks, Says
  <2>9. StoresAgree'
    BY <2>5, <2>8 DEF StoresAgree
  <2>10. QED
    BY <2>7, <2>9 DEF PicksAlike
<1> QED
  BY <1>3, <1>4, <1>5, <1>6 DEF PicksNext

\* What the database marks as done is not alive, the rest is as it was.
LEMMA MarkedRows ==
  ASSUME NEW rows \in SUBSET StoredRow, NEW hit, NEW marked,
         marked = MarkDone(rows, hit)
  PROVE  marked \in SUBSET StoredRow /\ Alive(marked) = Alive(rows) \ hit
<1>1. \A r \in rows : [r EXCEPT !.done = TRUE] \in StoredRow /\ [r EXCEPT !.done = TRUE].done = TRUE
  BY DEF StoredRow
<1>2. marked \in SUBSET StoredRow
  BY <1>1 DEF MarkDone
<1>3. ASSUME NEW q \in Alive(marked) PROVE q \in Alive(rows) \ hit
  <2>1. PICK r \in rows : q = IF r \in hit THEN [r EXCEPT !.done = TRUE] ELSE r
    BY <1>3 DEF Alive, MarkDone
  <2>2. ~q.done /\ q.expires > instant
    BY <1>3 DEF Alive
  <2>3. r \notin hit /\ q = r
    BY <1>1, <2>1, <2>2
  <2>4. QED
    BY <2>2, <2>3 DEF Alive
<1>4. ASSUME NEW q \in Alive(rows) \ hit PROVE q \in Alive(marked)
  <2>1. q \in rows /\ q \notin hit /\ ~q.done /\ q.expires > instant
    BY <1>4 DEF Alive
  <2>2. q \in marked
    BY <2>1 DEF MarkDone
  <2>3. QED
    BY <2>1, <2>2 DEF Alive
<1> QED
  BY <1>2, <1>3, <1>4

LEMMA SessionsStep ==
  ASSUME SessionsAlike, SessionsNext, instant' = instant
  PROVE  SessionsAlike' /\ StoresAgree'
<1>1. PICK mc, ms, drawn, dc, ds : SessionsAre(mc, ms, drawn, dc, ds)
  BY DEF SessionsAlike
<1>2. /\ memory.challenges = mc /\ memory.sessions = ms /\ memory.drawn = drawn
      /\ database.challenges = dc /\ database.sessions = ds /\ instant \in Nat
      /\ mc \in SUBSET StoredRow /\ ms \in SUBSET StoredRow
      /\ dc \in SUBSET StoredRow /\ ds \in SUBSET StoredRow
      /\ Alive(mc) = Alive(dc) /\ Alive(ms) = Alive(ds)
      /\ memory = [challenges |-> mc, sessions |-> ms, drawn |-> drawn]
      /\ database = [challenges |-> dc, sessions |-> ds]
  BY <1>1 DEF SessionsAre
<1>3. ASSUME NEW mc2 \in SUBSET StoredRow, NEW ms2 \in SUBSET StoredRow, NEW drawn2,
             NEW dc2 \in SUBSET StoredRow, NEW ds2 \in SUBSET StoredRow,
             memory' = [challenges |-> mc2, sessions |-> ms2, drawn |-> drawn2],
             database' = [challenges |-> dc2, sessions |-> ds2],
             Alive(mc2) = Alive(dc2), Alive(ms2) = Alive(ds2)
      PROVE  SessionsAlike'
  <2>1. SessionsAre(mc2, ms2, drawn2, dc2, ds2)'
    BY <1>2, <1>3 DEF SessionsAre, Alive
  <2>2. QED
    BY <2>1 DEF SessionsAlike
<1>4. ASSUME NEW key \in Keys PROVE Row(key) \in StoredRow
  BY <1>2 DEF Row, StoredRow
<1>5. ASSUME NEW key \in Keys, saveChallenge(key)
      PROVE  SessionsAlike' /\ StoresAgree'
  <2>1. PICK row : row = Row(key)
    OBVIOUS
  <2>2. /\ memory' = [challenges |-> mc \cup {row}, sessions |-> ms, drawn |-> drawn \cup {key}]
        /\ database' = [challenges |-> dc \cup {row}, sessions |-> ds]
    BY <1>2, <1>5, <2>1 DEF saveChallenge
  <2>3. /\ mc \cup {row} \in SUBSET StoredRow /\ dc \cup {row} \in SUBSET StoredRow
        /\ Alive(mc \cup {row}) = Alive(dc \cup {row})
    BY <1>2, <1>4, <2>1 DEF Alive
  <2>4. SessionsAlike'
    BY <1>2, <1>3, <2>2, <2>3, SMTT(30)
  <2>5. QED
    BY <1>5, <2>4 DEF saveChallenge, Says, StoresAgree
<1>6. ASSUME NEW key \in Keys, createSession(key)
      PROVE  SessionsAlike' /\ StoresAgree'
  <2>1. PICK row : row = Row(key)
    OBVIOUS
  <2>2. /\ memory' = [challenges |-> mc, sessions |-> ms \cup {row}, drawn |-> drawn]
        /\ database' = [challenges |-> dc, sessions |-> ds \cup {row}]
    BY <1>2, <1>6, <2>1 DEF createSession
  <2>3. /\ ms \cup {row} \in SUBSET StoredRow /\ ds \cup {row} \in SUBSET StoredRow
        /\ Alive(ms \cup {row}) = Alive(ds \cup {row})
    BY <1>2, <1>4, <2>1 DEF Alive
  <2>4. SessionsAlike'
    BY <1>2, <1>3, <2>2, <2>3
  <2>5. QED
    BY <1>6, <2>4 DEF createSession, Says, StoresAgree
<1>7. ASSUME NEW key \in Keys, consume(key)
      PROVE  SessionsAlike' /\ StoresAgree'
  <2>1. PICK live : live = {r \in dc : r.key = key /\ ~r.done /\ r.expires > instant}
    OBVIOUS
  <2>2. live = {r \in mc : r.key = key /\ ~r.done /\ r.expires > instant}
    BY <1>2, <2>1 DEF Alive
  <2>3. PICK kept : kept = {r \in mc : r.key # key}
    OBVIOUS
  <2>4. PICK marked : marked = MarkDone(dc, live)
    OBVIOUS
  <2>5. /\ memory' = [challenges |-> kept, sessions |-> ms, drawn |-> drawn]
        /\ database' = [challenges |-> marked, sessions |-> ds]
    BY <1>2, <1>7, <2>1, <2>3, <2>4 DEF consume, MarkDone
  <2>6. marked \in SUBSET StoredRow /\ Alive(marked) = Alive(dc) \ live
    BY <1>2, <2>4, MarkedRows
  <2>7. kept \in SUBSET StoredRow /\ Alive(kept) = Alive(mc) \ live
    BY <1>2, <2>2, <2>3 DEF Alive
  <2>8. SessionsAlike'
    BY <1>2, <1>3, <2>5, <2>6, <2>7
  <2>9. StoresAgree'
    BY <1>2, <1>7, <2>1, <2>2 DEF consume, Says, StoresAgree
  <2>10. QED
    BY <2>8, <2>9
<1>8. ASSUME NEW key \in Keys, revokeSession(key)
      PROVE  SessionsAlike' /\ StoresAgree'
  <2>1. PICK hit : hit = {r \in ds : r.key = key}
    OBVIOUS
  <2>2. PICK kept : kept = {r \in ms : r.key # key}
    OBVIOUS
  <2>3. PICK marked : marked = MarkDone(ds, hit)
    OBVIOUS
  <2>4. /\ memory' = [challenges |-> mc, sessions |-> kept, drawn |-> drawn]
        /\ database' = [challenges |-> dc, sessions |-> marked]
    BY <1>2, <1>8, <2>1, <2>2, <2>3 DEF revokeSession, MarkDone
  <2>5. marked \in SUBSET StoredRow /\ Alive(marked) = Alive(ds) \ hit
    BY <1>2, <2>3, MarkedRows
  <2>6. kept \in SUBSET StoredRow /\ Alive(kept) = Alive(ds) \ hit
    BY <1>2, <2>1, <2>2 DEF Alive
  <2>7. SessionsAlike'
    BY <1>2, <1>3, <2>4, <2>5, <2>6
  <2>8. QED
    BY <1>8, <2>7 DEF revokeSession, Says, StoresAgree
<1>9. ASSUME NEW key \in Keys, readSession(key)
      PROVE  SessionsAlike' /\ StoresAgree'
  <2>1. {r \in ms : r.key = key /\ ~r.done /\ r.expires > instant} =
        {r \in ds : r.key = key /\ ~r.done /\ r.expires > instant}
    BY <1>2 DEF Alive
  <2>2. StoresAgree'
    BY <1>2, <1>9, <2>1 DEF readSession, Says, StoresAgree
  <2>3. memory' = memory /\ database' = database
    BY <1>9 DEF readSession
  <2>4. SessionsAlike'
    BY <1>2, <1>3, <2>3
  <2>5. QED
    BY <2>2, <2>4
<1>10. ASSUME pruneBoth
       PROVE  SessionsAlike' /\ StoresAgree'
  <2>1. PICK mc2 : mc2 = {r \in mc : r.expires > instant}
    OBVIOUS
  <2>2. PICK ms2 : ms2 = {r \in ms : r.expires > instant}
    OBVIOUS
  <2>3. PICK dc2 : dc2 = {r \in dc : r.expires > instant}
    OBVIOUS
  <2>4. PICK ds2 : ds2 = {r \in ds : r.expires > instant}
    OBVIOUS
  <2>5. /\ memory' = [challenges |-> mc2, sessions |-> ms2, drawn |-> drawn]
        /\ database' = [challenges |-> dc2, sessions |-> ds2]
    BY <1>2, <1>10, <2>1, <2>2, <2>3, <2>4 DEF pruneBoth
  <2>6. /\ {mc2, ms2, dc2, ds2} \subseteq SUBSET StoredRow
        /\ Alive(mc2) = Alive(dc2) /\ Alive(ms2) = Alive(ds2)
    BY <1>2, <2>1, <2>2, <2>3, <2>4 DEF Alive
  <2>7. SessionsAlike'
    BY <1>3, <2>5, <2>6
  <2>8. QED
    BY <1>10, <2>7 DEF pruneBoth, Says, StoresAgree
<1> QED
  BY <1>5, <1>6, <1>7, <1>8, <1>9, <1>10 DEF SessionsNext

\* Time only takes rows away from those that are alive, the same from both.
LEMMA StoreTickStep ==
  ASSUME SessionsAlike, StoreTick
  PROVE  SessionsAlike'
<1>1. PICK mc, ms, drawn, dc, ds : SessionsAre(mc, ms, drawn, dc, ds)
  BY DEF SessionsAlike
<1>2. instant \in Nat /\ instant' = instant + 1 /\ memory' = memory /\ database' = database
  BY <1>1 DEF SessionsAre, StoreTick
<1>3. ASSUME NEW a \in SUBSET StoredRow, NEW b \in SUBSET StoredRow, Alive(a) = Alive(b)
      PROVE  Alive(a)' = Alive(b)'
  <2>1. \A r \in StoredRow : r.expires \in Nat
    BY DEF StoredRow
  <2>2. \A r \in StoredRow : r.expires > instant + 1 => r.expires > instant
    BY <1>2, <2>1
  <2>3. \A r \in Alive(a)' : r \in Alive(a)
    BY <1>2, <2>2 DEF Alive
  <2>4. \A r \in Alive(b)' : r \in Alive(b)
    BY <1>2, <2>2 DEF Alive
  <2>5. \A r : r \in Alive(a)' <=> r \in Alive(b)'
    BY <1>2, <1>3, <2>3, <2>4 DEF Alive
  <2>6. QED
    BY <2>5
<1>4. SessionsAre(mc, ms, drawn, dc, ds)'
  BY <1>1, <1>2, <1>3 DEF SessionsAre
<1> QED
  BY <1>4 DEF SessionsAlike

LEMMA GenesisStep ==
  ASSUME GenesisAlike, GenesisStoreNext
  PROVE  GenesisAlike' /\ StoresAgree'
<1>1. PICK m, d, number : GenesisAre(m, d, number)
  BY DEF GenesisAlike
<1>2. /\ memory = [records |-> m, number |-> number]
      /\ database = [records |-> d, number |-> number]
      /\ m \in [Owners -> StoredRequest] /\ d \in [Owners -> StoredRequest] /\ number \in Nat
      /\ \A w \in Owners : RecordsAlike(m[w], d[w])
      /\ memory.records = m /\ database.records = d
      /\ memory.number = number /\ database.number = number
  BY <1>1 DEF GenesisAre
<1>3. ASSUME NEW w \in Owners, NEW x \in StoredRequest, NEW y \in StoredRequest,
             RecordsAlike(x, y), NEW n \in Nat,
             memory' = [records |-> [m EXCEPT ![w] = x], number |-> n],
             database' = [records |-> [d EXCEPT ![w] = y], number |-> n]
      PROVE  GenesisAlike'
  <2>1. PICK m2, d2 : m2 = [m EXCEPT ![w] = x] /\ d2 = [d EXCEPT ![w] = y]
    OBVIOUS
  <2>2. /\ m2 \in [Owners -> StoredRequest] /\ d2 \in [Owners -> StoredRequest]
        /\ \A v \in Owners : RecordsAlike(m2[v], d2[v])
    BY <1>2, <1>3, <2>1
  <2>3. GenesisAre(m2, d2, n)'
    BY <1>3, <2>1, <2>2 DEF GenesisAre
  <2>4. QED
    BY <2>3 DEF GenesisAlike
<1>4. ASSUME memory' = memory, database' = database PROVE GenesisAlike'
  <2>1. GenesisAre(m, d, number)'
    BY <1>1, <1>4 DEF GenesisAre
  <2>2. QED
    BY <2>1 DEF GenesisAlike
<1>5. ASSUME NEW w \in Owners, NEW block \in 1..2, openRequest(w, block)
      PROVE  GenesisAlike' /\ StoresAgree'
  <2>1. PICK x : x = [state |-> "PENDING", block |-> block, claim |-> 0]
    OBVIOUS
  <2>2. x \in StoredRequest /\ RecordsAlike(x, x)
    BY <2>1 DEF StoredRequest, RecordsAlike
  <2>3. m[w] = NoRequest <=> d[w] = NoRequest
    <3>1. m[w] \in StoredRequest /\ d[w] \in StoredRequest /\ RecordsAlike(m[w], d[w])
      BY <1>2
    <3>2. \A r \in StoredRequest : r = NoRequest <=> r.state = "NONE" /\ r.block = 0 /\ r.claim = 0
      BY DEF StoredRequest, NoRequest
    <3>3. QED
      BY <3>1, <3>2 DEF RecordsAlike
  <2>4. answers' = [memory |-> memory'.records[w].block, database |-> database'.records[w].block]
    BY <1>5 DEF openRequest, Says
  <2>5. /\ memory' = IF m[w] = NoRequest THEN [memory EXCEPT !.records[w] = x] ELSE memory
        /\ database' = IF d[w] = NoRequest THEN [database EXCEPT !.records[w] = x] ELSE database
    BY <1>2, <1>5, <2>1 DEF openRequest
  <2>6. CASE m[w] = NoRequest
    <3>1. /\ memory' = [records |-> [m EXCEPT ![w] = x], number |-> number]
          /\ database' = [records |-> [d EXCEPT ![w] = x], number |-> number]
      BY <1>2, <2>3, <2>5, <2>6
    <3>2. memory'.records[w] = x /\ database'.records[w] = x
      BY <1>2, <3>1
    <3>3. QED
      BY <1>2, <1>3, <2>2, <2>4, <3>1, <3>2 DEF StoresAgree
  <2>7. CASE m[w] # NoRequest
    <3>1. memory' = memory /\ database' = database
      BY <2>3, <2>5, <2>7
    <3>2. StoresAgree'
      BY <1>2, <2>4, <3>1 DEF StoresAgree, RecordsAlike
    <3>3. QED
      BY <1>4, <3>1, <3>2
  <2>8. QED
    BY <2>6, <2>7
<1>6. ASSUME NEW w \in Owners, commitRequest(w)
      PROVE  GenesisAlike' /\ StoresAgree'
  <2>1. m[w] \in StoredRequest /\ d[w] \in StoredRequest /\ RecordsAlike(m[w], d[w])
    BY <1>2
  <2>2. m[w].state = "PENDING" <=> d[w].state = "PENDING"
    BY <2>1 DEF RecordsAlike
  <2>3. answers' = [memory |-> memory' # memory, database |-> database' # database]
    BY <1>6 DEF commitRequest, Says
  <2>4. PICK x, y : x = [m[w] EXCEPT !.state = "COMMITTED"] /\ y = [d[w] EXCEPT !.state = "COMMITTED"]
    OBVIOUS
  <2>5. /\ x \in StoredRequest /\ y \in StoredRequest
        /\ x.state = "COMMITTED" /\ y.state = "COMMITTED"
        /\ x.block = m[w].block /\ y.block = d[w].block
        /\ x.claim = m[w].claim /\ y.claim = d[w].claim
    BY <2>1, <2>4 DEF StoredRequest
  <2>6. RecordsAlike(x, y)
    BY <2>1, <2>5 DEF RecordsAlike
  <2>7. CASE m[w].state = "PENDING"
    <3>1. /\ memory' = [memory EXCEPT !.records[w].state = "COMMITTED"]
          /\ database' = [database EXCEPT !.records[w].state = "COMMITTED"]
      BY <1>2, <1>6, <2>2, <2>7 DEF commitRequest
    <3>2. /\ memory' = [records |-> [m EXCEPT ![w] = x], number |-> number]
          /\ database' = [records |-> [d EXCEPT ![w] = y], number |-> number]
      BY <1>2, <2>4, <3>1
    <3>3. memory'.records[w] = x /\ database'.records[w] = y
      BY <1>2, <3>2
    <3>4. memory' # memory /\ database' # database
      BY <1>2, <2>2, <2>5, <2>7, <3>3
    <3>5. QED
      BY <1>2, <1>3, <2>3, <2>5, <2>6, <3>2, <3>4 DEF StoresAgree
  <2>8. CASE m[w].state # "PENDING"
    <3>1. memory' = memory /\ database' = database
      BY <1>2, <1>6, <2>2, <2>8 DEF commitRequest
    <3>2. QED
      BY <1>4, <2>3, <3>1 DEF StoresAgree
  <2>9. QED
    BY <2>7, <2>8
<1>7. ASSUME NEW w \in Owners, recordClaim(w)
      PROVE  GenesisAlike' /\ StoresAgree'
  <2>1. m[w] \in StoredRequest /\ d[w] \in StoredRequest /\ RecordsAlike(m[w], d[w])
    BY <1>2
  <2>2. answers' = [memory |-> memory'.records[w].claim, database |-> database'.records[w].claim]
    BY <1>7 DEF recordClaim, Says
  <2>3. PICK x, y : /\ x = [m[w] EXCEPT !.claim = number, !.state = "COMMITTED"]
                    /\ y = [d[w] EXCEPT !.claim = number, !.state = "FINALIZED"]
    OBVIOUS
  <2>4. /\ x \in StoredRequest /\ y \in StoredRequest
        /\ x.state = "COMMITTED" /\ y.state = "FINALIZED"
        /\ x.block = m[w].block /\ y.block = d[w].block
        /\ x.claim = number /\ y.claim = number
    BY <1>2, <2>1, <2>3 DEF StoredRequest
  <2>5. RecordsAlike(x, y)
    BY <2>1, <2>4 DEF RecordsAlike
  <2>6. m[w].claim = d[w].claim
    BY <2>1 DEF RecordsAlike
  <2>7. CASE m[w].claim = 0
    <3>1. /\ memory' = [memory EXCEPT !.records[w].claim = memory.number,
                                      !.records[w].state = "COMMITTED", !.number = @ + 1]
          /\ database' = [database EXCEPT !.records[w].claim = database.number,
                                          !.records[w].state = "FINALIZED", !.number = @ + 1]
      BY <1>2, <1>7, <2>6, <2>7 DEF recordClaim
    <3>2. /\ memory' = [records |-> [m EXCEPT ![w] = x], number |-> number + 1]
          /\ database' = [records |-> [d EXCEPT ![w] = y], number |-> number + 1]
      BY <1>2, <2>3, <3>1
    <3>3. memory'.records[w] = x /\ database'.records[w] = y
      BY <1>2, <3>2
    <3>4. number + 1 \in Nat
      BY <1>2
    <3>5. GenesisAlike'
      BY <1>3, <2>4, <2>5, <3>2, <3>4
    <3>6. QED
      BY <2>2, <2>4, <3>3, <3>5 DEF StoresAgree
  <2>8. CASE m[w].claim # 0
    <3>1. memory' = memory /\ database' = database
      BY <1>2, <1>7, <2>6, <2>8 DEF recordClaim
    <3>2. QED
      BY <1>2, <1>4, <2>2, <2>6, <3>1 DEF StoresAgree
  <2>9. QED
    BY <2>7, <2>8
<1> QED
  BY <1>5, <1>6, <1>7 DEF GenesisStoreNext

\* Stores.StoresAgree: after any calls, the repositories of the tests and those of the
\* deployment have answered alike (api/src/pick-store.ts, auth/src/memory.ts,
\* genesis-service/src/memory.ts against store-postgres).
THEOREM RepositoriesAnswerAlike ==
  StoresInit /\ [][StoresNext]_storeVars => []StoresAgree
<1>1. ASSUME StoresInv, StoresNext PROVE StoresInv'
  <2>1. CASE StoreTick
    <3>1. kind = "sessions" /\ kind' = kind /\ answers' = answers
      BY <2>1 DEF StoreTick
    <3>2. SessionsAlike'
      BY <1>1, <2>1, <3>1, StoreTickStep DEF StoresInv
    <3>3. QED
      BY <1>1, <3>1, <3>2 DEF StoresInv, StoresAgree
  <2>2. CASE /\ UNCHANGED <<kind, instant>>
             /\ \/ kind = "picks" /\ PicksNext
                \/ kind = "sessions" /\ SessionsNext
                \/ kind = "genesis" /\ GenesisStoreNext
    <3>1. CASE kind = "picks" /\ PicksNext
      BY <1>1, <2>2, <3>1, PicksStep DEF StoresInv
    <3>2. CASE kind = "sessions" /\ SessionsNext
      BY <1>1, <2>2, <3>2, SessionsStep DEF StoresInv
    <3>3. CASE kind = "genesis" /\ GenesisStoreNext
      BY <1>1, <2>2, <3>3, GenesisStep DEF StoresInv
    <3>4. QED
      BY <2>2, <3>1, <3>2, <3>3
  <2>3. QED
    BY <1>1, <2>1, <2>2 DEF StoresNext
<1>2. ASSUME StoresInv, UNCHANGED storeVars PROVE StoresInv'
  <2>1. PicksAlike => PicksAlike'
    <3> SUFFICES ASSUME NEW p, NEW q, NEW f, NEW c, NEW d, PicksAre(p, q, f, c, d)
                 PROVE  PicksAre(p, q, f, c, d)'
      BY DEF PicksAlike
    <3>1. QED
      BY <1>2 DEF storeVars, PicksAre
  <2>2. SessionsAlike => SessionsAlike'
    <3> SUFFICES ASSUME NEW a, NEW b, NEW c, NEW d, NEW e, SessionsAre(a, b, c, d, e)
                 PROVE  SessionsAre(a, b, c, d, e)'
      BY DEF SessionsAlike
    <3>1. QED
      BY <1>2 DEF storeVars, SessionsAre, Alive
  <2>3. GenesisAlike => GenesisAlike'
    BY <1>2 DEF storeVars, GenesisAlike, GenesisAre
  <2>4. QED
    BY <1>2, <2>1, <2>2, <2>3 DEF StoresInv, storeVars, StoresAgree
<1>3. StoresInv => StoresAgree
  BY DEF StoresInv
<1> QED
  BY <1>1, <1>2, <1>3, StoresStart, PTL

-----------------------------------------------------------------------------
(* Alerts.                                                                   *)

Condition == 0..MaxRounds
AlertMessage == [status : {"FIRING", "RESOLVED", "NOTICE"}, key : Condition \cup {"failed", "started"}]

AlertsTypeOK ==
  /\ world \in [clock : Nat, round : Condition, state : {"OPEN", "FINALIZED"}, endAt : Nat,
                cover : {"covered", "uncovered"}, changes : Nat]
  /\ watch \in [reported : SUBSET Condition, round : Condition, state : {"", "OPEN", "FINALIZED"},
                endAt : Nat, cover : {"unknown", "covered", "uncovered"}]
  /\ sink \in [queue : Seq(AlertMessage), last : [Condition -> {"", "FIRING", "RESOLVED"}]]

\* The places of a queue that hold a message about a condition, and what AlertsBracket asks
\* of one condition.
Places(queue, k) == {i \in DOMAIN queue : About(queue[i], k)}

Bracketed(queue, k, last) ==
  /\ \A i, j \in Places(queue, k) :
       i < j /\ (\A h \in Places(queue, k) : h <= i \/ j <= h) => queue[i].status # queue[j].status
  /\ \A i \in Places(queue, k) : (\A h \in Places(queue, k) : h <= i) => queue[i].status = last

AlertsInv ==
  /\ AlertsTypeOK
  /\ \A k \in Condition : Bracketed(sink.queue, k, sink.last[k])
  /\ \A k \in Condition : k \in watch.reported <=> sink.last[k] = "FIRING"

LEMMA PlacesOfConcat ==
  ASSUME NEW q \in Seq(AlertMessage), NEW m \in Seq(AlertMessage), NEW k
  PROVE  LET c == q \o m IN
         /\ Len(q) \in Nat
         /\ Places(q, k) \subseteq 1..Len(q) /\ Places(m, k) \subseteq 1..Len(m)
         /\ \A i : i \in Places(c, k) <=>
                    i \in Places(q, k) \/ \E j \in Places(m, k) : i = Len(q) + j
         /\ \A i \in Places(q, k) : c[i] = q[i]
         /\ \A i \in Places(m, k) : c[Len(q) + i] = m[i]
<1>0. PICK c : c = q \o m
  OBVIOUS
<1>1. PICK n \in Nat : n = Len(q)
  BY LenProperties
<1>2. PICK l \in Nat : l = Len(m)
  BY LenProperties
<1>3. /\ Len(c) = n + l /\ DOMAIN c = 1..(n + l) /\ DOMAIN q = 1..n /\ DOMAIN m = 1..l
      /\ \A i \in 1..(n + l) : c[i] = IF i <= n THEN q[i] ELSE m[i - n]
  BY <1>0, <1>1, <1>2, ConcatProperties, LenProperties
<1>4. \A i \in 1..n : i \in 1..(n + l) /\ c[i] = q[i]
  BY <1>3
<1>5. ASSUME NEW i \in 1..l PROVE n + i \in 1..(n + l) /\ c[n + i] = m[i]
  <2>1. n + i \in 1..(n + l) /\ ~(n + i <= n) /\ n + i - n = i
    OBVIOUS
  <2>2. QED
    BY <1>3, <2>1
<1>6. ASSUME NEW i \in 1..(n + l), i \notin 1..n PROVE \E j \in 1..l : i = n + j
  <2>1. i - n \in 1..l /\ i = n + (i - n)
    BY <1>6
  <2>2. QED
    BY <2>1
<1>7. Places(q, k) \subseteq 1..n /\ Places(m, k) \subseteq 1..l
  BY <1>3 DEF Places
<1>8. ASSUME NEW i \in Places(c, k)
      PROVE  i \in Places(q, k) \/ \E j \in Places(m, k) : i = n + j
  <2>1. i \in 1..(n + l) /\ About(c[i], k)
    BY <1>3 DEF Places
  <2>2. CASE i \in 1..n
    BY <1>3, <1>4, <2>1, <2>2 DEF Places
  <2>3. CASE i \notin 1..n
    <3>1. PICK j \in 1..l : i = n + j
      BY <1>6, <2>1, <2>3
    <3>2. j \in Places(m, k)
      BY <1>3, <1>5, <2>1, <3>1 DEF Places
    <3>3. QED
      BY <3>1, <3>2
  <2>4. QED
    BY <2>2, <2>3
<1>9. ASSUME NEW i \in Places(q, k) PROVE i \in Places(c, k)
  BY <1>3, <1>4 DEF Places
<1>10. ASSUME NEW j \in Places(m, k) PROVE n + j \in Places(c, k)
  BY <1>3, <1>5 DEF Places
<1>11. \A i : i \in Places(c, k) <=> i \in Places(q, k) \/ \E j \in Places(m, k) : i = n + j
  BY <1>8, <1>9, <1>10
<1> QED
  <2>1. /\ Len(q) \in Nat /\ Places(q, k) \subseteq 1..Len(q) /\ Places(m, k) \subseteq 1..Len(m)
        /\ \A i : i \in Places(c, k) <=>
                    i \in Places(q, k) \/ \E j \in Places(m, k) : i = Len(q) + j
        /\ \A i \in Places(q, k) : c[i] = q[i]
        /\ \A i \in Places(m, k) : c[Len(q) + i] = m[i]
    BY <1>1, <1>2, <1>4, <1>5, <1>7, <1>11
  <2>2. QED
    BY <1>0, <2>1

\* Messages about other things leave what is queued about a condition as it was.
LEMMA NothingAbout ==
  ASSUME NEW q \in Seq(AlertMessage), NEW m \in Seq(AlertMessage), NEW k, NEW last,
         Bracketed(q, k, last), Places(m, k) = {}
  PROVE  Bracketed(q \o m, k, last)
<1>1. PICK c : c = q \o m
  OBVIOUS
<1>2. /\ \A i : i \in Places(c, k) <=>
                  i \in Places(q, k) \/ \E j \in Places(m, k) : i = Len(q) + j
      /\ \A i \in Places(q, k) : c[i] = q[i]
  BY <1>1, PlacesOfConcat
<1>4. Places(c, k) = Places(q, k)
  BY <1>2
<1>3. Bracketed(c, k, last)
  BY <1>2, <1>4 DEF Bracketed
<1> QED
  BY <1>1, <1>3

\* One message that says the other thing keeps what is queued alternating.
LEMMA OneAbout ==
  ASSUME NEW q \in Seq(AlertMessage), NEW m \in Seq(AlertMessage), NEW k, NEW last,
         Bracketed(q, k, last),
         NEW p, Places(m, k) = {p}, m[p].status # last
  PROVE  Bracketed(q \o m, k, m[p].status)
<1>1. PICK c : c = q \o m
  OBVIOUS
<1>2. PICK n : n = Len(q)
  OBVIOUS
<1>3. PICK new : new = n + p
  OBVIOUS
<1>0. /\ Len(q) \in Nat
      /\ Places(q, k) \subseteq 1..Len(q) /\ Places(m, k) \subseteq 1..Len(m)
      /\ \A i : i \in Places(c, k) <=>
                  i \in Places(q, k) \/ \E j \in Places(m, k) : i = Len(q) + j
      /\ \A i \in Places(q, k) : c[i] = q[i]
      /\ \A i \in Places(m, k) : c[Len(q) + i] = m[i]
  BY ONLY <1>1, q \in Seq(AlertMessage), m \in Seq(AlertMessage), PlacesOfConcat
<1>4. /\ n \in Nat /\ Places(q, k) \subseteq 1..n /\ p \in 1..Len(m)
      /\ Places(c, k) = Places(q, k) \cup {new}
      /\ \A i \in Places(q, k) : c[i] = q[i]
      /\ c[new] = m[p]
  BY <1>0, <1>2, <1>3
<1>5. new \in Nat /\ new > n
  BY <1>3, <1>4, LenProperties
<1>6. \A i \in Places(q, k) : i \in Nat /\ i < new
  BY <1>4, <1>5
<1>7. ASSUME NEW i \in Places(c, k), NEW j \in Places(c, k), i < j,
             \A h \in Places(c, k) : h <= i \/ j <= h
      PROVE  c[i].status # c[j].status
  <2>1. i \in Places(q, k)
    BY <1>4, <1>5, <1>6, <1>7
  <2>2. CASE j \in Places(q, k)
    <3>1. \A h \in Places(q, k) : h <= i \/ j <= h
      BY <1>4, <1>7
    <3>2. q[i].status # q[j].status
      BY <1>7, <2>1, <2>2, <3>1 DEF Bracketed
    <3>3. QED
      BY <1>4, <2>1, <2>2, <3>2
  <2>3. CASE j = new
    <3>1. \A h \in Places(q, k) : h <= i
      BY <1>4, <1>5, <1>6, <1>7, <2>3
    <3>2. q[i].status = last
      BY <2>1, <3>1 DEF Bracketed
    <3>3. QED
      BY <1>4, <2>1, <2>3, <3>2
  <2>4. QED
    BY <1>4, <2>2, <2>3
<1>8. ASSUME NEW i \in Places(c, k), \A h \in Places(c, k) : h <= i
      PROVE  c[i].status = m[p].status
  <2>1. i = new
    BY <1>4, <1>5, <1>6, <1>8
  <2>2. QED
    BY <1>4, <2>1
<1>9. Bracketed(c, k, m[p].status)
  BY <1>7, <1>8 DEF Bracketed
<1> QED
  BY <1>1, <1>9

\* The head of the queue is delivered.
LEMMA DeliveredBracket ==
  ASSUME NEW q \in Seq(AlertMessage), q # << >>, NEW k, NEW last,
         Bracketed(q, k, last)
  PROVE  Bracketed(Tail(q), k, last)
<1>1. PICK c : c = Tail(q)
  OBVIOUS
<1>2. PICK n \in Nat : n = Len(q) /\ DOMAIN q = 1..n /\ n > 0
  BY LenProperties, EmptySeq
<1>3. /\ DOMAIN c = 1..(n - 1)
      /\ \A i \in 1..(n - 1) : c[i] = q[i + 1]
  BY <1>1, <1>2, HeadTailProperties, LenProperties
<1>4. \A i \in Places(c, k) : i \in Nat /\ i + 1 \in Places(q, k) /\ c[i] = q[i + 1]
  BY <1>2, <1>3 DEF Places
<1>5. \A h \in Places(q, k) : h = 1 \/ (h - 1 \in Places(c, k) /\ h \in Nat /\ h > 1)
  BY <1>2, <1>3 DEF Places
<1>6. ASSUME NEW i \in Places(c, k), NEW j \in Places(c, k), i < j,
             \A h \in Places(c, k) : h <= i \/ j <= h
      PROVE  c[i].status # c[j].status
  <2>1. \A h \in Places(q, k) : h <= i + 1 \/ j + 1 <= h
    <3> SUFFICES ASSUME NEW h \in Places(q, k) PROVE h <= i + 1 \/ j + 1 <= h
      OBVIOUS
    <3>1. CASE h = 1
      BY <1>4, <3>1
    <3>2. CASE h # 1
      <4>1. h - 1 <= i \/ j <= h - 1
        BY <1>5, <1>6, <3>2
      <4>2. QED
        BY <1>4, <1>5, <3>2, <4>1
    <3>3. QED
      BY <3>1, <3>2
  <2>2. i + 1 < j + 1 /\ i + 1 \in Places(q, k) /\ j + 1 \in Places(q, k)
    BY <1>4, <1>6
  <2>3. QED
    BY <1>4, <2>1, <2>2 DEF Bracketed
<1>7. ASSUME NEW i \in Places(c, k), \A h \in Places(c, k) : h <= i
      PROVE  c[i].status = last
  <2>1. \A h \in Places(q, k) : h <= i + 1
    <3> SUFFICES ASSUME NEW h \in Places(q, k) PROVE h <= i + 1
      OBVIOUS
    <3>1. CASE h = 1
      BY <1>4, <3>1
    <3>2. CASE h # 1
      <4>1. h - 1 <= i
        BY <1>5, <1>7, <3>2
      <4>2. QED
        BY <1>4, <1>5, <3>2, <4>1
    <3>3. QED
      BY <3>1, <3>2
  <2>2. QED
    BY <1>4, <2>1 DEF Bracketed
<1>8. Bracketed(c, k, last)
  BY <1>6, <1>7 DEF Bracketed
<1> QED
  BY <1>1, <1>8

\* One sequence of a finite set of messages: each of them is in it once.
LEMMA EachOnce ==
  ASSUME NEW S, IsFiniteSet(S)
  PROVE  /\ SetToSeq(S) \in Seq(S)
         /\ \A x \in S : \E i \in DOMAIN SetToSeq(S) : SetToSeq(S)[i] = x
         /\ \A i, j \in DOMAIN SetToSeq(S) : SetToSeq(S)[i] = SetToSeq(S)[j] => i = j
<1>1. PICK n \in Nat : n = Cardinality(S) /\ ExistsBijection(1..n, S)
  BY FS_CardinalityType
<1>2. PICK g : g \in Bijection(1..n, S)
  BY <1>1 DEF ExistsBijection
<1>3. g \in [1..n -> S] /\ IsInjective(g)
  BY <1>2 DEF Bijection, Injection
<1>4. PICK f : f = SetToSeq(S)
  OBVIOUS
<1>5. f \in [1..n -> S] /\ IsInjective(f)
  BY <1>1, <1>3, <1>4 DEF SetToSeq
<1>6. f \in Injection(1..n, S)
  BY <1>5 DEF Injection
<1>7. Cardinality(1..n) = n /\ IsFiniteSet(1..n)
  BY FS_Interval
<1>8. f \in Surjection(1..n, S)
  BY <1>1, <1>6, <1>7, FS_Injection
<1>9. \A x \in S : \E i \in 1..n : f[i] = x
  BY <1>8 DEF Surjection
<1>10. f \in Seq(S) /\ DOMAIN f = 1..n
  BY <1>5, IsASeq
<1>11. \A i, j \in 1..n : f[i] = f[j] => i = j
  BY <1>5 DEF IsInjective
<1> QED
  BY <1>4, <1>9, <1>10, <1>11

Announced(status, keys) == {Message(status, k) : k \in keys}

\* A message about each of some conditions, and about nothing else, once.
LEMMA Announcements ==
  ASSUME NEW D \in SUBSET Condition, NEW status \in {"FIRING", "RESOLVED"}
  PROVE  LET f == SetToSeq(Announced(status, D)) IN
         /\ f \in Seq(AlertMessage)
         /\ \A k \in Condition : k \notin D => Places(f, k) = {}
         /\ \A k \in D : \E p : Places(f, k) = {p} /\ f[p].status = status
<1>1. PICK S : S = Announced(status, D)
  OBVIOUS
<1>2. PICK f : f = SetToSeq(S)
  OBVIOUS
<1>3. S \subseteq AlertMessage
  BY <1>1 DEF Announced, Message, AlertMessage
<1>4. IsFiniteSet(S)
  <2>1. IsFiniteSet(D)
    <3>1. 0 \in Int /\ MaxRounds \in Int
      BY ServerAssumption
    <3>2. IsFiniteSet(0..MaxRounds)
      BY <3>1, FS_Interval
    <3>3. QED
      BY <3>2, FS_Subset DEF Condition
  <2>2. PICK g : g = [k \in D |-> Message(status, k)]
    OBVIOUS
  <2>3. g \in Surjection(D, S)
    BY <1>1, <2>2 DEF Surjection, Announced
  <2>4. QED
    BY <2>1, <2>3, FS_Surjection
<1>5. /\ f \in Seq(S) /\ \A x \in S : \E i \in DOMAIN f : f[i] = x
      /\ \A i, j \in DOMAIN f : f[i] = f[j] => i = j
  BY <1>2, <1>4, EachOnce
<1>6. f \in Seq(AlertMessage)
  BY <1>3, <1>5, SeqMonotonic
<1>7. \A i \in DOMAIN f : f[i] \in S
  BY <1>5, ElementOfSeq, LenProperties
<1>8. \A x \in S : \E k \in D : x = Message(status, k) /\ x.status = status /\ x.key = k
  BY <1>1 DEF Announced, Message
<1>9. ASSUME NEW k \in Condition, k \notin D PROVE Places(f, k) = {}
  BY <1>7, <1>8, <1>9 DEF Places, About
<1>10. ASSUME NEW k \in D PROVE \E p : Places(f, k) = {p} /\ f[p].status = status
  <2>1. PICK x : x = Message(status, k) /\ x \in S
    BY <1>1 DEF Announced
  <2>2. PICK p \in DOMAIN f : f[p] = x
    BY <1>5, <2>1
  <2>3. f[p].status = status /\ f[p].key = k
    BY <2>1, <2>2 DEF Message
  <2>4. p \in Places(f, k)
    BY <2>3 DEF Places, About
  <2>5. ASSUME NEW i \in Places(f, k) PROVE i = p
    <3>1. i \in DOMAIN f /\ f[i].key = k
      BY DEF Places, About
    <3>2. f[i] = Message(status, k)
      BY <1>7, <1>8, <3>1
    <3>3. QED
      BY <1>5, <2>1, <2>2, <3>1, <3>2
  <2>6. Places(f, k) = {p}
    BY <2>4, <2>5
  <2>7. QED
    BY <2>3, <2>6
<1>11. /\ f \in Seq(AlertMessage)
       /\ \A k \in Condition : k \notin D => Places(f, k) = {}
       /\ \A k \in D : \E p : Places(f, k) = {p} /\ f[p].status = status
  BY <1>6, <1>9, <1>10
<1> QED
  BY <1>1, <1>2, <1>11

\* What reconcile says of each condition: one message when it began or stopped, else none.
Reconciles(m, active, current) ==
  /\ m \in Seq(AlertMessage)
  /\ \A k \in Condition : (k \in active <=> k \in current) => Places(m, k) = {}
  /\ \A k \in current \ active : \E p : Places(m, k) = {p} /\ m[p].status = "FIRING"
  /\ \A k \in active \ current : \E p : Places(m, k) = {p} /\ m[p].status = "RESOLVED"

LEMMA ReconcileSays ==
  ASSUME NEW active \in SUBSET Condition, NEW current \in SUBSET Condition
  PROVE  Reconciles(reconcile(active, current), active, current)
<1>1. PICK f : f = SetToSeq(Announced("FIRING", current \ active))
  OBVIOUS
<1>2. PICK r : r = SetToSeq(Announced("RESOLVED", active \ current))
  OBVIOUS
<1>3. /\ f \in Seq(AlertMessage)
      /\ \A k \in Condition : k \notin current \ active => Places(f, k) = {}
      /\ \A k \in current \ active : \E p : Places(f, k) = {p} /\ f[p].status = "FIRING"
  <2>1. PICK D \in SUBSET Condition : D = current \ active
    OBVIOUS
  <2>2. f = SetToSeq(Announced("FIRING", D))
    BY <1>1, <2>1
  <2>3. /\ SetToSeq(Announced("FIRING", D)) \in Seq(AlertMessage)
        /\ \A k \in Condition : k \notin D => Places(SetToSeq(Announced("FIRING", D)), k) = {}
        /\ \A k \in D : \E p : /\ Places(SetToSeq(Announced("FIRING", D)), k) = {p}
                              /\ SetToSeq(Announced("FIRING", D))[p].status = "FIRING"
    BY Announcements
  <2>4. QED
    BY <2>1, <2>2, <2>3
<1>4. /\ r \in Seq(AlertMessage)
      /\ \A k \in Condition : k \notin active \ current => Places(r, k) = {}
      /\ \A k \in active \ current : \E p : Places(r, k) = {p} /\ r[p].status = "RESOLVED"
  <2>1. PICK D \in SUBSET Condition : D = active \ current
    OBVIOUS
  <2>2. r = SetToSeq(Announced("RESOLVED", D))
    BY <1>2, <2>1
  <2>3. /\ SetToSeq(Announced("RESOLVED", D)) \in Seq(AlertMessage)
        /\ \A k \in Condition : k \notin D => Places(SetToSeq(Announced("RESOLVED", D)), k) = {}
        /\ \A k \in D : \E p : /\ Places(SetToSeq(Announced("RESOLVED", D)), k) = {p}
                              /\ SetToSeq(Announced("RESOLVED", D))[p].status = "RESOLVED"
    BY Announcements
  <2>4. QED
    BY <2>1, <2>2, <2>3
<1>5. PICK m : m = f \o r
  OBVIOUS
<1>6. m = reconcile(active, current)
  BY <1>1, <1>2, <1>5 DEF reconcile, Announced
<1>7. m \in Seq(AlertMessage)
  BY <1>3, <1>4, <1>5, ConcatProperties
<1>8. ASSUME NEW k
      PROVE  /\ \A i : i \in Places(m, k) <=>
                         i \in Places(f, k) \/ \E j \in Places(r, k) : i = Len(f) + j
             /\ \A i \in Places(f, k) : m[i] = f[i]
             /\ \A i \in Places(r, k) : m[Len(f) + i] = r[i]
  <2>1. f \in Seq(AlertMessage) /\ r \in Seq(AlertMessage)
    BY <1>3, <1>4
  <2>2. QED
    BY ONLY <1>5, <2>1, PlacesOfConcat
<1>9. ASSUME NEW k \in Condition, k \in active <=> k \in current PROVE Places(m, k) = {}
  <2>1. Places(f, k) = {} /\ Places(r, k) = {}
    BY <1>3, <1>4, <1>9
  <2>2. QED
    BY <1>8, <2>1
<1>10. ASSUME NEW k \in current \ active
       PROVE  \E p : Places(m, k) = {p} /\ m[p].status = "FIRING"
  <2>1. PICK p : Places(f, k) = {p} /\ f[p].status = "FIRING"
    BY <1>3
  <2>2. Places(r, k) = {}
    BY <1>4
  <2>3. Places(m, k) = {p} /\ m[p] = f[p]
    BY <1>8, <2>1, <2>2
  <2>4. QED
    BY <2>1, <2>3
<1>11. ASSUME NEW k \in active \ current
       PROVE  \E p : Places(m, k) = {p} /\ m[p].status = "RESOLVED"
  <2>1. PICK p : Places(r, k) = {p} /\ r[p].status = "RESOLVED"
    BY <1>4
  <2>2. Places(f, k) = {}
    BY <1>3
  <2>3. PICK at : at = Len(f) + p
    OBVIOUS
  <2>4. Places(m, k) = {at} /\ m[at] = r[p]
    BY <1>8, <2>1, <2>2, <2>3
  <2>5. QED
    BY <2>1, <2>4
<1>12. Reconciles(m, active, current)
  BY <1>7, <1>9, <1>10, <1>11 DEF Reconciles
<1> QED
  BY <1>6, <1>12

\* What a send leaves as the last status queued about each condition.
LEMMA SendSays ==
  ASSUME AlertsTypeOK, NEW m \in Seq(AlertMessage), send(m)
  PROVE  /\ sink'.queue = sink.queue \o m
         /\ \A k \in Condition : Places(m, k) = {} => sink'.last[k] = sink.last[k]
         /\ \A k \in Condition : \A p : Places(m, k) = {p} /\ m[p].status # "NOTICE" =>
              sink'.last[k] = m[p].status
         /\ (\A k \in Condition : Places(m, k) = {} \/ \E p : Places(m, k) = {p}) =>
              sink' \in [queue : Seq(AlertMessage), last : [Condition -> {"", "FIRING", "RESOLVED"}]]
<1>1. PICK last : last =
        [k \in Condition |->
           IF Places(m, k) = {} THEN sink.last[k]
           ELSE m[CHOOSE i \in Places(m, k) : \A j \in Places(m, k) : j <= i].status]
  OBVIOUS
<1>2. sink' = [queue |-> sink.queue \o m, last |-> last]
  BY <1>1 DEF send, Places, Condition
<1>3. ASSUME NEW k \in Condition, NEW p, Places(m, k) = {p}
      PROVE  last[k] = m[p].status /\ m[p].status \in {"FIRING", "RESOLVED"}
  <2>1. DOMAIN m = 1..Len(m) /\ Len(m) \in Nat
    BY LenProperties
  <2>2. p \in 1..Len(m) /\ About(m[p], k)
    BY <1>3, <2>1 DEF Places
  <2>3. m[p] \in AlertMessage
    BY <2>2, ElementOfSeq
  <2>4. p <= p
    BY <2>1, <2>2
  <2>5. (CHOOSE i \in Places(m, k) : \A j \in Places(m, k) : j <= i) = p
    BY <1>3, <2>4
  <2>6. last[k] = m[p].status
    BY <1>1, <1>3, <2>5
  <2>7. QED
    BY <2>2, <2>3, <2>6 DEF About, AlertMessage
<1>4. ASSUME NEW k \in Condition, Places(m, k) = {} PROVE last[k] = sink.last[k]
  BY <1>1, <1>4
<1>5. sink.queue \in Seq(AlertMessage) /\ sink.last \in [Condition -> {"", "FIRING", "RESOLVED"}]
  BY DEF AlertsTypeOK
<1>6. ASSUME \A k \in Condition : Places(m, k) = {} \/ \E p : Places(m, k) = {p}
      PROVE  sink' \in [queue : Seq(AlertMessage), last : [Condition -> {"", "FIRING", "RESOLVED"}]]
  <2>1. ASSUME NEW k \in Condition PROVE last[k] \in {"", "FIRING", "RESOLVED"}
    <3>1. CASE Places(m, k) = {}
      BY <1>4, <1>5, <3>1
    <3>2. ASSUME NEW p, Places(m, k) = {p} PROVE last[k] \in {"", "FIRING", "RESOLVED"}
      BY <1>3, <3>2
    <3>3. QED
      BY <1>6, <3>1, <3>2
  <2>2. last \in [Condition -> {"", "FIRING", "RESOLVED"}]
    BY <1>1, <2>1
  <2>3. PICK queue : queue = sink.queue \o m /\ queue \in Seq(AlertMessage)
    BY <1>5, ConcatProperties
  <2>4. QED
    BY <1>2, <2>2, <2>3
<1>7. sink'.queue = sink.queue \o m /\ sink'.last = last
  BY <1>2
<1> QED
  BY <1>3, <1>4, <1>6, <1>7

\* A notice is about no condition.
LEMMA NoticeStep ==
  ASSUME AlertsInv, world' = world, watch' = watch, NEW what \in {"failed", "started"},
         send(<<Message("NOTICE", what)>>)
  PROVE  AlertsInv'
<1>1. PICK m : m = <<Message("NOTICE", what)>>
  OBVIOUS
<1>2. PICK x : x = Message("NOTICE", what)
  OBVIOUS
<1>3. x \in AlertMessage /\ x.status = "NOTICE"
  BY <1>2 DEF Message, AlertMessage
<1>4. m = <<x>> /\ m \in Seq(AlertMessage) /\ DOMAIN m = {1} /\ m[1] = x
  BY <1>1, <1>2, <1>3
<1>5. \A k : Places(m, k) = {}
  BY <1>3, <1>4 DEF Places, About
<1>6. AlertsTypeOK /\ send(m)
  BY <1>1 DEF AlertsInv
<1>7. /\ sink'.queue = sink.queue \o m
      /\ \A k \in Condition : sink'.last[k] = sink.last[k]
      /\ sink' \in [queue : Seq(AlertMessage), last : [Condition -> {"", "FIRING", "RESOLVED"}]]
  BY <1>4, <1>5, <1>6, SendSays
<1>8. PICK q \in Seq(AlertMessage) : q = sink.queue
  BY DEF AlertsInv, AlertsTypeOK
<1>9. ASSUME NEW k \in Condition, NEW last, last = sink.last[k] PROVE Bracketed(q \o m, k, last)
  <2>1. Bracketed(q, k, last)
    BY <1>8, <1>9 DEF AlertsInv
  <2>2. QED
    BY <1>4, <1>5, <2>1, NothingAbout
<1>10. \A k \in Condition : Bracketed(sink'.queue, k, sink'.last[k])
  BY <1>7, <1>8, <1>9
<1>11. \A k \in Condition : k \in watch'.reported <=> sink'.last[k] = "FIRING"
  BY <1>7 DEF AlertsInv
<1>12. AlertsTypeOK'
  BY <1>6, <1>7 DEF AlertsTypeOK
<1> QED
  BY <1>10, <1>11, <1>12 DEF AlertsInv

LEMMA WatchTickStep == ASSUME AlertsInv, WatchTick PROVE AlertsInv'
<1>1. PICK active \in SUBSET Condition : active = watch.reported
  BY DEF AlertsInv, AlertsTypeOK
<1>2. PICK current : current = Conditions
  OBVIOUS
<1>3. current \in SUBSET Condition
  <2>1. watch.round \in Condition
    BY DEF AlertsInv, AlertsTypeOK
  <2>2. 0 \in Condition
    BY ServerAssumption DEF Condition
  <2>3. QED
    BY <1>2, <2>1, <2>2 DEF Conditions
<1>4. PICK m : m = reconcile(active, current)
  OBVIOUS
<1>5. /\ m \in Seq(AlertMessage)
      /\ \A k \in Condition : (k \in active <=> k \in current) => Places(m, k) = {}
      /\ \A k \in current \ active : \E p : Places(m, k) = {p} /\ m[p].status = "FIRING"
      /\ \A k \in active \ current : \E p : Places(m, k) = {p} /\ m[p].status = "RESOLVED"
  <2>1. Reconciles(reconcile(active, current), active, current)
    BY ONLY active \in SUBSET Condition, <1>3, ReconcileSays
  <2>2. Reconciles(m, active, current)
    BY <1>4, <2>1
  <2>3. QED
    BY <2>2 DEF Reconciles
<1>6. /\ send(m) /\ world' = world
      /\ watch' = [watch EXCEPT !.reported = current]
  BY <1>1, <1>2, <1>4 DEF WatchTick
<1>7. AlertsTypeOK
  BY DEF AlertsInv
<1>8. \A k \in Condition : Places(m, k) = {} \/ \E p : Places(m, k) = {p}
  BY <1>1, <1>3, <1>5
<1>9. /\ sink'.queue = sink.queue \o m
      /\ \A k \in Condition : Places(m, k) = {} => sink'.last[k] = sink.last[k]
      /\ \A k \in Condition : \A p : Places(m, k) = {p} /\ m[p].status # "NOTICE" =>
           sink'.last[k] = m[p].status
      /\ sink' \in [queue : Seq(AlertMessage), last : [Condition -> {"", "FIRING", "RESOLVED"}]]
  BY <1>5, <1>6, <1>7, <1>8, SendSays
<1>10. AlertsTypeOK' /\ watch'.reported = current
  BY <1>3, <1>6, <1>7, <1>9 DEF AlertsTypeOK
<1>11. PICK q \in Seq(AlertMessage) : q = sink.queue
  BY <1>7 DEF AlertsTypeOK
<1>12. ASSUME NEW k \in Condition
       PROVE  Bracketed(sink'.queue, k, sink'.last[k]) /\ (k \in current <=> sink'.last[k] = "FIRING")
  <2>1. PICK last : last = sink.last[k]
    OBVIOUS
  <2>2. Bracketed(q, k, last) /\ (k \in active <=> last = "FIRING")
    BY <1>1, <1>11, <2>1 DEF AlertsInv
  <2>3. CASE k \in active <=> k \in current
    <3>1. Places(m, k) = {} /\ sink'.last[k] = last
      BY <1>5, <1>9, <2>1, <2>3
    <3>2. Bracketed(q \o m, k, last)
      BY <1>5, <2>2, <3>1, NothingAbout
    <3>3. QED
      BY <1>9, <1>11, <2>2, <2>3, <3>1, <3>2
  <2>4. ASSUME ~(k \in active <=> k \in current)
        PROVE  Bracketed(sink'.queue, k, sink'.last[k]) /\ (k \in current <=> sink'.last[k] = "FIRING")
    <3>1. PICK p : Places(m, k) = {p} /\ m[p].status = IF k \in current THEN "FIRING" ELSE "RESOLVED"
      BY <1>5, <2>4
    <3>2. PICK status : status = m[p].status
      OBVIOUS
    <3>3. status # last
      BY <2>2, <2>4, <3>1, <3>2
    <3>4. Bracketed(q \o m, k, status)
      BY <1>5, <2>2, <3>1, <3>2, <3>3, OneAbout
    <3>5. sink'.last[k] = status
      BY <1>9, <3>1, <3>2
    <3>6. k \in current <=> status = "FIRING"
      BY <3>1, <3>2
    <3>7. QED
      BY <1>9, <1>11, <3>4, <3>5, <3>6
  <2>5. QED
    BY <2>3, <2>4
<1> QED
  BY <1>10, <1>12 DEF AlertsInv

LEMMA DeliverStep == ASSUME AlertsInv, Deliver PROVE AlertsInv'
<1>1. AlertsTypeOK
  BY DEF AlertsInv
<1>2. PICK q \in Seq(AlertMessage) : q = sink.queue
  BY <1>1 DEF AlertsTypeOK
<1>3. /\ q # << >> /\ sink' = [sink EXCEPT !.queue = Tail(q)]
      /\ world' = world /\ watch' = watch
  BY <1>2 DEF Deliver
<1>4. PICK rest : rest = Tail(q)
  OBVIOUS
<1>5. rest \in Seq(AlertMessage)
  BY <1>3, <1>4, HeadTailProperties
<1>6. sink'.queue = rest /\ sink'.last = sink.last /\ AlertsTypeOK'
  BY <1>1, <1>3, <1>4, <1>5 DEF AlertsTypeOK
<1>7. ASSUME NEW k \in Condition, NEW last, last = sink.last[k] PROVE Bracketed(rest, k, last)
  <2>1. Bracketed(q, k, last)
    BY <1>2, <1>7 DEF AlertsInv
  <2>2. QED
    BY <1>3, <1>4, <2>1, DeliveredBracket
<1>8. \A k \in Condition : Bracketed(sink'.queue, k, sink'.last[k])
  BY <1>6, <1>7
<1> QED
  BY <1>3, <1>6, <1>8 DEF AlertsInv

\* Steps that send nothing and report nothing.
LEMMA SilentStep ==
  ASSUME AlertsInv, sink' = sink, watch'.reported = watch.reported, AlertsTypeOK'
  PROVE  AlertsInv'
BY DEF AlertsInv

LEMMA AlertsStep == ASSUME AlertsInv, ServerNext PROVE AlertsInv'
<1>1. AlertsTypeOK
  BY DEF AlertsInv
<1>2. ASSUME UNCHANGED <<world, watch, sink>> PROVE AlertsInv'
  BY <1>1, <1>2, SilentStep DEF AlertsTypeOK
<1>3. ASSUME Clock \/ RoundMoves \/ CoverChanges PROVE AlertsInv'
  <2>1. watch' = watch /\ sink' = sink
    BY <1>3 DEF Clock, RoundMoves, CoverChanges
  <2>2. MaxRounds \in Nat /\ RoundTime \in Nat
    BY ServerAssumption
  <2>3. /\ world.clock \in Nat /\ world.changes \in Nat /\ world.round \in Condition
    BY <1>1 DEF AlertsTypeOK
  <2>6. /\ world.clock + 1 \in Nat /\ world.changes + 1 \in Nat /\ world.clock + RoundTime \in Nat
        /\ world.round < MaxRounds => world.round + 1 \in Condition
    BY <2>2, <2>3 DEF Condition
  <2>4. world' \in [clock : Nat, round : Condition, state : {"OPEN", "FINALIZED"}, endAt : Nat,
                    cover : {"covered", "uncovered"}, changes : Nat]
    <3>1. CASE Clock
      <4>1. world' = [world EXCEPT !.clock = world.clock + 1]
        BY <3>1 DEF Clock
      <4>2. QED
        BY <1>1, <2>6, <4>1 DEF AlertsTypeOK
    <3>2. CASE RoundMoves
      BY <1>1, <2>6, <3>2 DEF AlertsTypeOK, RoundMoves
    <3>3. CASE CoverChanges
      <4>1. PICK cover \in {"covered", "uncovered"} :
              world' = [world EXCEPT !.changes = world.changes + 1, !.cover = cover]
        BY <3>3 DEF CoverChanges
      <4>2. QED
        BY <1>1, <2>6, <4>1 DEF AlertsTypeOK
    <3>4. QED
      BY <1>3, <3>1, <3>2, <3>3
  <2>5. QED
    BY <1>1, <2>1, <2>4, SilentStep DEF AlertsTypeOK
<1>4. ASSUME FollowStore \/ ReadCover PROVE AlertsInv'
  <2>1. world' = world /\ sink' = sink
    BY <1>4 DEF FollowStore, ReadCover
  <2>2. /\ watch' \in [reported : SUBSET Condition, round : Condition,
                       state : {"", "OPEN", "FINALIZED"}, endAt : Nat,
                       cover : {"unknown", "covered", "uncovered"}]
        /\ watch'.reported = watch.reported
    BY <1>1, <1>4 DEF AlertsTypeOK, FollowStore, ReadCover
  <2>3. QED
    BY <1>1, <2>1, <2>2, SilentStep DEF AlertsTypeOK
<1>5. ASSUME BootRefused \/ Booted \/ Drained PROVE AlertsInv'
  <2>1. /\ world' = world /\ watch' = watch
        /\ \/ sink' = sink
           \/ \E what \in {"failed", "started"} : send(<<Message("NOTICE", what)>>)
    BY <1>5 DEF BootRefused, Booted, Drained, Fail
  <2>2. QED
    BY <1>2, <2>1, NoticeStep
<1>6. ASSUME BootStep \/ Backfill \/ Take \/ DriverEnds \/ CloseNext \/ ProcessEnds \/ Signal \/ LeaseLost
      PROVE  AlertsInv'
  <2>1. UNCHANGED <<world, watch, sink>>
    BY <1>6 DEF BootStep, Backfill, Take, DriverEnds, CloseNext, ProcessEnds, Signal, LeaseLost
  <2>2. QED
    BY <1>2, <2>1
<1> QED
  BY <1>3, <1>4, <1>5, <1>6, WatchTickStep, DeliverStep DEF ServerNext, ProcessStep

LEMMA AlertsStart == ASSUME ServerInit PROVE AlertsInv
<1>0. PICK unsaid : unsaid = [k \in Condition |-> ""]
  OBVIOUS
<1>1. sink.queue = << >> /\ sink.last = unsaid /\ sink = [queue |-> << >>, last |-> unsaid]
  BY <1>0 DEF ServerInit, Condition
<1>2. << >> \in Seq(AlertMessage)
  BY EmptySeq
<1>3. 0 \in Condition
  BY ServerAssumption DEF Condition
<1>4. AlertsTypeOK
  <2>1. sink \in [queue : Seq(AlertMessage), last : [Condition -> {"", "FIRING", "RESOLVED"}]]
    BY <1>0, <1>1, <1>2
  <2>2. QED
    BY <1>3, <2>1 DEF ServerInit, AlertsTypeOK, Quiet
<1>5. ASSUME NEW k \in Condition
      PROVE  /\ Bracketed(sink.queue, k, sink.last[k])
             /\ k \in watch.reported <=> sink.last[k] = "FIRING"
  <2>1. Places(<< >>, k) = {}
    BY DEF Places
  <2>2. watch.reported = {}
    BY DEF ServerInit, Quiet
  <2>3. sink.last[k] = ""
    BY <1>0, <1>1, <1>5
  <2>4. Places(sink.queue, k) = {}
    BY <1>1, <2>1
  <2>5. QED
    BY <2>2, <2>3, <2>4 DEF Bracketed
<1> QED
  BY <1>4, <1>5 DEF AlertsInv

\* Server.AlertsBracket: however the conditions come and go while messages wait for the
\* webhook, each FIRING is followed by its own RESOLVED and none is left standing
\* (alerts.ts reconcile, alert-sink.ts queue).
THEOREM AlertsAreBracketed == ServerInit /\ [][ServerNext]_serverVars => []AlertsBracket
<1>1. ASSUME AlertsInv, UNCHANGED serverVars PROVE AlertsInv'
  BY <1>1 DEF serverVars, AlertsInv, AlertsTypeOK
<1>2. AlertsInv => AlertsBracket
  BY DEF AlertsInv, AlertsBracket, Bracketed, Places, Condition
<1> QED
  BY <1>1, <1>2, AlertsStart, AlertsStep, PTL

\* What a process may hold, the lines of its boot, and what is remembered of it.
Handles == {"database", "sockets", "bus", "limit", "api", "claims", "market", "lease"}

Opened == Handles \cup {""}

Doings == {"configuration", "chain and contracts", "sure", "connect bus", "subscribe",
           "connect limit", "sockets ready", "listen"}

Refusals == Doings \cup {""}

Exits == {"", "clean", "failed"}

BootLine == [does : Doings, opens : Opened]

Steps == Nat \ {0}

ProcessShape ==
  [kind : {"gateway", "server", "no-sockets"},
   pc : {"boot", "backfill", "waiting", "driving", "running", "closing", "settled", "ended"},
   step : Steps, open : SUBSET Handles, stopping : BOOLEAN,
   exit : Exits, refused : Refusals]

\* What the empty string is in.
LEMMA NoName ==
  /\ "" \in Opened /\ "" \in Refusals /\ "" \in Exits
  /\ \A o \in Opened : o = "" \/ o \in Handles
  /\ Handles \subseteq Opened /\ Doings \subseteq Refusals
  /\ "clean" \in Exits /\ "failed" \in Exits
BY Zenon DEF Opened, Refusals, Exits

LEMMA ShortSequences ==
  ASSUME NEW S, NEW a \in S, NEW b \in S, NEW c \in S, NEW d \in S, NEW e \in S, NEW f \in S
  PROVE  /\ << >> \in Seq(S) /\ <<a>> \in Seq(S) /\ <<a, b>> \in Seq(S)
         /\ <<a, b, c, d>> \in Seq(S) /\ <<a, b, c, d, e, f>> \in Seq(S)
OBVIOUS

LEMMA BootLines ==
  ASSUME NEW k \in {"gateway", "server", "no-sockets"}
  PROVE  Boot(k) \in Seq(BootLine)
<1> DEFINE Line(d, o) == [does |-> d, opens |-> o]
<1>1. ASSUME NEW d \in Doings, NEW o \in Opened PROVE Line(d, o) \in BootLine
  BY DEF BootLine
<1>2. PICK no : no = "" /\ no \in Opened
  BY NoName, Zenon
<1>3. {"bus", "sockets", "limit", "api", "claims"} \subseteq Opened
  BY NoName DEF Handles
<1> HIDE DEF Line
<1>4. /\ Line("configuration", no) \in BootLine /\ Line("chain and contracts", no) \in BootLine
      /\ Line("sure", "sockets") \in BootLine /\ Line("connect bus", "bus") \in BootLine
      /\ Line("subscribe", no) \in BootLine /\ Line("connect limit", "limit") \in BootLine
      /\ Line("sockets ready", no) \in BootLine /\ Line("listen", "api") \in BootLine
      /\ Line("listen", "sockets") \in BootLine /\ Line("sure", "claims") \in BootLine
  BY <1>1, <1>2, <1>3 DEF Doings
<1>5. GatewayBoot \in Seq(BootLine)
  <2>1. GatewayBoot = <<Line("configuration", no), Line("connect bus", "bus"),
                        Line("subscribe", no), Line("listen", "sockets")>>
    BY <1>2, Zenon DEF GatewayBoot, Line
  <2>2. QED
    BY <1>4, <2>1, ShortSequences, Zenon
<1>6. ASSUME NEW sockets \in BOOLEAN PROVE ServerBoot(sockets) \in Seq(BootLine)
  <2>1. PICK a, b, c :
          /\ a = <<Line("configuration", no), Line("chain and contracts", no)>>
          /\ b = (IF sockets THEN <<Line("sure", "sockets")>> ELSE << >>)
          /\ c = <<Line("connect bus", "bus"), Line("subscribe", no), Line("connect limit", "limit"),
                   Line("sockets ready", no), Line("listen", "api"), Line("sure", "claims")>>
    OBVIOUS
  <2>2. a \in Seq(BootLine)
    BY <1>4, <2>1, ShortSequences, Zenon
  <2>3. b \in Seq(BootLine)
    <3>1. << >> \in Seq(BootLine) /\ <<Line("sure", "sockets")>> \in Seq(BootLine)
      <4>1. PICK x : x = Line("sure", "sockets") /\ x \in BootLine
        BY <1>4
      <4>2. << >> \in Seq(BootLine) /\ <<x>> \in Seq(BootLine)
        BY <4>1
      <4>3. QED
        BY <4>1, <4>2
    <3>2. QED
      BY <2>1, <3>1
  <2>4. c \in Seq(BootLine)
    BY <1>4, <2>1, ShortSequences, Zenon
  <2>5. ServerBoot(sockets) = a \o b \o c
    BY <1>2, <2>1, Zenon DEF ServerBoot, Line
  <2>6. QED
    BY <2>2, <2>3, <2>4, <2>5
<1>7. Boot(k) \in {GatewayBoot, ServerBoot(TRUE), ServerBoot(FALSE)}
  BY DEF Boot
<1>8. QED
  BY <1>5, <1>6, <1>7

\* The line of its boot that a process is at.
LEMMA LineAt ==
  ASSUME proc \in ProcessShape, proc.step <= Len(Boot(proc.kind))
  PROVE  Boot(proc.kind)[proc.step] \in BootLine
<1>1. PICK b : b = Boot(proc.kind)
  OBVIOUS
<1>2. b \in Seq(BootLine)
  BY <1>1, BootLines DEF ProcessShape
<1>3. proc.step \in 1..Len(b)
  BY <1>1, <1>2, LenProperties DEF ProcessShape, Steps
<1>4. QED
  BY <1>1, <1>2, <1>3, ElementOfSeq

LEMMA StepsFollow == 1 \in Steps /\ \A n \in Steps : n + 1 \in Steps
BY DEF Steps

LEMMA ProcessShapeKept ==
  ASSUME proc \in ProcessShape, [ServerNext]_serverVars
  PROVE  proc' \in ProcessShape
<1>1. CASE UNCHANGED proc
  BY <1>1
<1>2. CASE BootStep
  <2>1. PICK s : /\ s = Boot(proc.kind)[proc.step] /\ s \in BootLine
                 /\ proc' = [proc EXCEPT !.step = @ + 1,
                                 !.open = IF s.opens = "" THEN @ ELSE @ \cup {s.opens}]
    BY <1>2, LineAt, Zenon DEF BootStep
  <2>2. PICK open : open = (IF s.opens = "" THEN proc.open ELSE proc.open \cup {s.opens})
    BY Zenon
  <2>3. s.opens \in Opened /\ proc.open \in SUBSET Handles
    BY <2>1 DEF BootLine, ProcessShape
  <2>4. open \in SUBSET Handles
    BY <2>2, <2>3, NoName, Zenon
  <2>5. proc' = [proc EXCEPT !.step = @ + 1, !.open = open]
    BY <2>1, <2>2, Zenon
  <2>6. QED
    BY <2>4, <2>5, StepsFollow DEF ProcessShape
<1>3. CASE BootRefused
  <2>1. PICK s, closed :
          /\ s \in BootLine
          /\ proc' = [proc EXCEPT !.pc = "settled", !.exit = "failed", !.refused = s.does,
                                  !.open = @ \ closed]
    BY <1>3, LineAt DEF BootRefused, Fail
  <2>2. s.does \in Refusals
    BY <2>1, NoName DEF BootLine
  <2>3. "failed" \in Exits
    BY NoName, Zenon
  <2>4. QED
    BY <2>1, <2>2, <2>3 DEF ProcessShape
<1>4. CASE Booted
  BY <1>4 DEF Booted, ProcessShape, Handles
<1>5. ASSUME NEW exit \in Exits, proc' = Leave(exit) PROVE proc' \in ProcessShape
  BY <1>5, StepsFollow DEF Leave, ProcessShape
<1>6. CASE Backfill \/ Take \/ DriverEnds
  <2>1. PICK clean, failed : /\ clean = "clean" /\ clean \in Exits
                             /\ failed = "failed" /\ failed \in Exits
    BY NoName, Zenon
  <2>2. \/ \E exit \in Exits : proc' = Leave(exit)
        \/ proc' = [proc EXCEPT !.pc = "waiting", !.open = @ \cup {"market"}]
        \/ proc' = [proc EXCEPT !.pc = "driving", !.open = @ \cup {"lease"}]
    BY <1>6, <2>1 DEF Backfill, Take, DriverEnds
  <2>3. ASSUME NEW pc \in {"waiting", "driving"}, NEW handle \in {"market", "lease"},
               proc' = [proc EXCEPT !.pc = pc, !.open = @ \cup {handle}]
        PROVE  proc' \in ProcessShape
    BY <2>3 DEF ProcessShape, Handles
  <2>4. QED
    BY <1>5, <2>2, <2>3
<1>7. CASE CloseNext
  <2>1. PICK closed : proc' = [proc EXCEPT !.step = @ + 1, !.open = @ \ {closed}]
    BY <1>7 DEF CloseNext
  <2>2. QED
    BY <2>1, StepsFollow DEF ProcessShape
<1>8. CASE Drained \/ ProcessEnds \/ Signal \/ LeaseLost
  BY <1>8 DEF Drained, ProcessEnds, Signal, LeaseLost, ProcessShape
<1>9. QED
  BY <1>1, <1>2, <1>3, <1>4, <1>6, <1>7, <1>8
     DEF ServerNext, ProcessStep, Deliver, Clock, RoundMoves, CoverChanges, FollowStore,
         ReadCover, WatchTick, serverVars

\* A process is at one of its stages and holds only handles it knows, and what the watch has
\* reported are conditions there are (main.ts, gateway.ts, alerts.ts).
THEOREM ServerIsWellTyped == ServerInit /\ [][ServerNext]_serverVars => []ServerTypeOK
<1>1. ASSUME ServerInit PROVE proc \in ProcessShape
  <2>1. PICK no : no = "" /\ no \in Exits /\ no \in Refusals
    BY NoName, Zenon
  <2>2. PICK k \in Kinds : proc = [kind |-> k, pc |-> "boot", step |-> 1, open |-> {},
                                   stopping |-> FALSE, exit |-> no, refused |-> no]
    BY <1>1, <2>1, Zenon DEF ServerInit
  <2>3. QED
    BY <2>1, <2>2, StepsFollow, ServerAssumption DEF ProcessShape
<1>2. proc \in ProcessShape /\ [ServerNext]_serverVars => (proc \in ProcessShape)'
  BY ProcessShapeKept
<1>3. AlertsInv /\ UNCHANGED serverVars => AlertsInv'
  BY DEF serverVars, AlertsInv, AlertsTypeOK
<1>4. ASSUME AlertsInv, proc \in ProcessShape PROVE ServerTypeOK
  <2>1. /\ proc.pc \in {"boot", "backfill", "waiting", "driving", "running", "closing",
                         "settled", "ended"}
        /\ proc.open \subseteq Handles /\ proc.exit \in Exits
    BY <1>4 DEF ProcessShape
  <2>2. watch.reported \subseteq 0..MaxRounds
    BY <1>4 DEF AlertsInv, AlertsTypeOK, Condition
  <2>3. QED
    BY <2>1, <2>2, Zenon DEF ServerTypeOK, Handles, Exits
<1> QED
  BY <1>1, <1>2, <1>3, <1>4, AlertsStart, AlertsStep, PTL

=============================================================================
