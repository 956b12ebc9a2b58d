-------------------------- MODULE Backfill_proofs --------------------------
(***************************************************************************)
(* That next_open_time is a safe place to resume a backfill from, that the *)
(* count of its candles is exact, that only whole ranges are completed and *)
(* that only shared jobs lose progress: for any number of jobs and runners *)
(* and for all page sizes, gaps and faults.                                *)
(*                                                                         *)
(* The invariant follows a page from the exchange to the row: a fetched    *)
(* page has no hole (PagesWhole), a page whose progress is about to be     *)
(* saved is in the table (PagesStored), so that every copy of a row and    *)
(* every row is covered (CopiesCovered, NothingSkipped). A row's next is   *)
(* past the exchange's clock only where the job starts there (Reached), or *)
(* a candle that begins to form could be one that was skipped.             *)
(*                                                                         *)
(* On top of it: every row and copy counts what is before its next         *)
(* (Counted), a copy that nobody shares is not behind its row              *)
(* (CopiesFresh), and a page is what the exchange answered (Own).          *)
(***************************************************************************)
EXTENDS Backfill, Integers, FiniteSetTheorems, WellFoundedInduction, TLAPS

Reached(row) == row.next <= row.from \/ row.next <= head + 1

RowsReached == \A j \in Existing : Reached(jobs[j])

CopiesCovered ==
  \A r \in Runners : Busy(r) => Covered(job[r]) /\ Reached(job[r])

Fetched(r) == pc[r] \in {"store", "progress"}

\* The candles from a copy's next up to the newest of its page are its page.
PagesWhole ==
  \A r \in Runners : Fetched(r) =>
    /\ page[r] # {}
    /\ page[r] \subseteq Listed(job[r].next, job[r].to, head)
    /\ \A p \in page[r], t \in Listed(job[r].next, Horizon, head) :
         t <= p => t \in page[r]

PagesStored ==
  \A r \in Runners : pc[r] = "progress" => \A t \in page[r] : candles[t] # "none"

\* A fetch that fails leaves attempts to come, or was the last.
TriesLeft ==
  \A r \in Runners :
    pc[r] \in {"mark", "fetch", "store", "progress"} => tries[r] < MaxAttempts

CoverInv ==
  /\ TypeOK
  /\ NothingSkipped /\ RowsReached /\ CopiesCovered
  /\ PagesWhole /\ PagesStored
  /\ TriesLeft

-----------------------------------------------------------------------------
(* Sets of times.                                                          *)

LEMMA SmallestOf ==
  ASSUME NEW S \in SUBSET Nat, S # {}
  PROVE  \E m \in S : \A k \in S : m <= k
<1> DEFINE R == OpToRel(<, Nat)
<1>1. \E x \in S : \A y \in S : ~ (<<y, x>> \in R)
  BY NatLessThanWellFounded, WFMin
<1>2. \A x, y \in Nat : y < x => <<y, x>> \in R
  BY DEF OpToRel
<1> HIDE DEF R
<1>3. PICK x \in S : \A y \in S : ~ (<<y, x>> \in R)
  BY <1>1
<1>4. \A y \in S : ~ (y < x)
  BY <1>2, <1>3
<1>5. QED
  BY <1>4

\* The last candle of a page that is not empty.
LEMMA NewestOf ==
  ASSUME NEW n \in Nat, NEW S \in SUBSET (0 .. n), S # {}
  PROVE  Newest(S) \in S /\ \A u \in S : u <= Newest(S)
<1> DEFINE D == {n - t : t \in S}
<1>1. D \in SUBSET Nat /\ D # {}
  <2>1. PICK t \in S : TRUE
    OBVIOUS
  <2>2. n - t \in D
    OBVIOUS
  <2>3. \A d \in D : d \in Nat
    OBVIOUS
  <2>4. QED
    BY <2>2, <2>3
<1>2. PICK m \in D : \A k \in D : m <= k
  <2> HIDE DEF D
  <2>1. QED
    BY <1>1, SmallestOf
<1>3. PICK t \in S : m = n - t
  OBVIOUS
<1>4. \A u \in S : n - u \in D
  OBVIOUS
<1>5. \A u \in S : u <= t
  <2> TAKE u \in S
  <2>1. m <= n - u
    BY <1>2, <1>4
  <2>2. QED
    BY <2>1, <1>3
<1>6. QED
  BY <1>5 DEF Newest

\* The answer to a request has no hole.
LEMMA OldestOf ==
  ASSUME NEW n \in Nat, NEW S \in SUBSET (0 .. n), NEW k \in Nat
  PROVE  /\ Oldest(S, k) \subseteq S
         /\ \A p \in Oldest(S, k), t \in S : t <= p => t \in Oldest(S, k)
<1>1. Oldest(S, k) \subseteq S
  BY DEF Oldest
<1>2. ASSUME NEW p \in Oldest(S, k), NEW t \in S, t <= p
      PROVE  t \in Oldest(S, k)
  <2> DEFINE Before(q) == {u \in S : u < q}
  <2>1. IsFiniteSet(S)
    <3>1. IsFiniteSet(0 .. n)
      BY FS_Interval
    <3>2. QED
      BY <3>1, FS_Subset
  <2>2. Before(t) \in SUBSET Before(p) /\ Before(p) \in SUBSET S
    <3>0. p \in S
      BY <1>1
    <3>1. p \in Nat /\ t \in Nat /\ \A u \in S : u \in Nat
      BY <3>0
    <3>2. \A u \in S : u < t => u < p
      BY <1>2, <3>1
    <3>3. QED
      BY <3>2
  <2>3. IsFiniteSet(Before(p)) /\ IsFiniteSet(Before(t))
    BY <2>1, <2>2, FS_Subset
  <2>4. Cardinality(Before(t)) <= Cardinality(Before(p))
    BY <2>2, <2>3, FS_Subset
  <2>5. Cardinality(Before(t)) \in Nat /\ Cardinality(Before(p)) \in Nat
    BY <2>3, FS_CardinalityType
  <2>6. Cardinality(Before(p)) < k
    BY <1>2 DEF Oldest
  <2>7. Cardinality(Before(t)) < k
    <3> HIDE DEF Before
    <3>1. QED
      BY <2>4, <2>5, <2>6
  <2>8. QED
    BY <2>7 DEF Oldest
<1>3. QED
  BY <1>1, <1>2

\* Pages are finite: saving their size keeps the count a number.
LEMMA PageFinite ==
  ASSUME TypeOK, NEW r \in Runners
  PROVE  Cardinality(page[r]) \in Nat
<1>1. IsFiniteSet(Times) /\ page[r] \in SUBSET Times
  BY BackfillAssumption, FS_Interval DEF TypeOK, Times
<1>2. QED
  BY <1>1, FS_Subset, FS_CardinalityType

-----------------------------------------------------------------------------
(* Rows, while the clock moves and candles are stored.                     *)

\* What is stored stays stored.
Keeps == \A t \in Times : candles[t] # "none" => candles'[t] # "none"

LEMMA UpsertKeeps ==
  ASSUME TypeOK, NEW r \in Runners, UpsertBatch(r) \/ UNCHANGED candles
  PROVE  Keeps /\ candles' \in [Times -> {"none", "forming", "final"}]
BY DEF TypeOK, UpsertBatch, Keeps

\* A covered row stays covered: a candle that begins to form is not behind it.
LEMMA RowKeeps ==
  ASSUME TypeOK, NEW row \in BackfillJob, Covered(row), Reached(row),
         head' \in {head, head + 1}, Keeps
  PROVE  Covered(row)' /\ Reached(row)'
<1>1. Reached(row)'
  BY BackfillAssumption DEF TypeOK, Reached, BackfillJob, Times
<1>2. ASSUME NEW t \in Listed(row.from, Horizon, head'), t < row.next
      PROVE  candles'[t] # "none"
  <2>1. t \in Times /\ t <= head
    BY <1>2, BackfillAssumption DEF TypeOK, Listed, Reached, BackfillJob, Times
  <2>2. candles[t] # "none"
    BY <1>2, <2>1 DEF Covered, Listed
  <2>3. QED
    BY <2>1, <2>2 DEF Keeps
<1>3. QED
  BY <1>1, <1>2 DEF Covered

-----------------------------------------------------------------------------
(* The job table.                                                          *)

LEMMA NotNoJob == NoJob \notin BackfillJob
BY DEF BackfillJob, NoJob, Status

\* A covered row may be saved over any other.
LEMMA SavesKeep ==
  ASSUME TypeOK, NothingSkipped, RowsReached, NEW r \in Runners, held[r] \in Jobs,
         NEW row \in BackfillJob, Covered(row), Reached(row),
         Saves(r, row) \/ UNCHANGED jobs, UNCHANGED <<head, candles>>
  PROVE  /\ jobs' \in [Jobs -> BackfillJob \cup {NoJob}]
         /\ \A j \in Existing : j \in Existing'
         /\ NothingSkipped' /\ RowsReached'
<1>1. jobs' \in [Jobs -> BackfillJob \cup {NoJob}]
  BY DEF TypeOK, Saves
<1>2. row # NoJob
  BY NotNoJob
<1>3. \A j \in Jobs : jobs'[j] = jobs[j] \/ jobs'[j] = row
  BY DEF TypeOK, Saves
<1>4. \A j \in Existing : j \in Existing'
  BY <1>2, <1>3 DEF Existing
<1>5. \A j \in Existing' : jobs'[j] = row \/ (j \in Existing /\ jobs'[j] = jobs[j])
  BY <1>3 DEF Existing
<1>6. NothingSkipped'
  BY <1>5 DEF NothingSkipped, Covered
<1>7. RowsReached'
  BY <1>5 DEF RowsReached, Reached
<1>8. QED
  BY <1>1, <1>4, <1>6, <1>7

\* Rows and copies stay covered while only the clock and the candles change.
LEMMA WorldKeeps ==
  ASSUME CoverInv, UNCHANGED <<jobs, job, held>>,
         \A q \in Runners : Busy(q)' => Busy(q),
         head' \in {head, head + 1}, Keeps
  PROVE  NothingSkipped' /\ RowsReached' /\ CopiesCovered'
<1> USE DEF CoverInv
<1>1. \A j \in Existing : Covered(jobs[j])' /\ Reached(jobs[j])'
  <2> TAKE j \in Existing
  <2>1. jobs[j] \in BackfillJob
    BY DEF TypeOK, Existing
  <2>2. Covered(jobs[j]) /\ Reached(jobs[j])
    BY DEF NothingSkipped, RowsReached
  <2>3. \A row \in BackfillJob :
          Covered(row) /\ Reached(row) => Covered(row)' /\ Reached(row)'
    BY RowKeeps
  <2>4. QED
    BY <2>1, <2>2, <2>3 DEF Covered, Reached
<1>2. \A q \in Runners : Busy(q) => Covered(job[q])' /\ Reached(job[q])'
  <2> SUFFICES ASSUME NEW q \in Runners, Busy(q)
               PROVE  Covered(job[q])' /\ Reached(job[q])'
    OBVIOUS
  <2>1. job[q] \in BackfillJob
    BY DEF TypeOK
  <2>2. Covered(job[q]) /\ Reached(job[q])
    BY DEF CopiesCovered
  <2>3. \A row \in BackfillJob :
          Covered(row) /\ Reached(row) => Covered(row)' /\ Reached(row)'
    BY RowKeeps
  <2>4. QED
    BY <2>1, <2>2, <2>3 DEF Covered, Reached
<1>3. QED
  BY <1>1, <1>2 DEF NothingSkipped, RowsReached, CopiesCovered, Existing

-----------------------------------------------------------------------------
(* One lemma for each action.                                              *)

LEMMA InitCover == Init => CoverInv
<1> SUFFICES ASSUME Init PROVE CoverInv
  OBVIOUS
<1> USE DEF Init
<1>1. TypeOK
  BY BackfillAssumption DEF TypeOK, Times, Stages, Idle, Busy
<1>2. Existing = {}
  BY DEF Existing
<1>3. QED
  BY <1>1, <1>2 DEF CoverInv, NothingSkipped, RowsReached, CopiesCovered,
     PagesWhole, PagesStored, TriesLeft, Fetched, Busy, Idle

LEMMA StutterCover ==
  ASSUME CoverInv, UNCHANGED vars
  PROVE  CoverInv'
BY DEF CoverInv, vars, local, TypeOK, NothingSkipped, RowsReached, CopiesCovered,
   PagesWhole, PagesStored, TriesLeft, Fetched, Busy, Existing, Covered, Reached

\* A run that has just entered holds no page.
LEMMA EnterKeeps ==
  ASSUME CoverInv, NEW r \in Runners, NEW j \in Jobs, NEW n \in 1 .. Limit,
         NEW row \in BackfillJob, Covered(row), Reached(row), Enter(r, j, row, n),
         jobs' \in [Jobs -> BackfillJob \cup {NoJob}],
         \A i \in Existing : i \in Existing', j \in Existing',
         NothingSkipped', RowsReached'
  PROVE  CoverInv'
<1>1. TypeOK /\ CopiesCovered
  BY DEF CoverInv
<1>2. \A q \in Runners : q # r =>
        /\ pc'[q] = pc[q] /\ held'[q] = held[q] /\ job'[q] = job[q]
        /\ tries'[q] = tries[q] /\ page'[q] = page[q]
  BY <1>1 DEF Enter, Goto, TypeOK
<1>3. /\ pc'[r] = "mark" /\ held'[r] = j /\ job'[r] = row
      /\ tries'[r] = 0 /\ page'[r] = {}
  BY <1>1 DEF Enter, Goto, TypeOK
<1>4. TypeOK'
  <2>1. \A q \in Runners : Busy(q)' => held'[q] \in Existing' /\ job'[q] # NoJob
    BY <1>1, <1>2, <1>3, NotNoJob DEF TypeOK, Busy
  <2>2. pc' \in [Runners -> Stages] /\ held' \in [Runners -> Jobs]
    BY <1>1 DEF TypeOK, Enter, Goto, Stages
  <2>2a. job' \in [Runners -> BackfillJob \cup {NoJob}]
    BY <1>1 DEF TypeOK, Enter
  <2>3. limit' \in [Runners -> 1 .. Limit] /\ tries' \in [Runners -> 0 .. MaxAttempts]
    BY <1>1, BackfillAssumption DEF TypeOK, Enter
  <2>4. /\ page' \in [Runners -> SUBSET Times] /\ seen' \in [Runners -> Times]
        /\ shared' \in [Runners -> BOOLEAN]
    <3>1. page' \in [Runners -> SUBSET Times] /\ seen' \in [Runners -> Times]
      BY <1>1, BackfillAssumption DEF TypeOK, Enter, Times
    <3>2. shared' \in [Runners -> BOOLEAN]
      <4>1. \A q \in Runners : shared[q] \in BOOLEAN
        BY <1>1 DEF TypeOK
      <4>2. QED
        BY <4>1, Zenon DEF Enter
    <3>3. QED
      BY <3>1, <3>2
  <2>5. QED
    BY <1>1, <2>1, <2>2, <2>2a, <2>3, <2>4 DEF TypeOK, Enter
<1>5. CopiesCovered'
  BY <1>1, <1>2, <1>3 DEF Enter, CopiesCovered, Covered, Reached, Busy
<1>6. PagesWhole'
  BY <1>2, <1>3 DEF CoverInv, Enter, PagesWhole, Fetched
<1>7. PagesStored'
  BY <1>2, <1>3 DEF CoverInv, Enter, PagesStored
<1>8. TriesLeft'
  BY <1>2, <1>3, BackfillAssumption DEF CoverInv, TriesLeft
<1>9. QED
  BY <1>4, <1>5, <1>6, <1>7, <1>8 DEF CoverInv

LEMMA CreateKeeps ==
  ASSUME CoverInv, NEW j \in Jobs, Create(j), UNCHANGED <<head, candles>>
  PROVE  /\ jobs' \in [Jobs -> BackfillJob \cup {NoJob}]
         /\ jobs'[j] \in BackfillJob /\ Covered(jobs'[j]) /\ Reached(jobs'[j])
         /\ \A i \in Existing : i \in Existing'
         /\ j \in Existing'
         /\ NothingSkipped' /\ RowsReached'
<1> USE DEF CoverInv
<1>1. PICK from \in Times, to \in Times : jobs' = [jobs EXCEPT ![j] = NewJob(from, to)]
  BY DEF Create
<1> DEFINE row == NewJob(from, to)
<1>2. row \in BackfillJob
  BY BackfillAssumption DEF NewJob, BackfillJob, Status, Times
<1>3. Covered(row) /\ Reached(row)
  BY DEF NewJob, Covered, Reached, Listed, Times
<1>4. row # NoJob
  BY DEF NewJob, NoJob
<1> HIDE DEF row
<1>5. jobs' \in [Jobs -> BackfillJob \cup {NoJob}] /\ jobs'[j] = row
  BY <1>1, <1>2 DEF TypeOK, row
<1>6. \A i \in Jobs : i # j => jobs'[i] = jobs[i]
  BY <1>1 DEF TypeOK
<1>7. j \in Existing' /\ \A i \in Existing : i \in Existing'
  BY <1>4, <1>5, <1>6 DEF Existing
<1>8. \A i \in Existing' : jobs'[i] = row \/ (i \in Existing /\ jobs'[i] = jobs[i])
  BY <1>5, <1>6 DEF Existing
<1>9. NothingSkipped'
  BY <1>3, <1>8 DEF NothingSkipped, Covered
<1>10. RowsReached'
  BY <1>3, <1>8 DEF RowsReached, Reached
<1>11. QED
  BY <1>2, <1>3, <1>5, <1>7, <1>9, <1>10

LEMMA StartKeeps ==
  ASSUME CoverInv, NEW r \in Runners, NEW j \in Jobs, Start(r, j)
  PROVE  CoverInv'
<1>1. PICK n \in 1 .. Limit : Enter(r, j, jobs'[j], n)
  BY DEF Start
<1>2. Create(j) /\ UNCHANGED <<head, candles>>
  BY <1>1 DEF Start, Enter
<1>3. QED
  BY <1>1, <1>2, CreateKeeps, EnterKeeps

LEMMA CreateForResumeKeeps ==
  ASSUME CoverInv, NEW j \in Jobs, CreateForResume(j)
  PROVE  CoverInv'
<1>1. Create(j) /\ UNCHANGED <<head, candles, pc, local, faults>>
  BY DEF CreateForResume
<1>2. /\ jobs' \in [Jobs -> BackfillJob \cup {NoJob}]
      /\ \A i \in Existing : i \in Existing'
      /\ NothingSkipped' /\ RowsReached'
  BY <1>1, CreateKeeps
<1>3. TypeOK'
  BY <1>1, <1>2 DEF CoverInv, TypeOK, local, Busy
<1>4. QED
  BY <1>1, <1>2, <1>3 DEF CoverInv, local, CopiesCovered, PagesWhole, PagesStored,
     TriesLeft, Fetched, Busy, Covered, Reached

LEMMA ResumeKeeps ==
  ASSUME CoverInv, NEW r \in Runners, NEW j \in Jobs, Resume(r, j)
  PROVE  CoverInv'
<1>1. j \in Existing /\ Enter(r, j, jobs[j], Limit) /\ UNCHANGED <<jobs, head, candles>>
  BY DEF Resume, Enter
<1>2. jobs[j] \in BackfillJob /\ Covered(jobs[j]) /\ Reached(jobs[j])
  BY <1>1 DEF CoverInv, TypeOK, Existing, NothingSkipped, RowsReached
<1>3. /\ jobs' \in [Jobs -> BackfillJob \cup {NoJob}]
      /\ \A i \in Existing : i \in Existing'
      /\ j \in Existing' /\ NothingSkipped' /\ RowsReached'
  BY <1>1 DEF CoverInv, TypeOK, Existing, NothingSkipped, RowsReached, Covered, Reached
<1>4. Limit \in 1 .. Limit
  BY BackfillAssumption
<1>5. QED
  BY <1>1, <1>2, <1>3, <1>4, EnterKeeps

-----------------------------------------------------------------------------
(* The steps of a run.                                                     *)

Alone(r) ==
  \A q \in Runners : q # r =>
    /\ pc'[q] = pc[q] /\ job'[q] = job[q] /\ tries'[q] = tries[q]
    /\ page'[q] = page[q]

\* A step of one runner keeps the invariant if the row it then holds is covered
\* and the page it then holds is what a page must be.
LEMMA StepKeeps ==
  ASSUME CoverInv, NEW r \in Runners, Busy(r), Alone(r), TypeOK',
         head' = head, Keeps, NothingSkipped', RowsReached',
         Covered(job[r])', Reached(job[r])',
         Fetched(r)' =>
           /\ page'[r] # {}
           /\ page'[r] \subseteq Listed(job'[r].next, job'[r].to, head)
           /\ \A p \in page'[r], t \in Listed(job'[r].next, Horizon, head) :
                t <= p => t \in page'[r],
         pc'[r] = "progress" => \A t \in page'[r] : candles'[t] # "none",
         pc'[r] \in {"mark", "fetch", "store", "progress"} => tries'[r] < MaxAttempts
  PROVE  CoverInv'
<1>1. CopiesCovered'
  <2> SUFFICES ASSUME NEW q \in Runners, Busy(q)'
               PROVE  Covered(job[q])' /\ Reached(job[q])'
    BY DEF CopiesCovered
  <2>1. CASE q = r
    BY <2>1
  <2>2. CASE q # r
    <3>1. Busy(q) /\ job'[q] = job[q]
      BY <2>2 DEF Alone, Busy
    <3>2. job[q] \in BackfillJob /\ Covered(job[q]) /\ Reached(job[q]) /\ TypeOK
      BY <3>1 DEF CoverInv, TypeOK, CopiesCovered
    <3>3. \A row \in BackfillJob :
            Covered(row) /\ Reached(row) => Covered(row)' /\ Reached(row)'
      BY <3>2, RowKeeps
    <3>4. QED
      BY <3>1, <3>2, <3>3 DEF Covered, Reached
  <2>3. QED
    BY <2>1, <2>2
<1>2. PagesWhole'
  <2> SUFFICES ASSUME NEW q \in Runners, Fetched(q)'
               PROVE  /\ page'[q] # {}
                      /\ page'[q] \subseteq Listed(job'[q].next, job'[q].to, head)
                      /\ \A p \in page'[q], t \in Listed(job'[q].next, Horizon, head) :
                           t <= p => t \in page'[q]
    BY DEF PagesWhole
  <2>1. CASE q = r
    BY <2>1
  <2>2. CASE q # r
    BY <2>2 DEF CoverInv, PagesWhole, Fetched, Alone
  <2>3. QED
    BY <2>1, <2>2
<1>3. PagesStored'
  <2> SUFFICES ASSUME NEW q \in Runners, pc'[q] = "progress", NEW t \in page'[q]
               PROVE  candles'[t] # "none"
    BY DEF PagesStored
  <2>1. CASE q = r
    BY <2>1
  <2>2. CASE q # r
    <3>1. pc[q] = "progress" /\ t \in page[q] /\ t \in Times
      BY <2>2 DEF Alone, CoverInv, TypeOK
    <3>2. QED
      BY <3>1 DEF CoverInv, PagesStored, Keeps
  <2>3. QED
    BY <2>1, <2>2
<1>4. TriesLeft'
  BY DEF CoverInv, TriesLeft, Alone
<1>5. QED
  BY <1>1, <1>2, <1>3, <1>4 DEF CoverInv

\* What a busy runner is known to hold.
LEMMA BusyHolds ==
  ASSUME CoverInv, NEW r \in Runners, Busy(r)
  PROVE  /\ TypeOK /\ NothingSkipped /\ RowsReached
         /\ held[r] \in Existing /\ held[r] \in Jobs /\ job[r] \in BackfillJob
         /\ Covered(job[r]) /\ Reached(job[r])
BY DEF CoverInv, TypeOK, CopiesCovered, Existing

\* Of a row, being covered only concerns its range and its next.
LEMMA SameProgress ==
  ASSUME NEW row, NEW other, other.from = row.from, other.next = row.next,
         Covered(row), Reached(row)
  PROVE  Covered(other) /\ Reached(other)
BY DEF Covered, Reached

LEMMA StatusRow ==
  ASSUME NEW row \in BackfillJob, NEW st \in Status, NEW e \in BOOLEAN,
         NEW other, other = [row EXCEPT !.status = st, !.lastError = e]
  PROVE  other \in BackfillJob /\ other.from = row.from /\ other.next = row.next
BY DEF BackfillJob

\* A failed Save of a covered row.
LEMMA SaveFailsKeeps ==
  ASSUME CoverInv, NEW r \in Runners, Busy(r), NEW row \in BackfillJob,
         Covered(row), Reached(row), SaveFails(r, row), Fault \/ UNCHANGED faults
  PROVE  CoverInv'
<1>1. /\ TypeOK /\ NothingSkipped /\ RowsReached
      /\ held[r] \in Existing /\ held[r] \in Jobs /\ job[r] \in BackfillJob
      /\ Covered(job[r]) /\ Reached(job[r])
  BY BusyHolds
<1>2. UNCHANGED <<head, candles, local>> /\ (Saves(r, row) \/ UNCHANGED jobs)
  BY DEF SaveFails
<1>3. /\ jobs' \in [Jobs -> BackfillJob \cup {NoJob}]
      /\ \A j \in Existing : j \in Existing'
      /\ NothingSkipped' /\ RowsReached'
  BY <1>1, <1>2, SavesKeep
<1>4. pc' = [pc EXCEPT ![r] = "error"] /\ faults' \in 0 .. MaxFaults
  BY <1>1, BackfillAssumption DEF SaveFails, Goto, Fault, TypeOK
<1>5. pc' \in [Runners -> Stages] /\ pc'[r] = "error" /\ Alone(r)
  BY <1>1, <1>2, <1>4 DEF TypeOK, Stages, Idle, Alone, local
<1>6. \A q \in Runners : Busy(q)' => Busy(q)
  BY <1>5 DEF Busy, Idle, Alone
<1>7. TypeOK'
  BY <1>1, <1>2, <1>3, <1>4, <1>5, <1>6 DEF TypeOK, local
<1>8. Covered(job[r])' /\ Reached(job[r])' /\ Keeps
  BY <1>1, <1>2 DEF local, Covered, Reached, Keeps
<1>9. QED
  BY <1>2, <1>3, <1>5, <1>7, <1>8, StepKeeps DEF Fetched

\* The row each kind of Save writes has the progress of the runner's copy.
LEMMA CopyRows ==
  ASSUME CoverInv, NEW r \in Runners, Busy(r)
  PROVE  /\ Marked(r) \in BackfillJob /\ Covered(Marked(r)) /\ Reached(Marked(r))
         /\ Completed(r) \in BackfillJob /\ Covered(Completed(r)) /\ Reached(Completed(r))
         /\ Failed(r) \in BackfillJob /\ Covered(Failed(r)) /\ Reached(Failed(r))
<1>1. job[r] \in BackfillJob /\ Covered(job[r]) /\ Reached(job[r])
  BY BusyHolds
<1>2. /\ Marked(r) \in BackfillJob
      /\ Marked(r).from = job[r].from /\ Marked(r).next = job[r].next
  BY <1>1 DEF Marked, BackfillJob, Status
<1>3. /\ Completed(r) \in BackfillJob
      /\ Completed(r).from = job[r].from /\ Completed(r).next = job[r].next
  BY <1>1 DEF Completed, BackfillJob, Status
<1>4. /\ Failed(r) \in BackfillJob
      /\ Failed(r).from = job[r].from /\ Failed(r).next = job[r].next
  BY <1>1 DEF Failed, BackfillJob, Status
<1>5. QED
  BY <1>1, <1>2, <1>3, <1>4, SameProgress

\* A run that ends with a Save of a covered row.
LEMMA LastSaveKeeps ==
  ASSUME CoverInv, NEW r \in Runners, Busy(r), NEW row \in BackfillJob,
         Covered(row), Reached(row), Saves(r, row), NEW st \in Idle, Goto(r, st),
         UNCHANGED <<head, candles, local, faults>>
  PROVE  CoverInv'
<1>1. /\ TypeOK /\ NothingSkipped /\ RowsReached
      /\ held[r] \in Existing /\ held[r] \in Jobs /\ job[r] \in BackfillJob
      /\ Covered(job[r]) /\ Reached(job[r])
  BY BusyHolds
<1>2. /\ jobs' \in [Jobs -> BackfillJob \cup {NoJob}]
      /\ \A j \in Existing : j \in Existing'
      /\ NothingSkipped' /\ RowsReached'
  BY <1>1, SavesKeep
<1>3. pc' \in [Runners -> Stages] /\ pc'[r] = st /\ Alone(r)
  BY <1>1 DEF TypeOK, Stages, Idle, Alone, local, Goto
<1>4. \A q \in Runners : Busy(q)' => Busy(q)
  BY <1>3 DEF Busy, Alone
<1>5. TypeOK'
  BY <1>1, <1>2, <1>3, <1>4 DEF TypeOK, local
<1>6. Covered(job[r])' /\ Reached(job[r])' /\ Keeps
  BY <1>1 DEF local, Covered, Reached, Keeps
<1>7. QED
  BY <1>2, <1>3, <1>5, <1>6, StepKeeps DEF Fetched, Idle

LEMMA MarkKeeps ==
  ASSUME CoverInv, NEW r \in Runners, Mark(r)
  PROVE  CoverInv'
<1> USE DEF Mark, Goto
<1>1. Busy(r)
  BY DEF Busy, Idle
<1>2. /\ TypeOK /\ NothingSkipped /\ RowsReached
      /\ held[r] \in Existing /\ held[r] \in Jobs
  BY <1>1, BusyHolds
<1>3. Marked(r) \in BackfillJob /\ Covered(Marked(r)) /\ Reached(Marked(r))
  BY <1>1, CopyRows
<1>4. /\ jobs' \in [Jobs -> BackfillJob \cup {NoJob}]
      /\ \A j \in Existing : j \in Existing'
      /\ NothingSkipped' /\ RowsReached'
  BY <1>2, <1>3, SavesKeep
<1>5. /\ pc' \in [Runners -> Stages] /\ pc'[r] \in {"fetch", "complete"}
      /\ job' \in [Runners -> BackfillJob \cup {NoJob}] /\ job'[r] = Marked(r)
      /\ Alone(r)
  BY <1>2, <1>3 DEF TypeOK, Stages, Loop, Alone
<1>6. \A q \in Runners : Busy(q)' => Busy(q) /\ (job'[q] = job[q] \/ job'[q] \in BackfillJob)
  BY <1>1, <1>3, <1>5 DEF Busy, Alone
<1>7. TypeOK'
  BY <1>2, <1>4, <1>5, <1>6, NotNoJob DEF TypeOK
<1>8. Covered(job[r])' /\ Reached(job[r])' /\ Keeps
  BY <1>3, <1>5 DEF Covered, Reached, Keeps
<1>9. tries'[r] < MaxAttempts
  BY DEF CoverInv, TriesLeft
<1>10. QED
  BY <1>1, <1>4, <1>5, <1>7, <1>8, <1>9, StepKeeps DEF Fetched

LEMMA FetchKeeps ==
  ASSUME CoverInv, NEW r \in Runners, Fetch(r)
  PROVE  CoverInv'
<1> USE DEF Fetch, Goto
<1>1. Busy(r)
  BY DEF Busy, Idle
<1>2. /\ TypeOK /\ NothingSkipped /\ RowsReached
      /\ held[r] \in Existing /\ job[r] \in BackfillJob
      /\ Covered(job[r]) /\ Reached(job[r])
  BY <1>1, BusyHolds
<1> DEFINE Offered == Listed(job[r].next, job[r].to, head)
<1>3. Offered \in SUBSET (0 .. head) /\ head \in Nat /\ limit[r] \in Nat
  BY <1>2, BackfillAssumption DEF TypeOK, Listed, BackfillJob, Times
<1>4. NextPage(r) = Oldest(Offered, limit[r])
  BY DEF NextPage
<1>5. /\ NextPage(r) \subseteq Offered
      /\ \A p \in NextPage(r), t \in Offered : t <= p => t \in NextPage(r)
  <2> HIDE DEF Offered
  <2>1. /\ Oldest(Offered, limit[r]) \subseteq Offered
        /\ \A p \in Oldest(Offered, limit[r]), t \in Offered :
             t <= p => t \in Oldest(Offered, limit[r])
    BY <1>3, OldestOf
  <2>2. QED
    BY <1>4, <2>1
<1>6. \A p \in NextPage(r), t \in Listed(job[r].next, Horizon, head) :
        t <= p => t \in NextPage(r)
  BY <1>2, <1>5, BackfillAssumption DEF Listed, TypeOK, BackfillJob, Times
<1>7. NextPage(r) \subseteq Times
  BY <1>2, <1>3, <1>5, BackfillAssumption DEF TypeOK, Times
<1>8. /\ pc' \in [Runners -> Stages] /\ page' \in [Runners -> SUBSET Times]
      /\ seen' \in [Runners -> Times] /\ tries' \in [Runners -> 0 .. MaxAttempts]
      /\ page'[r] = NextPage(r) /\ tries'[r] = 0 /\ Alone(r)
      /\ pc'[r] = IF NextPage(r) = {} THEN "complete" ELSE "store"
  BY <1>2, <1>7, BackfillAssumption DEF TypeOK, Stages, Alone
<1>9. \A q \in Runners : Busy(q)' => Busy(q)
  BY <1>1, <1>8 DEF Busy, Alone
<1>10. TypeOK'
  BY <1>2, <1>8, <1>9 DEF TypeOK, Existing
<1>11. NothingSkipped' /\ RowsReached' /\ Keeps /\ Covered(job[r])' /\ Reached(job[r])'
  BY <1>2 DEF NothingSkipped, RowsReached, Existing, Covered, Reached, Keeps
<1>12. tries'[r] < MaxAttempts
  BY <1>8, BackfillAssumption
<1>13. QED
  BY <1>1, <1>5, <1>6, <1>8, <1>10, <1>11, <1>12, StepKeeps DEF Fetched

LEMMA FetchFailsKeeps ==
  ASSUME CoverInv, NEW r \in Runners, FetchFails(r)
  PROVE  CoverInv'
<1> USE DEF FetchFails, Goto
<1>1. Busy(r)
  BY DEF Busy, Idle
<1>2. /\ TypeOK /\ NothingSkipped /\ RowsReached
      /\ held[r] \in Existing /\ job[r] \in BackfillJob
      /\ Covered(job[r]) /\ Reached(job[r])
  BY <1>1, BusyHolds
<1>3. tries[r] \in Nat /\ tries[r] < MaxAttempts
  BY <1>2, BackfillAssumption DEF CoverInv, TriesLeft, TypeOK
<1>4. /\ pc' \in [Runners -> Stages] /\ tries' \in [Runners -> 0 .. MaxAttempts]
      /\ faults' \in 0 .. MaxFaults /\ tries'[r] = tries[r] + 1 /\ Alone(r)
      /\ pc'[r] = IF tries[r] + 1 = MaxAttempts THEN "fail" ELSE "fetch"
  BY <1>2, <1>3, BackfillAssumption DEF TypeOK, Stages, Alone, Fault
<1>5. \A q \in Runners : Busy(q)' => Busy(q)
  BY <1>1, <1>4 DEF Busy, Alone
<1>6. TypeOK'
  BY <1>2, <1>4, <1>5 DEF TypeOK, Existing
<1>7. NothingSkipped' /\ RowsReached' /\ Keeps /\ Covered(job[r])' /\ Reached(job[r])'
  BY <1>2 DEF NothingSkipped, RowsReached, Existing, Covered, Reached, Keeps
<1>8. pc'[r] = "fetch" => tries'[r] < MaxAttempts
  BY <1>3, <1>4, BackfillAssumption
<1>9. QED
  BY <1>1, <1>4, <1>6, <1>7, <1>8, StepKeeps DEF Fetched

LEMMA StoreKeeps ==
  ASSUME CoverInv, NEW r \in Runners, Store(r)
  PROVE  CoverInv'
<1> USE DEF Store, Goto
<1>1. Busy(r)
  BY DEF Busy, Idle
<1>2. /\ TypeOK /\ held[r] \in Existing /\ job[r] \in BackfillJob
      /\ Covered(job[r]) /\ Reached(job[r])
  BY <1>1, BusyHolds
<1>3. Keeps /\ candles' \in [Times -> {"none", "forming", "final"}]
  BY <1>2, UpsertKeeps
<1>4. pc' \in [Runners -> Stages] /\ pc'[r] = "progress" /\ Alone(r)
  BY <1>2 DEF TypeOK, Stages, Alone, local
<1>5. \A q \in Runners : Busy(q)' => Busy(q)
  BY <1>1, <1>4 DEF Busy, Alone
<1>6. TypeOK'
  BY <1>2, <1>3, <1>4, <1>5 DEF TypeOK, Existing, local
<1>7. NothingSkipped' /\ RowsReached' /\ CopiesCovered'
  BY <1>2, <1>3, <1>5, WorldKeeps DEF local, TypeOK
<1>8. Covered(job[r])' /\ Reached(job[r])'
  BY <1>1, <1>4, <1>7 DEF CopiesCovered, Busy, Idle
<1>9. Fetched(r) /\ UNCHANGED <<head, local>>
  BY DEF Fetched
<1>10. \A t \in page'[r] : candles'[t] # "none"
  BY <1>2 DEF UpsertBatch, TypeOK, local
<1>11. tries'[r] < MaxAttempts
  BY DEF CoverInv, TriesLeft, local
<1>12. /\ page'[r] # {}
       /\ page'[r] \subseteq Listed(job'[r].next, job'[r].to, head)
       /\ \A p \in page'[r], t \in Listed(job'[r].next, Horizon, head) :
            t <= p => t \in page'[r]
  BY <1>9 DEF CoverInv, PagesWhole, local
<1>13. QED
  BY <1>1, <1>3, <1>4, <1>6, <1>7, <1>8, <1>10, <1>11, <1>12, StepKeeps

LEMMA StoreFailsKeeps ==
  ASSUME CoverInv, NEW r \in Runners, StoreFails(r)
  PROVE  CoverInv'
<1> USE DEF StoreFails, Goto
<1>1. Busy(r)
  BY DEF Busy, Idle
<1>2. /\ TypeOK /\ held[r] \in Existing /\ job[r] \in BackfillJob
      /\ Covered(job[r]) /\ Reached(job[r])
  BY <1>1, BusyHolds
<1>3. Keeps /\ candles' \in [Times -> {"none", "forming", "final"}]
  BY <1>2, UpsertKeeps
<1>4. pc' \in [Runners -> Stages] /\ pc'[r] = "fail" /\ Alone(r) /\ faults' \in 0 .. MaxFaults
  BY <1>2, BackfillAssumption DEF TypeOK, Stages, Alone, local, Fault
<1>5. \A q \in Runners : Busy(q)' => Busy(q)
  BY <1>1, <1>4 DEF Busy, Alone
<1>6. TypeOK'
  BY <1>2, <1>3, <1>4, <1>5 DEF TypeOK, Existing, local
<1>7. NothingSkipped' /\ RowsReached' /\ CopiesCovered'
  BY <1>2, <1>3, <1>5, WorldKeeps DEF local, TypeOK
<1>8. Covered(job[r])' /\ Reached(job[r])'
  BY <1>1, <1>4, <1>7 DEF CopiesCovered, Busy, Idle
<1>9. QED
  BY <1>1, <1>3, <1>4, <1>6, <1>7, <1>8, StepKeeps DEF Fetched

\* The step the invariant is about: past a stored page without a hole, all of
\* the exchange's candles up to the new next are stored.
LEMMA AdvancedCovered ==
  ASSUME CoverInv, NEW r \in Runners, pc[r] = "progress"
  PROVE  Advanced(r) \in BackfillJob /\ Covered(Advanced(r)) /\ Reached(Advanced(r))
<1>1. Busy(r) /\ Fetched(r)
  BY DEF Busy, Idle, Fetched
<1>2. TypeOK /\ job[r] \in BackfillJob /\ Covered(job[r]) /\ Reached(job[r])
  BY <1>1, BusyHolds
<1>3. /\ page[r] # {} /\ page[r] \subseteq Listed(job[r].next, job[r].to, head)
      /\ \A p \in page[r], t \in Listed(job[r].next, Horizon, head) :
           t <= p => t \in page[r]
      /\ \A t \in page[r] : candles[t] # "none"
  BY <1>1 DEF CoverInv, PagesWhole, PagesStored
<1> DEFINE last == Newest(page[r])
<1>4. head \in Nat /\ page[r] \in SUBSET (0 .. head)
  BY <1>2, <1>3, BackfillAssumption DEF TypeOK, Listed, Times, BackfillJob
<1>5. last \in page[r] /\ \A u \in page[r] : u <= last
  BY <1>3, <1>4, NewestOf
<1>6. Cardinality(page[r]) \in Nat
  BY <1>2, PageFinite
<1>7. last \in 0 .. head /\ head \in 0 .. Horizon
  BY <1>2, <1>4, <1>5 DEF TypeOK, Times
<1>8. /\ Advanced(r) \in BackfillJob
      /\ Advanced(r).from = job[r].from /\ Advanced(r).next = last + 1
  <2> HIDE DEF last
  <2>1. Advanced(r) = [job[r] EXCEPT !.next = last + 1,
                                     !.inserted = @ + Cardinality(page[r])]
    BY DEF Advanced, last
  <2>2. last + 1 \in 0 .. Horizon + 1
    BY <1>7, BackfillAssumption
  <2>3. job[r].inserted + Cardinality(page[r]) \in Nat
    BY <1>2, <1>6 DEF BackfillJob
  <2>4. QED
    BY <1>2, <2>1, <2>2, <2>3 DEF BackfillJob
<1>9. ASSUME NEW t \in Listed(job[r].from, Horizon, head), t < last + 1
      PROVE  candles[t] # "none"
  <2> HIDE DEF last
  <2>1. t \in Nat /\ t <= last
    BY <1>2, <1>7, <1>9, BackfillAssumption DEF Listed, BackfillJob, Times
  <2>2. CASE t < job[r].next
    BY <1>2, <2>2 DEF Covered
  <2>3. CASE ~ (t < job[r].next)
    <3>1. t \in Listed(job[r].next, Horizon, head)
      BY <1>2, <1>9, <2>1, <2>3, BackfillAssumption DEF Listed, BackfillJob, Times
    <3>2. t \in page[r]
      BY <1>3, <1>5, <2>1, <3>1
    <3>3. QED
      BY <1>3, <3>2
  <2>4. QED
    BY <2>2, <2>3
<1>10. Covered(Advanced(r))
  <2> HIDE DEF last
  <2>1. QED
    BY <1>8, <1>9 DEF Covered
<1>11. Reached(Advanced(r))
  <2> HIDE DEF last
  <2>1. QED
    BY <1>7, <1>8 DEF Reached
<1>12. QED
  BY <1>8, <1>10, <1>11

LEMMA ProgressKeeps ==
  ASSUME CoverInv, NEW r \in Runners, Progress(r)
  PROVE  CoverInv'
<1> USE DEF Progress, Goto
<1>1. Busy(r)
  BY DEF Busy, Idle
<1>2. /\ TypeOK /\ NothingSkipped /\ RowsReached
      /\ held[r] \in Existing /\ held[r] \in Jobs
  BY <1>1, BusyHolds
<1>3. Advanced(r) \in BackfillJob /\ Covered(Advanced(r)) /\ Reached(Advanced(r))
  BY AdvancedCovered
<1>4. /\ jobs' \in [Jobs -> BackfillJob \cup {NoJob}]
      /\ \A j \in Existing : j \in Existing'
      /\ NothingSkipped' /\ RowsReached'
  BY <1>2, <1>3, SavesKeep
<1>5. /\ pc' \in [Runners -> Stages] /\ pc'[r] \in {"fetch", "complete"}
      /\ job' \in [Runners -> BackfillJob \cup {NoJob}] /\ job'[r] = Advanced(r)
      /\ Alone(r)
  BY <1>2, <1>3 DEF TypeOK, Stages, Loop, Alone
<1>6. \A q \in Runners : Busy(q)' => Busy(q) /\ (job'[q] = job[q] \/ job'[q] \in BackfillJob)
  BY <1>1, <1>3, <1>5 DEF Busy, Alone
<1>7. TypeOK'
  BY <1>2, <1>4, <1>5, <1>6, NotNoJob DEF TypeOK
<1>8. Covered(job[r])' /\ Reached(job[r])' /\ Keeps
  BY <1>3, <1>5 DEF Covered, Reached, Keeps
<1>9. tries'[r] < MaxAttempts
  BY DEF CoverInv, TriesLeft
<1>10. QED
  BY <1>1, <1>4, <1>5, <1>7, <1>8, <1>9, StepKeeps DEF Fetched

LEMMA StopKeeps ==
  ASSUME CoverInv, NEW r \in Runners, Stop(r)
  PROVE  CoverInv'
<1> USE DEF Stop, Goto
<1>1. /\ TypeOK /\ NothingSkipped /\ RowsReached
      /\ held[r] \in Existing /\ job[r] \in BackfillJob
      /\ Covered(job[r]) /\ Reached(job[r])
  BY BusyHolds
<1>2. /\ pc' \in [Runners -> Stages] /\ pc'[r] = "stopped" /\ Alone(r)
      /\ faults' \in 0 .. MaxFaults
  BY <1>1, BackfillAssumption DEF TypeOK, Stages, Idle, Alone, local, Fault
<1>3. \A q \in Runners : Busy(q)' => Busy(q)
  BY <1>2 DEF Busy, Alone
<1>4. TypeOK'
  BY <1>1, <1>2, <1>3 DEF TypeOK, Existing, local
<1>5. NothingSkipped' /\ RowsReached' /\ Keeps /\ Covered(job[r])' /\ Reached(job[r])'
  BY <1>1 DEF NothingSkipped, RowsReached, Existing, Covered, Reached, Keeps, local
<1>6. QED
  BY <1>2, <1>4, <1>5, StepKeeps DEF Fetched

LEMMA TickKeeps ==
  ASSUME CoverInv, Tick
  PROVE  CoverInv'
<1> USE DEF Tick
<1>1. TypeOK /\ head' = head + 1 /\ Keeps
  BY DEF CoverInv, Keeps
<1>2. TypeOK'
  BY <1>1, BackfillAssumption DEF TypeOK, local, Existing, Busy, Times
<1>3. NothingSkipped' /\ RowsReached' /\ CopiesCovered'
  BY <1>1, WorldKeeps DEF local, Busy
<1>4. PagesWhole'
  <2> SUFFICES ASSUME NEW r \in Runners, Fetched(r)
               PROVE  /\ page[r] # {}
                      /\ page[r] \subseteq Listed(job[r].next, job[r].to, head')
                      /\ \A p \in page[r], t \in Listed(job[r].next, Horizon, head') :
                           t <= p => t \in page[r]
    BY DEF PagesWhole, Fetched, local
  <2>1. job[r] \in BackfillJob
    BY DEF CoverInv, TypeOK, Fetched, Busy, Idle
  <2>2. /\ page[r] # {} /\ page[r] \subseteq Listed(job[r].next, job[r].to, head)
        /\ \A p \in page[r], t \in Listed(job[r].next, Horizon, head) :
             t <= p => t \in page[r]
    BY DEF CoverInv, PagesWhole
  <2>3. page[r] \subseteq Listed(job[r].next, job[r].to, head')
    BY <1>1, <2>1, <2>2, BackfillAssumption DEF Listed, TypeOK, Times, BackfillJob
  <2>4. ASSUME NEW p \in page[r], NEW t \in Listed(job[r].next, Horizon, head'), t <= p
        PROVE  t \in page[r]
    <3>1. p \in Nat /\ p <= head /\ t \in Nat
      BY <1>1, <2>1, <2>2, BackfillAssumption DEF Listed, TypeOK, Times, BackfillJob
    <3>2. t \in Listed(job[r].next, Horizon, head)
      BY <1>1, <2>4, <3>1 DEF Listed, TypeOK, Times
    <3>3. QED
      BY <2>2, <2>4, <3>2
  <2>5. QED
    BY <2>2, <2>3, <2>4
<1>5. PagesStored' /\ TriesLeft'
  BY DEF CoverInv, PagesStored, TriesLeft, local
<1>6. QED
  BY <1>2, <1>3, <1>4, <1>5 DEF CoverInv

-----------------------------------------------------------------------------

LEMMA RunKeeps ==
  ASSUME CoverInv, NEW r \in Runners, Run(r)
  PROVE  CoverInv'
<1>1. CASE Mark(r)
  BY <1>1, MarkKeeps
<1>2. CASE MarkFails(r)
  BY <1>2, CopyRows, SaveFailsKeeps DEF MarkFails, Busy, Idle
<1>3. CASE Fetch(r)
  BY <1>3, FetchKeeps
<1>4. CASE FetchFails(r)
  BY <1>4, FetchFailsKeeps
<1>5. CASE Store(r)
  BY <1>5, StoreKeeps
<1>6. CASE StoreFails(r)
  BY <1>6, StoreFailsKeeps
<1>7. CASE Progress(r)
  BY <1>7, ProgressKeeps
<1>8. CASE ProgressFails(r)
  BY <1>8, AdvancedCovered, SaveFailsKeeps DEF ProgressFails, Busy, Idle
<1>9. CASE Complete(r)
  <2>1. Busy(r) /\ "done" \in Idle
    BY <1>9 DEF Complete, Busy, Idle
  <2>2. QED
    BY <1>9, <2>1, CopyRows, LastSaveKeeps DEF Complete
<1>10. CASE CompleteFails(r)
  BY <1>10, CopyRows, SaveFailsKeeps DEF CompleteFails, Busy, Idle
<1>11. CASE Fail(r)
  <2>1. Busy(r) /\ "error" \in Idle
    BY <1>11 DEF Fail, Busy, Idle
  <2>2. QED
    BY <1>11, <2>1, CopyRows, LastSaveKeeps DEF Fail
<1>12. CASE FailFails(r)
  BY <1>12, CopyRows, SaveFailsKeeps DEF FailFails, Busy, Idle
<1>13. QED
  BY <1>1, <1>2, <1>3, <1>4, <1>5, <1>6, <1>7, <1>8, <1>9, <1>10, <1>11, <1>12
     DEF Run

LEMMA NextCover ==
  ASSUME CoverInv, [Next]_vars
  PROVE  CoverInv'
<1>1. CASE \E r \in Runners : Run(r) \/ Stop(r)
  BY <1>1, RunKeeps, StopKeeps
<1>2. CASE \E r \in Runners, j \in Jobs : Start(r, j) \/ Resume(r, j)
  BY <1>2, StartKeeps, ResumeKeeps
<1>3. CASE \E j \in Jobs : CreateForResume(j)
  BY <1>3, CreateForResumeKeeps
<1>4. CASE Tick
  BY <1>4, TickKeeps
<1>5. CASE UNCHANGED vars
  BY <1>5, StutterCover
<1>6. QED
  BY <1>1, <1>2, <1>3, <1>4, <1>5 DEF Next

\* The rows, the copies and the pages of the backfill keep the invariant above
\* for every value of the constants.
THEOREM CoverInvariant == Spec => []CoverInv
<1>1. Init => CoverInv
  BY InitCover
<1>2. CoverInv /\ [Next]_vars => CoverInv'
  BY NextCover
<1>3. QED
  BY <1>1, <1>2, PTL DEF Spec

\* The variables of the backfill keep their types.
THEOREM BackfillTypes == Spec => []TypeOK
<1>1. CoverInv => TypeOK
  BY DEF CoverInv
<1>2. QED
  BY <1>1, CoverInvariant, PTL

\* runJob and Resume: wherever runs fail or stop, and however many of them run
\* a job at once, every candle the exchange has before the job's next_open_time
\* is in the candles table, so that resuming there loses nothing.
THEOREM ResumingIsSafe == Spec => []NothingSkipped
<1>1. CoverInv => NothingSkipped
  BY DEF CoverInv
<1>2. QED
  BY <1>1, CoverInvariant, PTL

-----------------------------------------------------------------------------
(* What a run writes.                                                      *)

\* The rows a runner may save: its copy with another status, or moved past its
\* page.
Writable(r, row) ==
  \/ row \in {Marked(r), Completed(r), Failed(r)}
  \/ pc[r] = "progress" /\ row = Advanced(r)

\* A step of a run saves such a row or none; while it goes on, its copy is the
\* row it saved.
LEMMA RunWrites ==
  ASSUME CoverInv, NEW r \in Runners, Run(r) \/ Stop(r)
  PROVE  /\ Busy(r) /\ UNCHANGED <<head, held, limit, shared>> /\ Alone(r)
         /\ \E row : /\ Writable(r, row)
                     /\ \/ UNCHANGED jobs /\ job'[r] = job[r]
                        \/ Saves(r, row) /\ (job'[r] = row \/ (~Busy(r)' /\ job'[r] = job[r]))
<1> USE DEF CoverInv, TypeOK, Alone, Busy, Idle, Goto, local
<1>1. CASE Mark(r)
  <2>1. Saves(r, Marked(r)) /\ job'[r] = Marked(r) /\ Writable(r, Marked(r))
    BY <1>1 DEF Mark, Writable
  <2>2. Busy(r) /\ UNCHANGED <<head, held, limit, shared>> /\ Alone(r)
    BY <1>1 DEF Mark
  <2>3. QED
    BY <2>1, <2>2, Zenon
<1>2. CASE Progress(r)
  <2> DEFINE row == Advanced(r)
  <2>1. /\ pc[r] = "progress" /\ Saves(r, row) /\ job' = [job EXCEPT ![r] = row]
        /\ \E stage : Goto(r, stage)
        /\ UNCHANGED <<head, held, limit, shared, tries, page>>
    BY <1>2, Zenon DEF Progress
  <2>2. Writable(r, row)
    BY <2>1, Zenon DEF Writable
  <2> HIDE DEF row
  <2>3. job'[r] = row /\ Busy(r) /\ Alone(r)
    BY <2>1
  <2>4. UNCHANGED <<head, held, limit, shared>> /\ Writable(r, row)
        /\ Saves(r, row) /\ job'[r] = row /\ Busy(r) /\ Alone(r)
    BY <2>1, <2>2, <2>3
  <2>5. QED
    BY <2>4
<1>3. CASE MarkFails(r) \/ CompleteFails(r) \/ FailFails(r)
  <2>1. PICK row \in {Marked(r), Completed(r), Failed(r)} :
          SaveFails(r, row) /\ pc[r] \in {"mark", "complete", "fail"}
    BY <1>3, Zenon DEF MarkFails, CompleteFails, FailFails
  <2>2. Writable(r, row)
    BY <2>1, Zenon DEF Writable
  <2>3. /\ Saves(r, row) \/ UNCHANGED jobs
        /\ UNCHANGED <<head, held, limit, shared, job, tries, page>> /\ Goto(r, "error")
    BY <2>1, Zenon DEF SaveFails
  <2>4. job'[r] = job[r]
    BY <2>3
  <2>5. Busy(r) /\ ~Busy(r)' /\ Alone(r)
    BY <2>1, <2>3
  <2> HIDE DEF CoverInv, TypeOK, Alone, Busy, Idle, Goto
  <2>6. \/ UNCHANGED jobs /\ job'[r] = job[r]
        \/ Saves(r, row) /\ (job'[r] = row \/ (~Busy(r)' /\ job'[r] = job[r]))
    BY <2>3, <2>4, <2>5
  <2>7. UNCHANGED <<head, held, limit, shared>>
    BY <2>3
  <2>8. QED
    BY <2>2, <2>5, <2>6, <2>7, Zenon
<1>4. CASE ProgressFails(r)
  BY <1>4 DEF ProgressFails, SaveFails, Writable
<1>5. CASE Complete(r) \/ Fail(r)
  BY <1>5 DEF Complete, Fail, Writable
<1>6. CASE Fetch(r) \/ FetchFails(r)
  BY <1>6 DEF Fetch, FetchFails, Writable
<1>7. CASE Store(r) \/ StoreFails(r) \/ Stop(r)
  BY <1>7 DEF Store, StoreFails, Stop, Writable
<1>8. QED
  BY <1>1, <1>2, <1>3, <1>4, <1>5, <1>6, <1>7 DEF Run

\* What a saved row keeps of the copy it was made from.
LEMMA WritableRow ==
  ASSUME CoverInv, NEW r \in Runners, Busy(r), NEW row, Writable(r, row)
  PROVE  /\ row \in BackfillJob
         /\ \/ /\ row.from = job[r].from /\ row.next = job[r].next
               /\ row.inserted = job[r].inserted
            \/ pc[r] = "progress" /\ row = Advanced(r)
<1>1. job[r] \in BackfillJob
  BY BusyHolds
<1>2. /\ Marked(r) \in BackfillJob /\ Completed(r) \in BackfillJob
      /\ Failed(r) \in BackfillJob
  BY CopyRows
<1>3. pc[r] = "progress" => Advanced(r) \in BackfillJob
  BY AdvancedCovered
<1>4. QED
  BY <1>1, <1>2, <1>3 DEF Writable, Marked, Completed, Failed, BackfillJob

-----------------------------------------------------------------------------
(* The count of the candles inserted.                                      *)

UpTo(row) == {t \in Listed(row.from, Horizon, head) : t < row.next}

Counted(row) == row.from <= row.next /\ row.inserted = Cardinality(UpTo(row))

CountInv ==
  /\ \A j \in Existing : Counted(jobs[j])
  /\ \A r \in Runners : Busy(r) => Counted(job[r])

LEMMA UpToFinite ==
  ASSUME NEW row \in BackfillJob
  PROVE  IsFiniteSet(UpTo(row))
<1>1. IsFiniteSet(Times) /\ UpTo(row) \subseteq Times
  BY BackfillAssumption, FS_Interval DEF Times, UpTo, Listed, BackfillJob
<1>2. QED
  BY <1>1, FS_Subset

\* A page is what is between the progress before it and after it.
LEMMA AdvancedCounted ==
  ASSUME CoverInv, CountInv, NEW r \in Runners, pc[r] = "progress"
  PROVE  Counted(Advanced(r))
<1> DEFINE last == Newest(page[r])
<1>1. /\ Busy(r) /\ TypeOK /\ job[r] \in BackfillJob /\ Counted(job[r])
  BY BusyHolds DEF CountInv, Busy, Idle
<1>2. /\ page[r] # {} /\ page[r] \subseteq Listed(job[r].next, job[r].to, head)
      /\ \A p \in page[r], t \in Listed(job[r].next, Horizon, head) :
           t <= p => t \in page[r]
  BY DEF CoverInv, PagesWhole, Fetched
<1>3. page[r] \in SUBSET (0 .. head) /\ head \in Nat
  BY <1>1, <1>2, BackfillAssumption DEF TypeOK, Listed, Times, BackfillJob
<1>4. last \in page[r] /\ \A u \in page[r] : u <= last
  BY <1>2, <1>3, NewestOf
<1> HIDE DEF last
<1>5. /\ job[r].next \in Nat /\ job[r].from \in Nat /\ job[r].to \in 0 .. Horizon
      /\ Horizon \in Nat /\ last \in Nat /\ job[r].from <= job[r].next
      /\ job[r].next <= last
  BY <1>1, <1>2, <1>3, <1>4, BackfillAssumption
     DEF BackfillJob, Times, Counted, Listed
<1>6. /\ Advanced(r).from = job[r].from /\ Advanced(r).next = last + 1
      /\ Advanced(r).inserted = job[r].inserted + Cardinality(page[r])
  BY <1>1 DEF Advanced, BackfillJob, last
<1>7. UpTo(Advanced(r)) = UpTo(job[r]) \cup page[r]
  <2>1. ASSUME NEW t \in UpTo(Advanced(r)) PROVE t \in UpTo(job[r]) \cup page[r]
    <3>1. t \in Listed(job[r].from, Horizon, head) /\ t \in Nat /\ t <= last
      BY <1>5, <1>6, <2>1 DEF UpTo, Listed
    <3>2. CASE t < job[r].next
      BY <3>1, <3>2 DEF UpTo
    <3>3. CASE ~ (t < job[r].next)
      <4>1. t \in Listed(job[r].next, Horizon, head)
        BY <1>5, <3>1, <3>3 DEF Listed
      <4>2. QED
        BY <1>2, <1>4, <3>1, <4>1
    <3>4. QED
      BY <3>2, <3>3
  <2>2. ASSUME NEW t \in UpTo(job[r]) PROVE t \in UpTo(Advanced(r))
    BY <1>5, <1>6, <2>2 DEF UpTo, Listed
  <2>3. ASSUME NEW t \in page[r] PROVE t \in UpTo(Advanced(r))
    <3>1. t \in Listed(job[r].next, job[r].to, head) /\ t <= last
      BY <1>2, <1>4, <2>3
    <3>2. QED
      BY <1>5, <1>6, <3>1 DEF UpTo, Listed
  <2>4. QED
    BY <2>1, <2>2, <2>3
<1>8. UpTo(job[r]) \cap page[r] = {}
  <2>1. \A t \in page[r] : ~ (t < job[r].next)
    BY <1>2, <1>5 DEF Listed
  <2>2. QED
    BY <2>1 DEF UpTo
<1>9. IsFiniteSet(UpTo(job[r])) /\ IsFiniteSet(page[r])
  <2>1. IsFiniteSet(UpTo(job[r]))
    BY <1>1, UpToFinite
  <2>2. IsFiniteSet(0 .. head)
    BY <1>3, FS_Interval
  <2>3. QED
    BY <1>3, <2>1, <2>2, FS_Subset
<1>10. Cardinality(UpTo(job[r]) \cup page[r])
         = Cardinality(UpTo(job[r])) + Cardinality(page[r])
  <2>1. Cardinality(UpTo(job[r])) \in Nat /\ Cardinality(page[r]) \in Nat
    BY <1>9, FS_CardinalityType
  <2>2. Cardinality(UpTo(job[r]) \cup page[r])
          = Cardinality(UpTo(job[r])) + Cardinality(page[r])
            - Cardinality(UpTo(job[r]) \cap page[r])
    BY <1>9, FS_Union
  <2>3. Cardinality(UpTo(job[r]) \cap page[r]) = 0
    BY <1>8, FS_EmptySet
  <2>4. QED
    BY <2>1, <2>2, <2>3
<1>11. QED
  BY <1>1, <1>5, <1>6, <1>7, <1>10 DEF Counted

\* A row just created is counted: nothing is before its next.
LEMMA NewCounted ==
  ASSUME NEW from \in Times, NEW to \in Times
  PROVE  Counted(NewJob(from, to))
<1>1. /\ NewJob(from, to).from = from /\ NewJob(from, to).next = from
      /\ NewJob(from, to).inserted = 0
  BY DEF NewJob
<1>2. UpTo(NewJob(from, to)) = {}
  BY <1>1, BackfillAssumption DEF UpTo, Listed, Times
<1>3. QED
  BY <1>1, <1>2, FS_EmptySet, BackfillAssumption DEF Counted, Times

\* The clock does not change what is before a row's progress.
LEMMA TickCounts ==
  ASSUME TypeOK, Tick, NEW row \in BackfillJob, Reached(row), Counted(row)
  PROVE  Counted(row)'
<1>1. /\ row.from \in Nat /\ row.next \in Nat /\ head \in Nat /\ head' = head + 1
      /\ Horizon \in Nat
  BY BackfillAssumption DEF BackfillJob, TypeOK, Times, Tick
<1>2. UpTo(row)' = UpTo(row)
  BY <1>1 DEF UpTo, Listed, Reached
<1>3. QED
  BY <1>2 DEF Counted

LEMMA CountKept ==
  ASSUME CoverInv, CountInv, [Next]_vars
  PROVE  CountInv'
<1>1. ASSUME NEW r \in Runners, Run(r) \/ Stop(r)
      PROVE  CountInv'
  <2>1. /\ Busy(r) /\ UNCHANGED <<head, held>> /\ Alone(r)
    BY <1>1, RunWrites
  <2>2. PICK row : /\ Writable(r, row)
                   /\ \/ UNCHANGED jobs /\ job'[r] = job[r]
                      \/ Saves(r, row) /\ (job'[r] = row \/ (~Busy(r)' /\ job'[r] = job[r]))
    BY <1>1, RunWrites
  <2>3. Counted(row)
    <3>1. CASE row = Advanced(r) /\ pc[r] = "progress"
      BY <3>1, AdvancedCounted
    <3>2. CASE row.from = job[r].from /\ row.next = job[r].next
               /\ row.inserted = job[r].inserted
      BY <2>1, <3>2 DEF CountInv, Counted, UpTo
    <3>3. QED
      BY <2>1, <2>2, <3>1, <3>2, WritableRow
  <2>4. \A other : Counted(other) => Counted(other)'
    BY <2>1 DEF Counted, UpTo
  <2>5. \A j \in Existing' : jobs'[j] = row \/ (j \in Existing /\ jobs'[j] = jobs[j])
    BY <2>2 DEF CoverInv, TypeOK, Saves, Existing
  <2>6. \A q \in Runners : Busy(q)' =>
          job'[q] = row \/ (Busy(q) /\ job'[q] = job[q])
    BY <2>1, <2>2 DEF Alone, Busy
  <2>7. QED
    BY <2>1, <2>3, <2>5, <2>6 DEF CountInv, Counted, UpTo
<1>2. ASSUME NEW r \in Runners, NEW j \in Jobs, Start(r, j) \/ Resume(r, j)
      PROVE  CountInv'
  <2>1. PICK row, n : Enter(r, j, row, n) /\ row = jobs'[j]
    BY <1>2 DEF Start, Resume
  <2>2. /\ \A q \in Runners : q # r => pc'[q] = pc[q] /\ job'[q] = job[q]
        /\ job'[r] = row /\ UNCHANGED head
    BY <2>1 DEF Enter, Goto, CoverInv, TypeOK
  <2>3. \A i \in Existing' : Counted(jobs'[i]) /\ j \in Existing'
    <3>1. CASE Resume(r, j)
      BY <3>1 DEF Resume, Existing, CountInv
    <3>2. CASE Start(r, j)
      <4>1. PICK from \in Times, to \in Times :
              jobs' = [jobs EXCEPT ![j] = NewJob(from, to)]
        BY <3>2 DEF Start, Create
      <4>2. NewJob(from, to) # NoJob
        BY DEF NewJob, NoJob
      <4>3. \A i \in Existing' : jobs'[i] = NewJob(from, to)
                                 \/ (i \in Existing /\ jobs'[i] = jobs[i])
        BY <4>1 DEF CoverInv, TypeOK, Existing
      <4>4. j \in Existing'
        BY <4>1, <4>2 DEF CoverInv, TypeOK, Existing
      <4>5. QED
        BY <4>3, <4>4, NewCounted DEF CountInv
    <3>3. QED
      BY <1>2, <3>1, <3>2
  <2>4. Counted(row)
    <3>1. j \in Existing'
      BY <1>2, <2>1 DEF Start, Resume, Create, CoverInv, TypeOK, Existing, NewJob, NoJob
    <3>2. QED
      BY <2>1, <2>3, <3>1
  <2>5. QED
    BY <2>2, <2>3, <2>4 DEF CountInv, Counted, UpTo, Busy
<1>3. ASSUME NEW j \in Jobs, CreateForResume(j)
      PROVE  CountInv'
  <2>1. PICK from \in Times, to \in Times :
          jobs' = [jobs EXCEPT ![j] = NewJob(from, to)]
    BY <1>3 DEF CreateForResume, Create
  <2>2. UNCHANGED <<head, pc, job>>
    BY <1>3 DEF CreateForResume, local
  <2>3. \A i \in Existing' : jobs'[i] = NewJob(from, to)
                             \/ (i \in Existing /\ jobs'[i] = jobs[i])
    BY <2>1 DEF CoverInv, TypeOK, Existing
  <2>4. QED
    BY <2>2, <2>3, NewCounted DEF CountInv, Counted, UpTo, Busy
<1>4. CASE Tick
  <2>1. UNCHANGED <<jobs, pc, job>> /\ TypeOK
    BY <1>4 DEF Tick, local, CoverInv
  <2>2. \A j \in Existing : jobs[j] \in BackfillJob /\ Reached(jobs[j])
    BY DEF CoverInv, TypeOK, Existing, RowsReached
  <2>3. \A r \in Runners : Busy(r) => job[r] \in BackfillJob /\ Reached(job[r])
    BY DEF CoverInv, TypeOK, CopiesCovered
  <2>4. \A row \in BackfillJob : Reached(row) /\ Counted(row) => Counted(row)'
    BY <1>4, <2>1, TickCounts
  <2>5. QED
    BY <2>1, <2>2, <2>3, <2>4 DEF CountInv, Existing, Busy, Counted, UpTo
<1>5. CASE UNCHANGED vars
  BY <1>5 DEF vars, local, CountInv, Counted, UpTo, Existing, Busy
<1>6. QED
  BY <1>1, <1>2, <1>3, <1>4, <1>5 DEF Next

-----------------------------------------------------------------------------
(* Runs that follow each other.                                            *)

\* A runner that has its job alone holds the row as it is, or further on.
CopiesFresh ==
  \A r \in Runners : Busy(r) /\ ~shared[r] =>
    /\ jobs[held[r]].next <= job[r].next
    /\ \A q \in Runners : q # r /\ Busy(q) => held[q] # held[r]

\* What a runner saves is not behind its copy.
LEMMA SavedIsAhead ==
  ASSUME CoverInv, CountInv, NEW r \in Runners, Busy(r), NEW row, Writable(r, row)
  PROVE  /\ row \in BackfillJob /\ job[r] \in BackfillJob
         /\ row.next \in Nat /\ job[r].next \in Nat
         /\ job[r].next <= row.next
<1>1. job[r] \in BackfillJob /\ row \in BackfillJob /\ TypeOK
  BY WritableRow, BusyHolds
<1>2. row.next \in Nat /\ job[r].next \in Nat
  <2>1. \A other \in BackfillJob : other.next \in Nat
    BY BackfillAssumption DEF BackfillJob
  <2>2. QED
    BY <1>1, <2>1
<1>3. CASE row.next = job[r].next
  BY <1>1, <1>2, <1>3
<1>4. CASE pc[r] = "progress" /\ row = Advanced(r)
  <2>1. page[r] # {} /\ page[r] \subseteq Listed(job[r].next, job[r].to, head)
    BY <1>4 DEF CoverInv, PagesWhole, Fetched
  <2>2. head \in Nat /\ page[r] \in SUBSET (0 .. head)
    BY <1>1, <1>2, <2>1, BackfillAssumption DEF TypeOK, Listed, Times, BackfillJob
  <2>3. Newest(page[r]) \in page[r]
    BY <2>1, <2>2, NewestOf
  <2>4. job[r].next <= Newest(page[r]) /\ Newest(page[r]) \in Nat
    BY <1>2, <2>1, <2>2, <2>3 DEF Listed
  <2>5. row.next = Newest(page[r]) + 1
    BY <1>1, <1>4 DEF Advanced, BackfillJob
  <2>6. QED
    BY <1>1, <1>2, <2>4, <2>5
<1>5. QED
  BY <1>1, <1>2, <1>3, <1>4, WritableRow

LEMMA FreshKept ==
  ASSUME CoverInv, CountInv, CopiesFresh, [Next]_vars
  PROVE  CopiesFresh'
<1> USE DEF CopiesFresh
<1>1. ASSUME NEW r \in Runners, Run(r) \/ Stop(r)
      PROVE  CopiesFresh'
  <2>1. Busy(r) /\ UNCHANGED <<held, shared>> /\ Alone(r)
    BY <1>1, RunWrites
  <2>2. PICK row : /\ Writable(r, row)
                   /\ \/ UNCHANGED jobs /\ job'[r] = job[r]
                      \/ Saves(r, row) /\ (job'[r] = row \/ (~Busy(r)' /\ job'[r] = job[r]))
    BY <1>1, RunWrites
  <2>3. row.next \in Nat /\ job[r].next \in Nat /\ job[r].next <= row.next
    BY <2>1, <2>2, SavedIsAhead
  <2>4. \A q \in Runners : Busy(q)' => Busy(q)
    BY <2>1 DEF Alone, Busy
  <2>5. ASSUME NEW q \in Runners, Busy(q)', ~shared[q]
        PROVE  jobs'[held[q]].next <= job'[q].next
    <3>1. Busy(q) /\ held[q] \in Jobs /\ jobs[held[q]].next <= job[q].next
      BY <2>4, <2>5 DEF CoverInv, TypeOK
    <3>2. CASE q # r
      <4>1. held[q] # held[r]
        BY <2>1, <2>5, <3>1, <3>2
      <4>2. jobs'[held[q]] = jobs[held[q]] /\ job'[q] = job[q]
        BY <2>1, <2>2, <3>1, <3>2, <4>1 DEF CoverInv, TypeOK, Saves, Alone
      <4>3. QED
        BY <3>1, <4>2
    <3>3. CASE q = r
      <4>1. CASE UNCHANGED jobs /\ job'[r] = job[r]
        BY <3>1, <3>3, <4>1
      <4>2. CASE Saves(r, row) /\ job'[r] = row
        <5>1. jobs'[held[r]] = row
          BY <3>1, <3>3, <4>2 DEF CoverInv, TypeOK, Saves
        <5>2. QED
          BY <2>3, <3>3, <4>2, <5>1
      <4>3. QED
        BY <2>2, <2>5, <3>3, <4>1, <4>2
    <3>4. QED
      BY <3>2, <3>3
  <2>6. QED
    BY <2>1, <2>4, <2>5
<1>2. ASSUME NEW r \in Runners, NEW j \in Jobs, Start(r, j) \/ Resume(r, j)
      PROVE  CopiesFresh'
  <2>1. PICK row, n : Enter(r, j, row, n) /\ row = jobs'[j]
    BY <1>2 DEF Start, Resume
  <2>2. /\ \A q \in Runners : q # r =>
             pc'[q] = pc[q] /\ job'[q] = job[q] /\ held'[q] = held[q]
        /\ job'[r] = row /\ held'[r] = j
    BY <2>1 DEF Enter, Goto, CoverInv, TypeOK
  <2>3. \A q \in Runners : q # r =>
          shared'[q] = (shared[q] \/ (Busy(q) /\ held[q] = j))
    BY <2>1, Zenon DEF Enter
  <2>4. shared'[r] = ({q \in Runners \ {r} : Busy(q) /\ held[q] = j} # {})
    BY <2>1, Zenon DEF Enter
  <2>5. \A i \in Jobs : jobs'[i] = jobs[i] \/ (i = j /\ jobs[j] = NoJob)
    BY <1>2 DEF Start, Resume, Create, CoverInv, TypeOK
  <2>6. ASSUME NEW q \in Runners, q # r, Busy(q)', ~shared'[q]
        PROVE  /\ jobs'[held'[q]].next <= job'[q].next
               /\ \A p \in Runners : p # q /\ Busy(p)' => held'[p] # held'[q]
    <3>1. Busy(q) /\ ~shared[q] /\ held[q] # j
      BY <2>2, <2>3, <2>6 DEF Busy
    <3>2. held[q] \in Jobs /\ jobs[held[q]] # NoJob
      BY <3>1 DEF CoverInv, TypeOK, Existing
    <3>3. jobs'[held[q]] = jobs[held[q]]
      BY <2>5, <3>1, <3>2
    <3>4. \A p \in Runners : p # q /\ p # r /\ Busy(p)' => held'[p] # held'[q]
      BY <2>2, <2>6, <3>1 DEF Busy
    <3>5. QED
      BY <2>2, <2>6, <3>1, <3>3, <3>4
  <2>7. ASSUME ~shared'[r]
        PROVE  /\ jobs'[held'[r]].next <= job'[r].next
               /\ \A p \in Runners : p # r /\ Busy(p)' => held'[p] # held'[r]
    <3>1. \A p \in Runners : p # r /\ Busy(p) => held[p] # j
      BY <2>4, <2>7
    <3>2. jobs'[held'[r]] = job'[r]
      BY <2>1, <2>2
    <3>3. job'[r].next \in Nat
      <4>1. CoverInv'
        BY NextCover
      <4>2. Busy(r)'
        BY <2>1 DEF Enter, Goto, Busy, Idle, CoverInv, TypeOK
      <4>3. job'[r] \in BackfillJob
        BY <4>1, <4>2 DEF CoverInv, TypeOK
      <4>4. QED
        BY <4>3, BackfillAssumption DEF BackfillJob
    <3>4. QED
      BY <2>2, <3>1, <3>2, <3>3 DEF Busy
  <2>8. QED
    BY <2>6, <2>7
<1>3. ASSUME NEW j \in Jobs, CreateForResume(j)
      PROVE  CopiesFresh'
  <2>1. UNCHANGED <<pc, job, held, shared>> /\ jobs[j] = NoJob
        /\ \A i \in Jobs : i # j => jobs'[i] = jobs[i]
    BY <1>3 DEF CreateForResume, Create, local, CoverInv, TypeOK
  <2>2. \A q \in Runners : Busy(q) => held[q] \in Jobs /\ held[q] # j
    BY <2>1 DEF CoverInv, TypeOK, Existing
  <2>3. QED
    BY <2>1, <2>2 DEF Busy
<1>4. CASE Tick \/ UNCHANGED vars
  BY <1>4 DEF Tick, vars, local, Busy
<1>5. QED
  BY <1>1, <1>2, <1>3, <1>4 DEF Next

\* Who takes a job's progress back had it together with another run.
LEMMA RegressIsShared ==
  ASSUME CoverInv, CountInv, CopiesFresh, [Next]_vars, NEW j \in Existing,
         jobs'[j].next < jobs[j].next
  PROVE  \E r \in Runners : Busy(r) /\ held[r] = j /\ shared[r]
<1>1. j \in Jobs /\ jobs[j] \in BackfillJob /\ jobs[j].next \in Nat
  BY BackfillAssumption DEF CoverInv, TypeOK, Existing, BackfillJob
<1>2. PICK r \in Runners : Run(r) \/ Stop(r)
  <2>1. ASSUME NEW r \in Runners, NEW i \in Jobs,
               Start(r, i) \/ Resume(r, i) \/ CreateForResume(i)
        PROVE  FALSE
    <3>1. jobs'[j] = jobs[j]
      BY <1>1, <2>1 DEF Start, Resume, CreateForResume, Create, CoverInv, TypeOK, Existing
    <3>2. QED
      BY <1>1, <3>1
  <2>2. ASSUME NEW i \in Jobs, CreateForResume(i) PROVE FALSE
    <3>1. jobs'[j] = jobs[j]
      BY <1>1, <2>2 DEF CreateForResume, Create, CoverInv, TypeOK, Existing
    <3>2. QED
      BY <1>1, <3>1
  <2>3. ~Tick /\ ~UNCHANGED vars
    BY <1>1 DEF Tick, vars
  <2>4. QED
    BY <2>1, <2>2, <2>3 DEF Next
<1>3. Busy(r)
  BY <1>2, RunWrites
<1>4. PICK row : /\ Writable(r, row)
                 /\ \/ UNCHANGED jobs /\ job'[r] = job[r]
                    \/ Saves(r, row) /\ (job'[r] = row \/ (~Busy(r)' /\ job'[r] = job[r]))
  BY <1>2, RunWrites
<1>5. /\ row.next \in Nat /\ job[r].next \in Nat /\ job[r].next <= row.next
  BY <1>3, <1>4, SavedIsAhead
<1>6. held[r] = j /\ jobs'[j] = row
  <2>1. Saves(r, row)
    BY <1>1, <1>4
  <2>2. QED
    BY <1>1, <2>1 DEF Saves, CoverInv, TypeOK
<1>7. shared[r]
  <2> SUFFICES ASSUME ~shared[r] PROVE FALSE
    OBVIOUS
  <2>1. jobs[j].next <= job[r].next
    BY <1>3, <1>6 DEF CopiesFresh
  <2>2. QED
    BY <1>1, <1>5, <1>6, <2>1
<1>8. QED
  BY <1>3, <1>6, <1>7

-----------------------------------------------------------------------------
(* What a run looked at before it completes its job.                       *)

Whole(row, h) ==
  \A t \in Listed(row.from, row.to, h) : t < row.to => candles[t] # "none"

\* A page is what the exchange answered with, and a job that is about to be
\* completed is in the table as the exchange had it.
Own(r) ==
  /\ seen[r] <= head
  /\ Fetched(r) =>
       page[r] = Oldest(Listed(job[r].next, job[r].to, seen[r]), limit[r])
  /\ pc[r] = "complete" => Whole(job[r], seen[r])

WholeInv == \A r \in Runners : Own(r)

\* An answer shorter than was asked for is everything there is.
LEMMA OldestAll ==
  ASSUME NEW n \in Nat, NEW S \in SUBSET (0 .. n), NEW k \in Nat,
         Cardinality(Oldest(S, k)) < k
  PROVE  Oldest(S, k) = S
<1> DEFINE Rest == S \ Oldest(S, k)
<1>1. Oldest(S, k) \subseteq S
  BY DEF Oldest
<1>2. ASSUME Rest # {} PROVE FALSE
  <2>0. \A u \in S : u \in Nat
    OBVIOUS
  <2>1. PICK m \in Rest : \A u \in Rest : m <= u
    <3>1. Rest \in SUBSET Nat
      BY <2>0
    <3> HIDE DEF Rest
    <3>2. QED
      BY <1>2, <3>1, SmallestOf
  <2>2. m \in S /\ m \notin Oldest(S, k) /\ m \in Nat
    BY <2>0, <2>1
  <2>3. {u \in S : u < m} \subseteq Oldest(S, k)
    <3>1. ASSUME NEW u \in S, u < m PROVE u \in Oldest(S, k)
      <4>1. ~ (m <= u)
        BY <2>0, <2>2, <3>1
      <4>2. QED
        BY <2>1, <3>1, <4>1
    <3>2. QED
      BY <3>1
  <2>4. IsFiniteSet(Oldest(S, k))
    <3>1. IsFiniteSet(0 .. n)
      BY FS_Interval
    <3>2. IsFiniteSet(S)
      BY <3>1, FS_Subset
    <3>3. QED
      BY <1>1, <3>2, FS_Subset
  <2>5. /\ Cardinality({u \in S : u < m}) <= Cardinality(Oldest(S, k))
        /\ Cardinality({u \in S : u < m}) \in Nat
        /\ Cardinality(Oldest(S, k)) \in Nat
    BY <2>3, <2>4, FS_Subset, FS_CardinalityType
  <2>6. Cardinality({u \in S : u < m}) < k
    BY <2>5
  <2>7. QED
    BY <2>2, <2>6 DEF Oldest
<1>3. QED
  BY <1>1, <1>2

\* A covered row is whole when nothing is left to look at before its end.
LEMMA CoveredWhole ==
  ASSUME NEW row \in BackfillJob, Covered(row), NEW h \in Times, h <= head,
         head \in Times,
         \A t \in Listed(row.next, row.to, h) : ~ (t < row.to)
  PROVE  Whole(row, h)
<1> SUFFICES ASSUME NEW t \in Listed(row.from, row.to, h), t < row.to
             PROVE  candles[t] # "none"
  BY DEF Whole
<1>1. /\ row.from \in Nat /\ row.to \in 0 .. Horizon /\ row.next \in Nat
      /\ Horizon \in Nat /\ h \in Nat /\ head \in Nat /\ t \in Nat
  BY BackfillAssumption DEF BackfillJob, Times, Listed
<1>2. t < row.next
  BY <1>1 DEF Listed
<1>3. t \in Listed(row.from, Horizon, head)
  BY <1>1 DEF Listed
<1>4. QED
  BY <1>2, <1>3 DEF Covered

\* Where the loop ends because the progress reached the range's end.
LEMMA LoopWhole ==
  ASSUME NEW row \in BackfillJob, Covered(row), NEW h \in Times, h <= head,
         head \in Times, Loop(row) = "complete"
  PROVE  Whole(row, h)
<1>1. ~ (row.next < row.to)
  BY DEF Loop
<1>2. \A t \in Listed(row.next, row.to, h) : ~ (t < row.to)
  BY <1>1, BackfillAssumption DEF Listed, BackfillJob, Times
<1>3. QED
  BY <1>2, CoveredWhole

\* What a run knows stays so while others move.
LEMMA OwnKept ==
  ASSUME CoverInv, NEW r \in Runners, Own(r), Keeps, head' \in {head, head + 1},
         pc'[r] = pc[r], job'[r] = job[r], page'[r] = page[r],
         seen'[r] = seen[r], limit'[r] = limit[r]
  PROVE  Own(r)'
<1>1. head \in Nat /\ seen[r] \in Nat
  BY BackfillAssumption DEF CoverInv, TypeOK, Times
<1>2. seen'[r] <= head'
  BY <1>1 DEF Own
<1>3. Fetched(r)' =>
        page'[r] = Oldest(Listed(job'[r].next, job'[r].to, seen'[r]), limit'[r])
  BY DEF Own, Fetched
<1>4. pc'[r] = "complete" => Whole(job[r], seen[r])'
  <2> SUFFICES ASSUME pc'[r] = "complete",
                      NEW t \in Listed(job[r].from, job[r].to, seen[r]), t < job[r].to
               PROVE  candles'[t] # "none"
    BY DEF Whole
  <2>1. candles[t] # "none"
    BY DEF Own, Whole
  <2>2. job[r] \in BackfillJob
    BY BusyHolds DEF Busy, Idle
  <2>3. t \in Times
    BY <2>2, BackfillAssumption DEF Listed, BackfillJob, Times
  <2>4. QED
    BY <2>1, <2>3 DEF Keeps
<1>5. QED
  BY <1>2, <1>3, <1>4 DEF Own

LEMMA MarkOwn ==
  ASSUME CoverInv, NEW r \in Runners, Own(r), Mark(r)
  PROVE  Own(r)'
<1>1. /\ Busy(r) /\ TypeOK /\ job[r] \in BackfillJob
  BY BusyHolds DEF Mark, Busy, Idle
<1>2. Marked(r) \in BackfillJob /\ Covered(Marked(r))
  BY <1>1, CopyRows
<1>3. /\ UNCHANGED <<head, candles, seen>>
      /\ pc'[r] = Loop(job[r]) /\ job'[r] = Marked(r)
  BY <1>1 DEF Mark, Goto, TypeOK
<1>4. Loop(Marked(r)) = Loop(job[r]) /\ ~Fetched(r)'
  BY <1>1, <1>3 DEF Loop, Marked, BackfillJob, Fetched
<1>5. seen[r] \in Times /\ seen[r] <= head /\ head \in Times
  BY <1>1 DEF Own, TypeOK
<1>6. pc'[r] = "complete" => Whole(job'[r], seen[r])
  BY <1>2, <1>3, <1>4, <1>5, LoopWhole
<1>7. QED
  BY <1>3, <1>4, <1>5, <1>6 DEF Own, Whole

LEMMA FetchOwn ==
  ASSUME CoverInv, NEW r \in Runners, Own(r), Fetch(r)
  PROVE  Own(r)'
<1>1. /\ Busy(r) /\ TypeOK /\ job[r] \in BackfillJob /\ Covered(job[r])
  BY BusyHolds DEF Fetch, Busy, Idle
<1>2. /\ UNCHANGED <<head, candles, job, limit>>
      /\ page'[r] = NextPage(r) /\ seen'[r] = head
      /\ pc'[r] = IF NextPage(r) = {} THEN "complete" ELSE "store"
  BY <1>1 DEF Fetch, Goto, TypeOK
<1>3. head \in Times /\ head \in Nat /\ limit[r] \in Nat \ {0}
  BY <1>1, BackfillAssumption DEF TypeOK, Times
<1>4. page'[r] = Oldest(Listed(job'[r].next, job'[r].to, seen'[r]), limit'[r])
  BY <1>2 DEF NextPage
<1>5. pc'[r] = "complete" => Whole(job[r], head)
  <2> SUFFICES ASSUME NextPage(r) = {} PROVE Whole(job[r], head)
    BY <1>2
  <2> DEFINE Offered == Listed(job[r].next, job[r].to, head)
  <2>1. Offered \in SUBSET (0 .. head)
    BY <1>1, <1>3, BackfillAssumption DEF Listed, BackfillJob, Times
  <2>2. Oldest(Offered, limit[r]) = {}
    BY DEF NextPage
  <2>3. Offered = {}
    <3> HIDE DEF Offered
    <3>1. Cardinality(Oldest(Offered, limit[r])) < limit[r]
      BY <1>3, <2>2, FS_EmptySet
    <3>2. QED
      BY <1>3, <2>1, <2>2, <3>1, OldestAll
  <2>4. head <= head
    BY <1>3
  <2>5. QED
    BY <1>1, <1>3, <2>3, <2>4, CoveredWhole
<1>6. QED
  BY <1>2, <1>3, <1>4, <1>5 DEF Own, Whole

LEMMA ProgressOwn ==
  ASSUME CoverInv, NEW r \in Runners, Own(r), Progress(r)
  PROVE  Own(r)'
<1>1. /\ Busy(r) /\ TypeOK /\ job[r] \in BackfillJob /\ pc[r] = "progress"
  BY BusyHolds DEF Progress, Busy, Idle
<1>2. Advanced(r) \in BackfillJob /\ Covered(Advanced(r))
  BY <1>1, AdvancedCovered
<1>3. /\ UNCHANGED <<head, candles, seen>> /\ job'[r] = Advanced(r)
      /\ pc'[r] = IF Cardinality(page[r]) < limit[r] THEN "complete"
                  ELSE Loop(Advanced(r))
  BY <1>1 DEF Progress, Goto, TypeOK
<1>4. seen[r] \in Times /\ seen[r] <= head /\ head \in Times /\ limit[r] \in Nat
  BY <1>1, BackfillAssumption DEF Own, TypeOK
<1>5. ~Fetched(r)'
  BY <1>3 DEF Loop, Fetched
<1>6. CASE Cardinality(page[r]) < limit[r]
  <2> DEFINE Offered == Listed(job[r].next, job[r].to, seen[r])
             last == Newest(page[r])
  <2>1. Offered \in SUBSET (0 .. Horizon) /\ Horizon \in Nat
    BY <1>1, BackfillAssumption DEF Listed, BackfillJob, Times
  <2>2. page[r] = Oldest(Offered, limit[r])
    BY <1>1 DEF Own, Fetched
  <2>3. page[r] = Offered
    <3> HIDE DEF Offered
    <3>1. QED
      BY <1>4, <1>6, <2>1, <2>2, OldestAll
  <2>4. page[r] # {}
    BY <1>1 DEF CoverInv, PagesWhole, Fetched
  <2>5. last \in page[r] /\ \A u \in page[r] : u <= last
    BY <2>1, <2>3, <2>4, NewestOf
  <2> HIDE DEF last
  <2>6. job[r].next \in Nat /\ job[r].to \in Nat /\ last \in Nat /\ job[r].next <= last
    BY <1>1, <2>1, <2>3, <2>5, BackfillAssumption DEF Listed, BackfillJob, Times
  <2>7. Advanced(r).next = last + 1 /\ Advanced(r).to = job[r].to
    BY <1>1 DEF Advanced, BackfillJob, last
  <2>8. ASSUME NEW t \in Listed(Advanced(r).next, Advanced(r).to, seen[r])
        PROVE  FALSE
    <3>1. t \in Nat /\ last + 1 <= t /\ t \in Offered
      BY <2>6, <2>7, <2>8 DEF Listed
    <3>2. t <= last
      BY <2>3, <2>5, <3>1
    <3>3. QED
      BY <2>6, <3>1, <3>2
  <2>9. Whole(Advanced(r), seen[r])
    BY <1>2, <1>4, <2>8, CoveredWhole
  <2>10. QED
    BY <1>3, <1>4, <1>5, <2>9 DEF Own, Whole
<1>7. CASE ~ (Cardinality(page[r]) < limit[r])
  <2>1. pc'[r] = "complete" => Whole(Advanced(r), seen[r])
    BY <1>2, <1>3, <1>4, <1>7, LoopWhole
  <2>2. QED
    BY <1>3, <1>4, <1>5, <2>1 DEF Own, Whole
<1>8. QED
  BY <1>6, <1>7

LEMMA RunOwn ==
  ASSUME CoverInv, NEW r \in Runners, Own(r), Run(r) \/ Stop(r)
  PROVE  Own(r)'
<1>1. CASE Mark(r) \/ Fetch(r) \/ Progress(r)
  BY <1>1, MarkOwn, FetchOwn, ProgressOwn
<1>2. CASE Store(r)
  BY <1>2 DEF Store, Own, Goto, local, Fetched, CoverInv, TypeOK
<1>3. CASE Stop(r) \/ MarkFails(r) \/ FetchFails(r) \/ StoreFails(r)
           \/ ProgressFails(r) \/ Complete(r) \/ CompleteFails(r)
           \/ Fail(r) \/ FailFails(r)
  <2>1. /\ UNCHANGED <<head, seen>>
        /\ \E stage \in {"stopped", "done", "error", "fail", "fetch"} : Goto(r, stage)
    BY <1>3 DEF Stop, MarkFails, FetchFails, StoreFails, ProgressFails, Complete,
                CompleteFails, Fail, FailFails, SaveFails, local
  <2>2. pc'[r] \in {"stopped", "done", "error", "fail", "fetch"}
    BY <2>1 DEF Goto, CoverInv, TypeOK
  <2>3. QED
    BY <2>1, <2>2 DEF Own, Fetched
<1>4. QED
  BY <1>1, <1>2, <1>3 DEF Run

\* The candles, and what others hold, through a step of one runner.
LEMMA RunFrame ==
  ASSUME CoverInv, NEW r \in Runners, Run(r) \/ Stop(r)
  PROVE  /\ Keeps /\ UNCHANGED <<head, limit>>
         /\ \A q \in Runners : q # r =>
              /\ pc'[q] = pc[q] /\ job'[q] = job[q] /\ page'[q] = page[q]
              /\ seen'[q] = seen[q]
<1>1. TypeOK
  BY DEF CoverInv
<1>2. UNCHANGED <<head, limit>> /\ Alone(r)
  BY RunWrites
<1>3. UpsertBatch(r) \/ UNCHANGED candles
  BY DEF Run, Stop, Mark, MarkFails, Fetch, FetchFails, Store, StoreFails, Progress,
         ProgressFails, Complete, CompleteFails, Fail, FailFails, SaveFails
<1>4. UNCHANGED seen \/ seen' = [seen EXCEPT ![r] = head]
  BY DEF Run, Stop, Mark, MarkFails, Fetch, FetchFails, Store, StoreFails, Progress,
         ProgressFails, Complete, CompleteFails, Fail, FailFails, SaveFails, local
<1>5. QED
  BY <1>1, <1>2, <1>3, <1>4, UpsertKeeps DEF Alone, TypeOK

LEMMA WholeKept ==
  ASSUME CoverInv, WholeInv, [Next]_vars
  PROVE  WholeInv'
<1> USE DEF WholeInv
<1>1. ASSUME NEW r \in Runners, Run(r) \/ Stop(r)
      PROVE  WholeInv'
  <2>1. Own(r)'
    BY <1>1, RunOwn
  <2>2. ASSUME NEW q \in Runners, q # r PROVE Own(q)'
    <3>1. /\ Keeps /\ head' \in {head, head + 1}
          /\ pc'[q] = pc[q] /\ job'[q] = job[q] /\ page'[q] = page[q]
          /\ seen'[q] = seen[q] /\ limit'[q] = limit[q]
      BY <1>1, <2>2, RunFrame
    <3>2. QED
      BY <3>1, OwnKept
  <2>3. QED
    BY <2>1, <2>2
<1>2. ASSUME NEW r \in Runners, NEW j \in Jobs, Start(r, j) \/ Resume(r, j)
      PROVE  WholeInv'
  <2>1. PICK row, n : Enter(r, j, row, n)
    BY <1>2 DEF Start, Resume
  <2>2. Own(r)'
    <3>1. pc'[r] = "mark" /\ seen'[r] = 0 /\ head' = head /\ head \in Nat
      BY <2>1, BackfillAssumption DEF Enter, Goto, CoverInv, TypeOK, Times
    <3>2. QED
      BY <3>1 DEF Own, Fetched
  <2>3. ASSUME NEW q \in Runners, q # r PROVE Own(q)'
    <3>1. /\ Keeps /\ head' \in {head, head + 1}
          /\ pc'[q] = pc[q] /\ job'[q] = job[q] /\ page'[q] = page[q]
          /\ seen'[q] = seen[q] /\ limit'[q] = limit[q]
      BY <2>1, <2>3 DEF Enter, Goto, Keeps, CoverInv, TypeOK
    <3>2. QED
      BY <3>1, OwnKept
  <2>4. QED
    BY <2>2, <2>3
<1>3. CASE Tick \/ UNCHANGED vars \/ \E j \in Jobs : CreateForResume(j)
  <2>1. /\ Keeps /\ head' \in {head, head + 1} /\ UNCHANGED <<pc, local>>
    BY <1>3 DEF Tick, CreateForResume, vars, Keeps
  <2>2. ASSUME NEW q \in Runners PROVE Own(q)'
    BY <2>1, OwnKept DEF local
  <2>3. QED
    BY <2>2
<1>4. QED
  BY <1>1, <1>2, <1>3 DEF Next

-----------------------------------------------------------------------------
(* How much work a run has left: what fairness makes it do.                *)

Left(row) == IF row.next > row.to THEN 0 ELSE row.to + 1 - row.next

\* The calls before the next progress, attempts to fetch among them.
Calls(r) ==
  CASE pc[r] = "mark"     -> MaxAttempts + 4
    [] pc[r] = "fetch"    -> MaxAttempts - tries[r] + 3
    [] pc[r] = "store"    -> 3
    [] pc[r] = "progress" -> 2
    [] OTHER              -> 1

\* An upper bound on the steps a run still takes.
Work(r) ==
  IF Busy(r) THEN Left(job[r]) * (MaxAttempts + 4) + Calls(r) ELSE 0

LEMMA CallsTyped ==
  ASSUME CoverInv, NEW r \in Runners
  PROVE  Calls(r) \in 1 .. MaxAttempts + 4
<1>1. /\ tries[r] \in Nat /\ MaxAttempts \in Nat \ {0}
      /\ pc[r] = "fetch" => tries[r] < MaxAttempts
  BY BackfillAssumption DEF CoverInv, TypeOK, TriesLeft
<1>2. QED
  BY <1>1 DEF Calls

LEMMA LeftTyped ==
  ASSUME NEW row \in BackfillJob
  PROVE  Left(row) \in Nat
BY BackfillAssumption DEF Left, BackfillJob, Times

LEMMA WorkTyped ==
  ASSUME CoverInv, NEW r \in Runners
  PROVE  Work(r) \in Nat /\ (Busy(r) => Work(r) > 0)
<1>1. Calls(r) \in Nat /\ Calls(r) > 0
  BY CallsTyped, BackfillAssumption
<1>2. Busy(r) => Left(job[r]) \in Nat
  BY BusyHolds, LeftTyped
<1>3. Busy(r) => Left(job[r]) * (MaxAttempts + 4) \in Nat
  BY <1>2, BackfillAssumption
<1>4. QED
  BY <1>1, <1>3 DEF Work

\* A page takes the run past at least one candle of its range.
LEMMA PageShortens ==
  ASSUME CoverInv, NEW r \in Runners, pc[r] = "progress"
  PROVE  Left(Advanced(r)) < Left(job[r])
<1>1. Busy(r) /\ Fetched(r)
  BY DEF Busy, Idle, Fetched
<1>2. TypeOK /\ job[r] \in BackfillJob
  BY <1>1, BusyHolds
<1>3. page[r] # {} /\ page[r] \subseteq Listed(job[r].next, job[r].to, head)
  BY <1>1 DEF CoverInv, PagesWhole
<1> DEFINE last == Newest(page[r])
<1>4. last \in page[r]
  <2>1. head \in Nat /\ page[r] \in SUBSET (0 .. head)
    BY <1>2, <1>3, BackfillAssumption DEF TypeOK, Listed, Times, BackfillJob
  <2>2. QED
    BY <1>3, <2>1, NewestOf
<1>5. last \in Nat /\ job[r].next <= last /\ last <= job[r].to
  BY <1>2, <1>3, <1>4, BackfillAssumption DEF Listed, BackfillJob, Times
<1>6. Advanced(r).next = last + 1 /\ Advanced(r).to = job[r].to
  BY <1>2 DEF Advanced, BackfillJob
<1> HIDE DEF last
<1>7. QED
  BY <1>2, <1>5, <1>6, BackfillAssumption DEF Left, BackfillJob, Times

\* A run in the same place of its range has fewer calls to make; in a later
\* place it has less to do in any stage.
LEMMA FewerCalls ==
  ASSUME NEW k \in Nat, NEW m \in Nat, NEW n \in Nat, NEW c \in 1 .. k,
         NEW d \in 1 .. k, (m = n /\ d < c) \/ (m < n /\ d < k + c)
  PROVE  m * k + d < n * k + c
<1>1. CASE m = n /\ d < c
  <2>1. m * k \in Nat
    OBVIOUS
  <2>2. QED
    BY <1>1, <2>1
<1>2. CASE m < n /\ d < k + c
  <2>1. PICK e \in Nat : n = m + 1 + e
    <3>1. n - m - 1 \in Nat /\ n = m + 1 + (n - m - 1)
      BY <1>2
    <3>2. QED
      BY <3>1
  <2>2. e * k \in Nat /\ m * k \in Nat /\ n * k = m * k + k + e * k
    BY <2>1
  <2>3. QED
    BY <1>2, <2>2
<1>3. QED
  BY <1>1, <1>2

LEMMA RunShortens ==
  ASSUME CoverInv, NEW r \in Runners, Run(r), CoverInv'
  PROVE  Work(r)' \in Nat /\ Work(r)' < Work(r)
<1> DEFINE K == MaxAttempts + 4
<1>1. Busy(r) /\ job[r] \in BackfillJob /\ TypeOK
  BY RunWrites, BusyHolds
<1>2. /\ Work(r) = Left(job[r]) * K + Calls(r) /\ Work(r) > 0
      /\ Left(job[r]) \in Nat /\ K \in Nat /\ Calls(r) \in 1 .. K
  BY <1>1, WorkTyped, LeftTyped, CallsTyped, BackfillAssumption DEF Work
<1>3. CASE ~Busy(r)'
  BY <1>2, <1>3 DEF Work
<1>4. ASSUME Busy(r)'
      PROVE  /\ Calls(r)' \in 1 .. K /\ Left(job[r])' \in Nat
             /\ \/ Left(job[r])' = Left(job[r]) /\ Calls(r)' < Calls(r)
                \/ Left(job[r])' < Left(job[r])
  <2>1. job'[r] \in BackfillJob /\ Calls(r)' \in 1 .. K
    <3>1. job'[r] \in BackfillJob
      BY <1>4 DEF CoverInv, TypeOK
    <3>2. /\ tries'[r] \in Nat /\ MaxAttempts \in Nat \ {0}
          /\ pc'[r] = "fetch" => tries'[r] < MaxAttempts
      BY BackfillAssumption DEF CoverInv, TypeOK, TriesLeft
    <3>3. QED
      BY <3>1, <3>2 DEF Calls
  <2>2. Left(job[r])' \in Nat
    BY <2>1, LeftTyped
  <2>3. MaxAttempts \in Nat \ {0} /\ tries[r] \in 0 .. MaxAttempts
    BY <1>1, BackfillAssumption DEF TypeOK
  <2>4. CASE Mark(r)
    <3>1. /\ job'[r].next = job[r].next /\ job'[r].to = job[r].to
          /\ pc[r] = "mark" /\ pc'[r] \in {"fetch", "complete"} /\ tries' = tries
      BY <1>1, <2>4 DEF Mark, Marked, Goto, Loop, TypeOK, BackfillJob
    <3>2. Calls(r)' < Calls(r)
      BY <2>3, <3>1 DEF Calls
    <3>3. QED
      BY <2>1, <2>2, <3>1, <3>2 DEF Left
  <2>5. CASE Fetch(r) \/ FetchFails(r) \/ Store(r) \/ StoreFails(r)
    <3>1. UNCHANGED job
      BY <2>5 DEF Fetch, FetchFails, Store, StoreFails, local
    <3>2. \/ pc[r] = "fetch" /\ pc'[r] \in {"store", "complete", "fail"}
          \/ pc[r] = "store" /\ pc'[r] \in {"progress", "fail"}
          \/ pc[r] = "fetch" /\ pc'[r] = "fetch" /\ tries'[r] = tries[r] + 1
      BY <1>1, <2>5 DEF Fetch, FetchFails, Store, StoreFails, Goto, TypeOK
    <3>3. pc[r] = "fetch" => tries[r] < MaxAttempts
      BY DEF CoverInv, TriesLeft
    <3>4. Calls(r)' < Calls(r)
      BY <2>3, <3>2, <3>3 DEF Calls
    <3>5. QED
      BY <2>1, <2>2, <3>1, <3>4 DEF Left
  <2>6. CASE Progress(r)
    <3>1. pc[r] = "progress" /\ job'[r] = Advanced(r)
      BY <1>1, <2>6 DEF Progress, TypeOK
    <3>2. Left(job[r])' < Left(job[r])
      BY <3>1, PageShortens DEF Left
    <3>3. QED
      BY <2>1, <2>2, <3>2
  <2>7. CASE \/ MarkFails(r) \/ ProgressFails(r) \/ CompleteFails(r)
             \/ FailFails(r) \/ Complete(r) \/ Fail(r)
    <3>1. pc'[r] \in {"error", "done"}
      BY <1>1, <2>7 DEF MarkFails, ProgressFails, CompleteFails, FailFails,
                        SaveFails, Complete, Fail, Goto, TypeOK
    <3>2. QED
      BY <1>4, <3>1 DEF Busy, Idle
  <2>8. QED
    BY <2>4, <2>5, <2>6, <2>7 DEF Run
<1>5. CASE Busy(r)'
  <2>1. Work(r)' = Left(job[r])' * K + Calls(r)'
    BY <1>5 DEF Work
  <2>2. /\ Left(job[r])' * K + Calls(r)' < Left(job[r]) * K + Calls(r)
        /\ Left(job[r])' * K + Calls(r)' \in Nat
    <3> HIDE DEF K
    <3>1. Left(job[r])' * K \in Nat
      BY <1>2, <1>4, <1>5
    <3>2. QED
      BY <1>2, <1>4, <1>5, <3>1, FewerCalls
  <2>3. QED
    BY <1>2, <2>1, <2>2
<1>6. QED
  BY <1>3, <1>5

\* Others leave the work of a run alone.
LEMMA OthersWork ==
  ASSUME CoverInv, NEW r \in Runners, Busy(r), [Next]_vars, ~Run(r), ~Stop(r)
  PROVE  Work(r)' = Work(r)
<1>1. TypeOK
  BY DEF CoverInv
<1>2. pc'[r] = pc[r] /\ job'[r] = job[r] /\ tries'[r] = tries[r]
  <2>1. CASE \E q \in Runners : Run(q) \/ Stop(q)
    <3>1. PICK q \in Runners : Run(q) \/ Stop(q)
      BY <2>1
    <3>2. q # r /\ Alone(q)
      BY <3>1, RunWrites
    <3>3. QED
      BY <1>1, <3>2 DEF Alone, TypeOK
  <2>2. CASE \E q \in Runners, j \in Jobs : Start(q, j) \/ Resume(q, j)
    <3>1. PICK q \in Runners : \E row, n, j : Enter(q, j, row, n)
      BY <2>2, Zenon DEF Start, Resume
    <3>2. q # r
      BY <3>1 DEF Enter
    <3>3. QED
      BY <1>1, <3>1, <3>2 DEF Enter, Goto, TypeOK
  <2>3. CASE Tick \/ UNCHANGED vars \/ \E j \in Jobs : CreateForResume(j)
    BY <2>3 DEF Tick, vars, local, CreateForResume
  <2>4. QED
    BY <2>1, <2>2, <2>3 DEF Next
<1>3. QED
  BY <1>2 DEF Work, Busy, Left, Calls

-----------------------------------------------------------------------------
(* The theorems.                                                           *)

\* The rows, the copies and the pages of the backfill keep, beyond the invariant
\* of the cover, the count, the copies' lead and what each run looked at.
THEOREM ProgressInvariant == Spec => [](CoverInv /\ CountInv /\ CopiesFresh /\ WholeInv)
<1>1. Init => CoverInv /\ CountInv /\ CopiesFresh /\ WholeInv
  <2> SUFFICES ASSUME Init PROVE CoverInv /\ CountInv /\ CopiesFresh /\ WholeInv
    OBVIOUS
  <2>1. /\ \A r \in Runners : pc[r] = "stopped" /\ seen[r] = 0
        /\ \A j \in Jobs : jobs[j] = NoJob
        /\ head = 0
    BY DEF Init
  <2>2. CountInv /\ CopiesFresh
    BY <2>1 DEF CountInv, CopiesFresh, Busy, Idle, Existing
  <2>3. WholeInv
    BY <2>1 DEF WholeInv, Own, Fetched
  <2>4. QED
    BY <2>2, <2>3, InitCover
<1>2. CoverInv /\ CountInv /\ CopiesFresh /\ WholeInv /\ [Next]_vars
        => (CoverInv /\ CountInv /\ CopiesFresh /\ WholeInv)'
  BY NextCover, CountKept, FreshKept, WholeKept
<1>3. QED
  BY <1>1, <1>2, PTL DEF Spec

\* BackfillRepository.Save of candles_inserted: although runs stop, repeat a
\* batch and share a job, each candle up to next_open_time is counted once.
THEOREM CountExact == Spec => []CountIsExact
<1>1. CountInv => CountIsExact
  BY DEF CountInv, CountIsExact, Counted, UpTo
<1>2. QED
  BY <1>1, ProgressInvariant, PTL

\* runJob's three ways out of its loop: a job is only marked completed when all
\* the exchange had of its range at the last look is in the candles table.
THEOREM CompletionIsWhole == Spec => []CompletesWholeRange
<1>1. WholeInv => CompletesWholeRange
  BY DEF WholeInv, Own, Whole, CompletesWholeRange
<1>2. QED
  BY <1>1, ProgressInvariant, PTL

\* Save writes whatever copy the run holds: progress is only taken back by a run
\* that had the job together with another one.
THEOREM RegressionIsShared == Spec => RegressNeedsTwoRuns
<1>1. CoverInv /\ CountInv /\ CopiesFresh /\ WholeInv /\ [Next]_vars =>
        [\A j \in Existing :
           jobs'[j].next < jobs[j].next =>
             \E r \in Runners : Busy(r) /\ held[r] = j /\ shared[r]]_vars
  BY RegressIsShared
<1>2. QED
  BY <1>1, ProgressInvariant, PTL DEF Spec, RegressNeedsTwoRuns

\* Each step of a run leaves it less to do, and nobody else gives it more.
RunsShorten ==
  [][\A r \in Runners :
       Busy(r) => Work(r)' <= Work(r) /\ (Run(r) => Work(r)' < Work(r))]_vars

\* runJob's paging cannot go on for ever: over gaps, short and empty pages,
\* failed attempts and a moving clock, every step brings a number that depends
\* on the job's range and maxAttempts alone closer to 0, and a run under way has
\* not reached it. With calls that return, runs end.
THEOREM RunsAreFinite ==
  Spec => [](\A r \in Runners : Work(r) \in Nat /\ (Busy(r) => Work(r) > 0))
          /\ RunsShorten
<1>1. CoverInv => \A r \in Runners : Work(r) \in Nat /\ (Busy(r) => Work(r) > 0)
  BY WorkTyped
<1>2. CoverInv /\ CoverInv' /\ [Next]_vars =>
        [\A r \in Runners :
           Busy(r) => Work(r)' <= Work(r) /\ (Run(r) => Work(r)' < Work(r))]_vars
  <2>1. SUFFICES ASSUME CoverInv, CoverInv', [Next]_vars, NEW r \in Runners, Busy(r)
                 PROVE  Work(r)' <= Work(r) /\ (Run(r) => Work(r)' < Work(r))
    OBVIOUS
  <2>2. Work(r) \in Nat
    BY <2>1, WorkTyped
  <2>3. CASE Run(r)
    <3>1. Work(r)' < Work(r) /\ Work(r)' \in Nat
      BY <2>1, <2>3, RunShortens
    <3>2. QED
      BY <2>2, <3>1
  <2>4. CASE Stop(r)
    <3>1. ~Busy(r)'
      BY <2>1, <2>4 DEF Stop, Goto, Busy, Idle, CoverInv, TypeOK
    <3>2. Work(r)' = 0 /\ Work(r) > 0
      BY <2>1, <3>1, WorkTyped DEF Work
    <3>3. QED
      BY <2>2, <3>2
  <2>5. CASE ~Run(r) /\ ~Stop(r)
    BY <2>1, <2>2, <2>5, OthersWork
  <2>6. QED
    BY <2>3, <2>4, <2>5
<1>3. QED
  BY <1>1, <1>2, CoverInvariant, PTL DEF Spec, RunsShorten

=============================================================================
