------------------------------ MODULE Learning ------------------------------
(***************************************************************************)
(* The learning progress of one student (api_learning_progress and         *)
(* learning_certificate in src/app.py): lessons, experience points and the *)
(* streak of days, posted by concurrent requests.                          *)
(*                                                                         *)
(* The first statement of a POST writes, so SQLite gives the connection    *)
(* its write lock there and keeps it until the commit; readers see what    *)
(* was committed.  Days are those of date.today().                         *)
(***************************************************************************)
EXTENDS Integers, FiniteSetsExt, Functions

CONSTANTS
  Students,   \* concurrent requests of the student
  Lessons,    \* LEARNING_MODULES
  Scores,     \* the quiz scores posted, after the clamp to 0..100
  LastDay     \* bound: the last day of a behaviour

ASSUME LearningAssumption ==
  /\ IsFiniteSet(Lessons)
  /\ Scores \subseteq 0..100
  /\ LastDay \in Nat

VARIABLES
  lessonPc,   \* "idle", "posted", "locked", "dated", of each request
  post,       \* its lesson, watched, score, and today once it is known
  lock,       \* the requests that hold the write lock
  draft,      \* the lessons as the transaction with the lock sees them
  progress,   \* learning_progress as committed
  profile,    \* learning_profiles as committed
  today,
  activeDays  \* history: the days with a committed POST

learningVars == <<lessonPc, post, lock, draft, progress, profile, today, activeDays>>

Unseen == [watched |-> FALSE, score |-> 0]
NoDay == -2  \* last_activity_date of a student without a profile: the eve of no day

NoPost == [lesson |-> CHOOSE l \in Lessons : TRUE,
           watched |-> FALSE, score |-> 0, day |-> NoDay]

LearningInit ==
  /\ lessonPc = [r \in Students |-> "idle"]
  /\ post = [r \in Students |-> NoPost]
  /\ lock = {}
  /\ progress = [l \in Lessons |-> Unseen]
  /\ draft = progress
  /\ profile = [xp |-> 0, streak |-> 0, last |-> NoDay]
  /\ today = 0
  /\ activeDays = {}

Midnight ==
  /\ today < LastDay
  /\ today' = today + 1
  /\ UNCHANGED <<lessonPc, post, lock, draft, progress, profile, activeDays>>

-----------------------------------------------------------------------------
LessonGoto(r, label) == lessonPc' = [lessonPc EXCEPT ![r] = label]

Post(r) ==
  /\ lessonPc[r] = "idle"
  /\ \E l \in Lessons, w \in BOOLEAN, s \in Scores :
       post' = [post EXCEPT ![r] = [lesson |-> l, watched |-> w, score |-> s, day |-> NoDay]]
  /\ LessonGoto(r, "posted")
  /\ UNCHANGED <<lock, draft, progress, profile, today, activeDays>>

\* INSERT ... ON CONFLICT DO UPDATE: a lesson may be unwatched again, its
\* score only rises.
Updated(rows, p) ==
  [rows EXCEPT ![p.lesson] =
     [watched |-> p.watched, score |-> Max({@.score, p.score})]]

Upsert(r) ==
  /\ lessonPc[r] = "posted"
  /\ lock = {}
  /\ lock' = {r}
  /\ draft' = Updated(progress, post[r])
  /\ LessonGoto(r, "locked")
  /\ UNCHANGED <<post, progress, profile, today, activeDays>>

\* Variant: the date is taken before the lock.
LockDated(r) ==
  \/ /\ lessonPc[r] = "posted"
     /\ post' = [post EXCEPT ![r].day = today]
     /\ LessonGoto(r, "locked")
     /\ UNCHANGED <<lock, draft, progress, profile, today, activeDays>>
  \/ /\ lessonPc[r] = "locked"
     /\ lock = {}
     /\ lock' = {r}
     /\ draft' = Updated(progress, post[r])
     /\ LessonGoto(r, "dated")
     /\ UNCHANGED <<post, progress, profile, today, activeDays>>

\* The write, which waits for the lock, and then date.today().
LockThenDate(r) ==
  \/ Upsert(r)
  \/ /\ lessonPc[r] = "locked"
     /\ post' = [post EXCEPT ![r].day = today]
     /\ LessonGoto(r, "dated")
     /\ UNCHANGED <<lock, draft, progress, profile, today, activeDays>>

-----------------------------------------------------------------------------
Streak(p, day) ==
  IF p.last = day THEN p.streak
  ELSE IF p.last = day - 1 THEN p.streak + 1 ELSE 1

\* 20 points for a watched lesson, 30 for a quiz passed with 70.
Points(row) == (IF row.watched THEN 20 ELSE 0) + (IF row.score >= 70 THEN 30 ELSE 0)
Xp(rows) == SumFunction([l \in Lessons |-> Points(rows[l])])

Forget(r) == post' = [post EXCEPT ![r] = NoPost] /\ LessonGoto(r, "idle")

Commit(r) ==
  /\ lessonPc[r] = "dated"
  /\ progress' = draft
  /\ profile' = [xp |-> Xp(draft), streak |-> Streak(profile, post[r].day),
                 last |-> post[r].day]
  /\ activeDays' = activeDays \cup {post[r].day}
  /\ lock' = {}
  /\ Forget(r)
  /\ UNCHANGED <<draft, today>>

\* The request fails and its connection is closed: a rollback.
Abandon(r) ==
  /\ lessonPc[r] # "idle"
  /\ lock' = lock \ {r}
  /\ draft' = IF r \in lock THEN progress ELSE draft
  /\ Forget(r)
  /\ UNCHANGED <<progress, profile, today, activeDays>>

LearningNext ==
  \/ Midnight
  \/ \E r \in Students : Post(r) \/ LockThenDate(r) \/ Commit(r) \/ Abandon(r)

LearningSpec == LearningInit /\ [][LearningNext]_learningVars

-----------------------------------------------------------------------------
\* The days of activity that end at the last one without a gap.
Run == {d \in activeDays : \A e \in d..profile.last : e \in activeDays}

\* What the student sees is what the student did, however the requests
\* interleave and midnight passes between them: the points are those of the
\* lessons committed, the last activity is the latest, and the streak counts
\* the days up to it without a gap (api_learning_progress).
ProfileMatches ==
  /\ profile.xp = Xp(progress)
  /\ activeDays # {} => profile.last = Max(activeDays)
  /\ profile.streak = Cardinality(Run)
=============================================================================
