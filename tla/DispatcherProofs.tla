-------------------------- MODULE DispatcherProofs --------------------------
(***************************************************************************)
(* Proofs about module Dispatcher, for any subjects.                       *)
(***************************************************************************)
EXTENDS Dispatcher, SequenceTheorems, WellFoundedInduction, TLAPS

-----------------------------------------------------------------------------
(***************************************************************************)
(* Numbers and sequences.                                                  *)
(***************************************************************************)
\* A set of natural numbers that is not empty has a smallest one.
LEMMA MinOfNaturals ==
  ASSUME NEW S, S \subseteq Nat, S # {}
  PROVE  Min(S) \in S /\ \A n \in S : Min(S) <= n
<1> DEFINE R == OpToRel(<, Nat)
<1>1. \A m, n \in Nat : << m, n >> \in R <=> m < n
  BY DEF OpToRel
<1>2. \E m \in S : \A n \in S : << n, m >> \notin R
  BY NatLessThanWellFounded, WFMin, Zenon
<1> HIDE DEF R
<1>3. PICK m \in S : \A n \in S : << n, m >> \notin R
  BY <1>2
<1>4. \A n \in S : ~(n < m)
  BY <1>1, <1>3
<1>5. \A n \in S : m <= n
  BY <1>4
<1> QED BY <1>5 DEF Min

\* A sequence and one element more.
LEMMA AppendFacts ==
  ASSUME NEW S, NEW seq \in Seq(S), NEW e \in S
  PROVE  /\ Append(seq, e) \in Seq(S)
         /\ Len(seq) \in Nat /\ Len(Append(seq, e)) = Len(seq) + 1
         /\ Append(seq, e)[Len(seq) + 1] = e
         /\ \A k \in 1..Len(seq) : Append(seq, e)[k] = seq[k]
BY AppendProperties, LenProperties

\* The dates come in order.
Ascending(dates) == \A i, j \in DOMAIN dates : i <= j => dates[i] <= dates[j]

\* What is left of a sequence in order when its first date is delivered.
LEMMA TailAscends ==
  ASSUME NEW dates \in Seq(Nat), dates # << >>, Ascending(dates)
  PROVE  /\ Tail(dates) \in Seq(Nat) /\ Head(dates) \in Nat /\ Ascending(Tail(dates))
         /\ Tail(dates) # << >> => Head(Tail(dates)) >= Head(dates)
<1>1. /\ Head(dates) \in Nat /\ Tail(dates) \in Seq(Nat)
      /\ Len(Tail(dates)) = Len(dates) - 1
      /\ \A i \in 1..Len(Tail(dates)) : Tail(dates)[i] = dates[i + 1]
  BY HeadTailProperties
<1>2. Len(dates) \in Nat \ {0} /\ DOMAIN dates = 1..Len(dates)
  BY EmptySeq, LenProperties
<1>3. Len(Tail(dates)) \in Nat /\ DOMAIN Tail(dates) = 1..Len(Tail(dates))
  BY <1>1, LenProperties
<1>4. \A i \in 1..Len(dates) : dates[i] \in Nat
  BY ElementOfSeq
<1>5. Ascending(Tail(dates))
  <2> SUFFICES ASSUME NEW i \in 1..Len(Tail(dates)), NEW j \in 1..Len(Tail(dates)), i <= j
               PROVE  Tail(dates)[i] <= Tail(dates)[j]
    BY <1>3 DEF Ascending
  <2>1. i + 1 \in 1..Len(dates) /\ j + 1 \in 1..Len(dates) /\ i + 1 <= j + 1
    BY <1>1, <1>2, <1>3
  <2>2. dates[i + 1] <= dates[j + 1]
    BY <1>2, <2>1 DEF Ascending
  <2> QED BY <1>1, <2>2
<1>6. Tail(dates) # << >> => Head(Tail(dates)) >= Head(dates)
  <2> SUFFICES ASSUME Tail(dates) # << >> PROVE Head(Tail(dates)) >= Head(dates)
    OBVIOUS
  <2>1. Len(Tail(dates)) \in Nat \ {0}
    BY <1>1, EmptySeq
  <2>2. Head(Tail(dates)) = dates[2] /\ Head(dates) = dates[1]
    BY <1>1, <2>1
  <2>3. 1 \in DOMAIN dates /\ 2 \in DOMAIN dates
    BY <1>1, <1>2, <2>1
  <2>4. dates[1] <= dates[2]
    BY <2>3 DEF Ascending
  <2> QED BY <1>2, <1>4, <2>2, <2>3, <2>4
<1> QED BY <1>1, <1>5, <1>6

\* Replacing the subject under the iterator.
LEMMA ReplaceSubject ==
  ASSUME subjects \in Seq(Subject), at \in DOMAIN subjects, NEW s \in Subject,
         subjects' = [subjects EXCEPT ![at] = s]
  PROVE  /\ subjects' \in Seq(Subject) /\ Len(subjects') = Len(subjects)
         /\ DOMAIN subjects' = DOMAIN subjects
         /\ \A i \in DOMAIN subjects : subjects'[i] = IF i = at THEN s ELSE subjects[i]
<1>1. DOMAIN subjects = 1..Len(subjects)
  BY LenProperties
<1> QED BY <1>1, ExceptSeq

-----------------------------------------------------------------------------
(***************************************************************************)
(* The inductive invariant.                                                *)
(***************************************************************************)
\* A worker exists only where thread_ says so, until it was joined.
OneWorker == ~thread => worker = "none" \/ main = "gone"

MutexHeld == mutex <=> worker \in {"notify", "unlock"}

\* The worker leaves its loop once.
EndingKnown == worker \in {"none", "start", "loop", "pass"} => ending = "none"

\* The subjects before the iterator are stopped.
Stopping == worker = "stop" => \A i \in 1 .. at - 1 : subjects[i].life # "started"

\* While the worker stops the subjects after the end, all are at their end.
AtEnd ==
    ending = "eof" /\ worker = "stop" /\ fault = "none" =>
        \A i \in DOMAIN subjects : subjects[i].dates = << >>

\* In a pass nobody has a date earlier than that of the pass to deliver.
Passing ==
    worker = "pass" /\ fault = "none" =>
        \A i \in DOMAIN subjects :
            subjects[i].dates # << >> => Head(subjects[i].dates) >= currentDate

AllAscend == \A i \in DOMAIN subjects : Ascending(subjects[i].dates)

IInv ==
    /\ TypeOK /\ OneWorker /\ MutexHeld /\ EndingKnown /\ Stopping /\ AtEnd
    /\ Passing /\ AllAscend
    /\ NothingLeft /\ StopsWhatItStarted /\ JoinedBeforeGone

\* The constructor's state.
LEMMA InitInv == Init => IInv
<1> SUFFICES ASSUME Init PROVE IInv
  OBVIOUS
<1>1. subjects = << >> /\ DOMAIN << >> = {} /\ Len(<< >>) = 0 /\ << >> \in Seq(Subject)
  BY EmptySeq DEF Init
<1>2. TypeOK
  <2>1. isRun \in BOOLEAN /\ thread \in BOOLEAN /\ dispatched \in BOOLEAN
        /\ idled \in BOOLEAN /\ mutex \in BOOLEAN
    BY DEF Init
  <2>2. /\ subjects \in Seq(Subject) /\ main \in MainSteps /\ worker \in WorkerSteps
        /\ at \in 1 .. Len(subjects) + 1 /\ ending \in Endings /\ fault \in Faults
        /\ currentDate \in Nat
    BY <1>1 DEF Init, MainSteps, WorkerSteps, Endings, Faults, Begin
  <2> QED BY <2>1, <2>2 DEF TypeOK
<1> QED BY <1>1, <1>2
        DEF Init, IInv, OneWorker, MutexHeld, EndingKnown, Stopping, AtEnd, Passing,
            AllAscend, NothingLeft, StopsWhatItStarted, JoinedBeforeGone

\* What the subjects are made of.
LEMMA SubjectFacts ==
  ASSUME TypeOK
  PROVE  /\ subjects \in Seq(Subject) /\ Len(subjects) \in Nat
         /\ DOMAIN subjects = 1..Len(subjects) /\ at \in Nat \ {0}
         /\ at <= Len(subjects) + 1
         /\ \A i \in DOMAIN subjects : subjects[i] \in Subject
BY LenProperties, ElementOfSeq DEF TypeOK

\* A step that leaves the subjects and the worker alone, or only asks it to
\* stop, keeps the invariant; main moves on.
LEMMA MainInv ==
  ASSUME IInv, fault = "none", main # "gone", UNCHANGED << subjects, workerVars, fault >>,
         isRun' \in BOOLEAN, main' \in MainSteps,
         \/ UNCHANGED thread /\ main' # "gone"
         \/ UNCHANGED thread /\ ~thread
         \/ worker = "ended" /\ thread' = FALSE /\ main' = "gone"
  PROVE  IInv'
<1>1. TypeOK'
  BY DEF IInv, TypeOK, workerVars
<1>2. OneWorker' /\ JoinedBeforeGone'
  BY DEF IInv, OneWorker, MutexHeld, JoinedBeforeGone, TypeOK, workerVars
<1> QED BY <1>1, <1>2
        DEF IInv, MutexHeld, EndingKnown, Stopping, AtEnd, Passing, AllAscend,
            NothingLeft, StopsWhatItStarted, workerVars

\* add_subject, also under a worker that walks over the vector it grows.
LEMMA AddSubjectInv ==
  ASSUME IInv, NEW dates \in Feeds, AddSubject(dates)
  PROVE  IInv'
<1> DEFINE new == [feed |-> dates, dates |-> dates, life |-> "added"]
<1>1. /\ subjects \in Seq(Subject) /\ Len(subjects) \in Nat
      /\ DOMAIN subjects = 1..Len(subjects) /\ at \in Nat \ {0}
      /\ at <= Len(subjects) + 1
  BY SubjectFacts DEF IInv
<1>2. dates \in Seq(Nat) /\ Ascending(dates)
  <2>1. dates \in Seq(Nat \ {0}) /\ Nat \ {0} \subseteq Nat
    BY FeedsAssumption
  <2> QED BY <2>1, FeedsAssumption, SeqMonotonic DEF Ascending
<1>3. new \in Subject
  BY <1>2 DEF Subject, Lives
<1>4. new.life = "added" /\ new.dates = dates
  OBVIOUS
<1>5. /\ subjects' = Append(subjects, new) /\ main = "ready" /\ main' = "ready"
      /\ fault = "none" /\ fault' = (IF Working THEN "race" ELSE "none")
      /\ UNCHANGED << isRun, thread, workerVars >>
  BY DEF AddSubject, Call
<1> HIDE DEF new
<1>6. /\ subjects' \in Seq(Subject) /\ Len(subjects') = Len(subjects) + 1
      /\ subjects'[Len(subjects) + 1] = new
      /\ \A i \in 1..Len(subjects) : subjects'[i] = subjects[i]
  BY <1>1, <1>3, <1>5, AppendFacts
<1>7. DOMAIN subjects' = DOMAIN subjects \cup {Len(subjects) + 1}
  <2>1. DOMAIN subjects' = 1..Len(subjects')
    BY <1>6, LenProperties
  <2> QED BY <1>1, <1>6, <2>1
<1>8. TypeOK'
  BY <1>1, <1>5, <1>6 DEF IInv, TypeOK, workerVars, MainSteps, Faults
<1>9. OneWorker' /\ MutexHeld' /\ EndingKnown' /\ JoinedBeforeGone'
  BY <1>5 DEF IInv, OneWorker, MutexHeld, EndingKnown, JoinedBeforeGone, workerVars
<1>10. Stopping'
  <2>1. \A i \in 1 .. at - 1 : i \in 1..Len(subjects)
    BY <1>1
  <2> QED BY <1>5, <1>6, <2>1 DEF IInv, Stopping, workerVars
<1>11. AtEnd' /\ Passing'
  BY <1>5 DEF AtEnd, Passing, Working, workerVars
<1>12. AllAscend'
  BY <1>1, <1>2, <1>4, <1>6, <1>7 DEF IInv, AllAscend
<1>13. NothingLeft' /\ StopsWhatItStarted'
  BY <1>1, <1>4, <1>5, <1>6, <1>7 DEF IInv, NothingLeft, StopsWhatItStarted, workerVars
<1> QED BY <1>8, <1>9, <1>10, <1>11, <1>12, <1>13 DEF IInv

\* start, wherever it is called from.
LEMMA StartInv ==
  ASSUME IInv, NEW next \in {"starting", "running"}, Start(next)
  PROVE  IInv'
<1>1. /\ main = "ready" /\ main' = next /\ fault = "none" /\ UNCHANGED subjects
  BY DEF Start, Call
<1>2. CASE isRun
  <2>1. UNCHANGED << isRun, thread, workerVars, fault >>
    BY <1>2 DEF Start
  <2> QED BY <1>1, <2>1, MainInv DEF IInv, TypeOK, MainSteps
<1>3. CASE ~isRun /\ thread
  <2>1. isRun' = TRUE /\ thread' = TRUE /\ fault' = "terminate" /\ UNCHANGED workerVars
    BY <1>3 DEF Start
  <2>2. TypeOK'
    BY <1>1, <2>1 DEF IInv, TypeOK, workerVars, MainSteps, Faults
  <2> QED BY <1>1, <2>1, <2>2
          DEF IInv, OneWorker, MutexHeld, EndingKnown, Stopping, AtEnd, Passing, AllAscend,
              NothingLeft, StopsWhatItStarted, JoinedBeforeGone, workerVars
<1>4. CASE ~isRun /\ ~thread
  <2>1. /\ isRun' = TRUE /\ thread' = TRUE /\ worker' = "start" /\ at' = 1
        /\ UNCHANGED << currentDate, dispatched, idled, ending, mutex, fault >>
    BY <1>4 DEF Start, Begin
  <2>2. worker = "none"
    BY <1>1, <1>4 DEF IInv, OneWorker
  <2>3. TypeOK'
    <3>1. Len(subjects) \in Nat
      BY SubjectFacts DEF IInv
    <3> QED BY <1>1, <2>1, <3>1 DEF IInv, TypeOK, MainSteps, WorkerSteps
  <2> QED BY <1>1, <2>1, <2>2, <2>3
          DEF IInv, OneWorker, MutexHeld, EndingKnown, Stopping, AtEnd, Passing, AllAscend,
              NothingLeft, StopsWhatItStarted, JoinedBeforeGone
<1> QED BY <1>2, <1>3, <1>4

\* The worker is in a step of its own, which leaves the client's thread alone.
LEMMA WorkerAlone ==
  ASSUME IInv, worker \notin {"none", "ended"}
  PROVE  thread /\ main # "gone"
BY DEF IInv, OneWorker, JoinedBeforeGone

\* The next subject is started.
LEMMA StartSubjectInv ==
  ASSUME IInv, StartSubject
  PROVE  IInv'
<1>1. /\ fault = "none" /\ worker = "start" /\ thread /\ main # "gone" /\ ending = "none"
      /\ UNCHANGED << isRun, clientVars, currentDate, dispatched, idled, ending, mutex, fault >>
  BY WorkerAlone DEF StartSubject, Work, IInv, EndingKnown
<1>2. /\ subjects \in Seq(Subject) /\ Len(subjects) \in Nat
      /\ DOMAIN subjects = 1..Len(subjects) /\ at \in Nat \ {0}
      /\ at <= Len(subjects) + 1
      /\ \A i \in DOMAIN subjects : subjects[i] \in Subject
  BY SubjectFacts DEF IInv
<1>3. CASE at \in DOMAIN subjects
  <2> DEFINE s == [subjects[at] EXCEPT !.life = "started"]
  <2>1. s \in Subject /\ s.dates = subjects[at].dates
    BY <1>2, <1>3 DEF Subject, Lives
  <2>2. subjects' = [subjects EXCEPT ![at] = s] /\ at' = at + 1 /\ worker' = worker
    BY <1>3 DEF StartSubject
  <2> HIDE DEF s
  <2>3. /\ subjects' \in Seq(Subject) /\ Len(subjects') = Len(subjects)
        /\ DOMAIN subjects' = DOMAIN subjects
        /\ \A i \in DOMAIN subjects : subjects'[i] = IF i = at THEN s ELSE subjects[i]
    BY <1>2, <1>3, <2>1, <2>2, ReplaceSubject
  <2>4. TypeOK'
    BY <1>1, <1>2, <1>3, <2>2, <2>3 DEF IInv, TypeOK, clientVars
  <2>5. AllAscend'
    BY <2>1, <2>3 DEF IInv, AllAscend
  <2> QED BY <1>1, <2>2, <2>4, <2>5
          DEF IInv, OneWorker, MutexHeld, EndingKnown, Stopping, AtEnd, Passing,
              NothingLeft, StopsWhatItStarted, JoinedBeforeGone, clientVars
<1>4. CASE at \notin DOMAIN subjects
  <2>1. worker' = "loop" /\ UNCHANGED << subjects, at >>
    BY <1>4 DEF StartSubject
  <2>2. TypeOK'
    BY <1>1, <2>1 DEF IInv, TypeOK, clientVars, WorkerSteps
  <2> QED BY <1>1, <2>1, <2>2
          DEF IInv, OneWorker, MutexHeld, EndingKnown, Stopping, AtEnd, Passing, AllAscend,
              NothingLeft, StopsWhatItStarted, JoinedBeforeGone, clientVars
<1> QED BY <1>3, <1>4

\* The dates the subjects would deliver next are numbers.
LEMMA HeadsFacts ==
  ASSUME TypeOK
  PROVE  /\ Heads \subseteq Nat
         /\ \A i \in DOMAIN subjects :
               subjects[i].dates # << >> => Head(subjects[i].dates) \in Heads
<1>1. \A i \in DOMAIN subjects : subjects[i].dates \in Seq(Nat)
  BY SubjectFacts DEF Subject
<1>2. \A i \in DOMAIN subjects : subjects[i].dates # << >> => Head(subjects[i].dates) \in Nat
  BY <1>1, HeadTailProperties
<1> QED BY <1>2 DEF Heads

\* The first half of dispatch_.
LEMMA BeginPassInv ==
  ASSUME IInv, BeginPass
  PROVE  IInv'
<1>1. /\ fault = "none" /\ worker = "loop" /\ thread /\ main # "gone" /\ ending = "none"
      /\ at' = 1 /\ UNCHANGED << subjects, clientVars, idled, mutex, fault >>
  BY WorkerAlone DEF BeginPass, Work, IInv, EndingKnown, Begin
<1>2. Len(subjects) \in Nat
  BY SubjectFacts DEF IInv
<1>3. CASE ending' = "asked" /\ worker' = "stop" /\ UNCHANGED << isRun, currentDate, dispatched >>
  <2>1. TypeOK'
    BY <1>1, <1>2, <1>3 DEF IInv, TypeOK, clientVars, WorkerSteps, Endings
  <2> QED BY <1>1, <1>3, <2>1
          DEF IInv, OneWorker, MutexHeld, EndingKnown, Stopping, AtEnd, Passing, AllAscend,
              NothingLeft, StopsWhatItStarted, JoinedBeforeGone, clientVars
<1>4. CASE /\ AllAtEnd /\ ending' = "eof" /\ worker' = "stop"
           /\ currentDate' = 0 /\ isRun' = FALSE /\ UNCHANGED dispatched
  <2>1. TypeOK'
    <3>1. /\ isRun' \in BOOLEAN /\ thread' \in BOOLEAN /\ dispatched' \in BOOLEAN
          /\ idled' \in BOOLEAN /\ mutex' \in BOOLEAN
      BY <1>1, <1>4 DEF IInv, TypeOK, clientVars
    <3>2. /\ subjects' \in Seq(Subject) /\ main' \in MainSteps /\ worker' \in WorkerSteps
          /\ at' \in 1 .. Len(subjects') + 1 /\ ending' \in Endings /\ fault' \in Faults
      BY <1>1, <1>2, <1>4 DEF IInv, TypeOK, clientVars, WorkerSteps, Endings
    <3> QED BY <1>4, <3>1, <3>2 DEF TypeOK
  <2>2. \A i \in DOMAIN subjects : subjects[i].dates = << >>
    BY <1>4, HeadsFacts DEF AllAtEnd, IInv
  <2> QED BY <1>1, <1>4, <2>1, <2>2
          DEF IInv, OneWorker, MutexHeld, EndingKnown, Stopping, AtEnd, Passing, AllAscend,
              NothingLeft, StopsWhatItStarted, JoinedBeforeGone, clientVars
<1>5. CASE /\ ~AllAtEnd /\ worker' = "pass"
           /\ currentDate' = SmallestDate /\ dispatched' = FALSE
           /\ UNCHANGED << isRun, ending >>
  <2>1. currentDate' \in Nat /\ \A date \in Heads : currentDate' <= date
    BY <1>5, HeadsFacts, MinOfNaturals DEF AllAtEnd, SmallestDate, IInv
  <2>2. TypeOK'
    <3>1. /\ isRun' \in BOOLEAN /\ thread' \in BOOLEAN /\ dispatched' \in BOOLEAN
          /\ idled' \in BOOLEAN /\ mutex' \in BOOLEAN
      BY <1>1, <1>5 DEF IInv, TypeOK, clientVars
    <3>2. /\ subjects' \in Seq(Subject) /\ main' \in MainSteps /\ worker' \in WorkerSteps
          /\ at' \in 1 .. Len(subjects') + 1 /\ ending' \in Endings /\ fault' \in Faults
      BY <1>1, <1>2, <1>5 DEF IInv, TypeOK, clientVars, WorkerSteps
    <3> QED BY <2>1, <3>1, <3>2 DEF TypeOK
  <2>3. Passing'
    BY <1>1, <2>1, HeadsFacts DEF Passing, IInv
  <2> QED BY <1>1, <1>5, <2>2, <2>3
          DEF IInv, OneWorker, MutexHeld, EndingKnown, Stopping, AtEnd, AllAscend,
              NothingLeft, StopsWhatItStarted, JoinedBeforeGone, clientVars
<1> QED BY <1>3, <1>4, <1>5 DEF BeginPass

\* The second half: one subject after the other.
LEMMA DispatchSubjectInv ==
  ASSUME IInv, DispatchSubject
  PROVE  IInv'
<1>1. /\ fault = "none" /\ worker = "pass" /\ thread /\ main # "gone" /\ ending = "none"
      /\ UNCHANGED << isRun, clientVars, currentDate, ending, mutex, fault >>
  BY WorkerAlone DEF DispatchSubject, Work, IInv, EndingKnown
<1>2. /\ subjects \in Seq(Subject) /\ Len(subjects) \in Nat
      /\ DOMAIN subjects = 1..Len(subjects) /\ at \in Nat \ {0}
      /\ at <= Len(subjects) + 1
      /\ \A i \in DOMAIN subjects : subjects[i] \in Subject
  BY SubjectFacts DEF IInv
<1>3. CASE at \in DOMAIN subjects /\ Due(subjects[at])
  <2> DEFINE dates == subjects[at].dates
             s == [subjects[at] EXCEPT !.dates = Tail(dates)]
  <2>1. dates \in Seq(Nat) /\ dates # << >> /\ Ascending(dates)
    BY <1>2, <1>3 DEF Subject, Due, IInv, AllAscend
  <2>2. /\ Tail(dates) \in Seq(Nat) /\ Head(dates) \in Nat /\ Ascending(Tail(dates))
        /\ Tail(dates) # << >> => Head(Tail(dates)) >= Head(dates)
    <3> HIDE DEF dates
    <3> QED BY <2>1, TailAscends
  <2>3. s \in Subject /\ s.dates = Tail(dates) /\ s.life = subjects[at].life
    BY <1>2, <1>3, <2>2 DEF Subject
  <2>4. /\ subjects' = [subjects EXCEPT ![at] = s] /\ at' = at + 1 /\ dispatched' = TRUE
        /\ UNCHANGED << worker, idled >>
    BY <1>3 DEF DispatchSubject
  <2>5. Head(dates) >= currentDate
    BY <1>1, <1>3, <2>1 DEF IInv, Passing
  <2> HIDE DEF s, dates
  <2>6. /\ subjects' \in Seq(Subject) /\ Len(subjects') = Len(subjects)
        /\ DOMAIN subjects' = DOMAIN subjects
        /\ \A i \in DOMAIN subjects : subjects'[i] = IF i = at THEN s ELSE subjects[i]
    BY <1>2, <1>3, <2>3, <2>4, ReplaceSubject
  <2>7. TypeOK'
    BY <1>1, <1>2, <1>3, <2>4, <2>6 DEF IInv, TypeOK, clientVars
  <2>8. AllAscend'
    BY <2>2, <2>3, <2>6 DEF IInv, AllAscend
  <2>9. Passing'
    <3>1. currentDate \in Nat /\ (Tail(dates) # << >> => Head(Tail(dates)) \in Nat)
      BY <2>2, HeadTailProperties DEF IInv, TypeOK
    <3>2. s.dates # << >> => Head(s.dates) >= currentDate
      BY <2>2, <2>3, <2>5, <3>1
    <3> QED BY <1>1, <2>4, <2>6, <3>2 DEF IInv, Passing
  <2> QED BY <1>1, <2>4, <2>7, <2>8, <2>9
          DEF IInv, OneWorker, MutexHeld, EndingKnown, Stopping, AtEnd,
              NothingLeft, StopsWhatItStarted, JoinedBeforeGone, clientVars
<1>4. CASE at \in DOMAIN subjects /\ ~Due(subjects[at])
  <2>1. at' = at + 1 /\ UNCHANGED << subjects, dispatched, worker, idled >>
    BY <1>4 DEF DispatchSubject
  <2>2. TypeOK'
    BY <1>1, <1>2, <1>4, <2>1 DEF IInv, TypeOK, clientVars
  <2> QED BY <1>1, <2>1, <2>2
          DEF IInv, OneWorker, MutexHeld, EndingKnown, Stopping, AtEnd, Passing, AllAscend,
              NothingLeft, StopsWhatItStarted, JoinedBeforeGone, clientVars
<1>5. CASE at \notin DOMAIN subjects
  <2>1. /\ worker' = "loop" /\ idled' = (idled \/ ~dispatched)
        /\ UNCHANGED << subjects, at, dispatched >>
    BY <1>5 DEF DispatchSubject
  <2>2. TypeOK'
    BY <1>1, <2>1 DEF IInv, TypeOK, clientVars, WorkerSteps
  <2> QED BY <1>1, <2>1, <2>2
          DEF IInv, OneWorker, MutexHeld, EndingKnown, Stopping, AtEnd, Passing, AllAscend,
              NothingLeft, StopsWhatItStarted, JoinedBeforeGone, clientVars
<1> QED BY <1>3, <1>4, <1>5

\* The next subject is stopped.
LEMMA StopSubjectInv ==
  ASSUME IInv, StopSubject
  PROVE  IInv'
<1>1. /\ fault = "none" /\ worker = "stop" /\ thread /\ main # "gone"
      /\ UNCHANGED << isRun, clientVars, currentDate, dispatched, idled, ending, mutex, fault >>
  BY WorkerAlone DEF StopSubject, Work
<1>2. /\ subjects \in Seq(Subject) /\ Len(subjects) \in Nat
      /\ DOMAIN subjects = 1..Len(subjects) /\ at \in Nat \ {0}
      /\ at <= Len(subjects) + 1
      /\ \A i \in DOMAIN subjects : subjects[i] \in Subject
  BY SubjectFacts DEF IInv
<1>3. CASE at \in DOMAIN subjects
  <2> DEFINE s == [subjects[at] EXCEPT !.life = "stopped"]
  <2>1. s \in Subject /\ s.dates = subjects[at].dates /\ s.life = "stopped"
    BY <1>2, <1>3 DEF Subject, Lives
  <2>2. subjects' = [subjects EXCEPT ![at] = s] /\ at' = at + 1 /\ worker' = worker
    BY <1>3 DEF StopSubject
  <2> HIDE DEF s
  <2>3. /\ subjects' \in Seq(Subject) /\ Len(subjects') = Len(subjects)
        /\ DOMAIN subjects' = DOMAIN subjects
        /\ \A i \in DOMAIN subjects : subjects'[i] = IF i = at THEN s ELSE subjects[i]
    BY <1>2, <1>3, <2>1, <2>2, ReplaceSubject
  <2>4. TypeOK'
    BY <1>1, <1>2, <1>3, <2>2, <2>3 DEF IInv, TypeOK, clientVars
  <2>5. AllAscend' /\ AtEnd' /\ NothingLeft'
    BY <1>1, <1>3, <2>1, <2>2, <2>3 DEF IInv, AllAscend, AtEnd, NothingLeft
  <2>6. Stopping'
    <3>1. \A i \in 1 .. at : i \in DOMAIN subjects /\ (i # at => i \in 1 .. at - 1)
      BY <1>2, <1>3
    <3>2. \A i \in 1 .. at : subjects'[i].life # "started"
      BY <1>1, <2>1, <2>3, <3>1 DEF IInv, Stopping
    <3>3. at' - 1 = at
      BY <1>2, <2>2
    <3> QED BY <3>2, <3>3 DEF Stopping
  <2> QED BY <1>1, <2>2, <2>4, <2>5, <2>6
          DEF IInv, OneWorker, MutexHeld, EndingKnown, Passing,
              StopsWhatItStarted, JoinedBeforeGone, clientVars
<1>4. CASE at \notin DOMAIN subjects
  <2>1. worker' = "lock" /\ UNCHANGED << subjects, at >>
    BY <1>4 DEF StopSubject
  <2>2. TypeOK'
    BY <1>1, <2>1 DEF IInv, TypeOK, clientVars, WorkerSteps
  <2>3. \A i \in DOMAIN subjects : i \in 1 .. at - 1
    BY <1>2, <1>4
  <2>4. StopsWhatItStarted'
    BY <1>1, <2>1, <2>3 DEF IInv, Stopping, StopsWhatItStarted
  <2> QED BY <1>1, <2>1, <2>2, <2>4
          DEF IInv, OneWorker, MutexHeld, EndingKnown, Stopping, AtEnd, Passing, AllAscend,
              NothingLeft, JoinedBeforeGone, clientVars
<1> QED BY <1>3, <1>4

\* An exception in a callback.
LEMMA ThrowInv ==
  ASSUME IInv, Throw
  PROVE  IInv'
<1>1. /\ fault = "none" /\ worker \in {"start", "loop", "pass", "stop"} /\ thread /\ main # "gone"
      /\ ending' = "threw" /\ worker' = "lock"
      /\ UNCHANGED << isRun, subjects, clientVars, at, currentDate, dispatched, idled, mutex, fault >>
  BY WorkerAlone DEF Throw, Working
<1>2. TypeOK'
  BY <1>1 DEF IInv, TypeOK, clientVars, WorkerSteps, Endings
<1> QED BY <1>1, <1>2
        DEF IInv, OneWorker, MutexHeld, EndingKnown, Stopping, AtEnd, Passing, AllAscend,
            NothingLeft, StopsWhatItStarted, JoinedBeforeGone, clientVars

\* The worker's end: the mutex, the condition variable, the mutex.
LEMMA EndInv ==
  ASSUME IInv, Lock \/ NotifyAll \/ Unlock
  PROVE  IInv'
<1>1. /\ fault = "none" /\ worker \in {"lock", "notify", "unlock"} /\ thread /\ main # "gone"
      /\ UNCHANGED << isRun, subjects, thread, at, currentDate, dispatched, idled, ending, fault >>
  BY WorkerAlone DEF Lock, NotifyAll, Unlock, Work, clientVars
<1>2. /\ main' \in {main, "woken"}
      /\ worker' \in {"notify", "unlock", "ended"}
      /\ mutex' \in BOOLEAN /\ (mutex' <=> worker' \in {"notify", "unlock"})
  BY <1>1 DEF Lock, NotifyAll, Unlock, Work, clientVars, IInv, MutexHeld, TypeOK
<1>3. TypeOK'
  BY <1>1, <1>2 DEF IInv, TypeOK, WorkerSteps, MainSteps
<1> QED BY <1>1, <1>2, <1>3
        DEF IInv, OneWorker, MutexHeld, EndingKnown, Stopping, AtEnd, Passing, AllAscend,
            NothingLeft, StopsWhatItStarted, JoinedBeforeGone

\* The calls of main that neither grow the vector nor start a worker.
LEMMA OtherCallsInv ==
  ASSUME IInv, Stop \/ Wait \/ Destroy \/ MainGoesOn \/ WakeSpuriously \/ StopInCallback
  PROVE  IInv'
<1>1. CASE Stop \/ Wait \/ Destroy
  BY <1>1, MainInv DEF Stop, Wait, Destroy, Call, IInv, TypeOK, MainSteps
<1>2. CASE MainGoesOn
  BY <1>2, MainInv
     DEF MainGoesOn, ReturnFromStart, FallAsleep, ReturnFromWait, Join, IInv, TypeOK, MainSteps
<1>3. CASE WakeSpuriously
  BY <1>3, MainInv DEF WakeSpuriously, IInv, TypeOK, MainSteps
<1>4. CASE StopInCallback
  <2>1. worker \notin {"none", "ended"}
    BY <1>4 DEF StopInCallback, Working
  <2> QED BY <1>4, <2>1, WorkerAlone, MainInv DEF StopInCallback, clientVars, IInv, TypeOK
<1> QED BY <1>1, <1>2, <1>3, <1>4

\* A step that changes nothing.
LEMMA StutterInv ==
  ASSUME IInv, UNCHANGED vars
  PROVE  IInv'
BY DEF vars, clientVars, workerVars, IInv, TypeOK, OneWorker, MutexHeld, EndingKnown,
       Stopping, AtEnd, Passing, AllAscend, NothingLeft, StopsWhatItStarted, JoinedBeforeGone

\* Every step of the two threads keeps the invariant.
LEMMA NextInv == IInv /\ [Next]_vars => IInv'
<1> SUFFICES ASSUME IInv, [Next]_vars PROVE IInv'
  OBVIOUS
<1>1. CASE Client
  BY <1>1, AddSubjectInv, StartInv, OtherCallsInv DEF Client
<1>2. CASE Worker
  BY <1>2, StartSubjectInv, BeginPassInv, DispatchSubjectInv, StopSubjectInv, EndInv DEF Worker
<1>3. CASE MainGoesOn \/ WakeSpuriously \/ StopInCallback
  BY <1>3, OtherCallsInv
<1>4. CASE Throw
  BY <1>4, ThrowInv
<1>5. CASE Terminated \/ UNCHANGED vars
  BY <1>5, StutterInv DEF Terminated
<1> QED BY <1>1, <1>2, <1>3, <1>4, <1>5 DEF Next

LEMMA AlwaysIInv == Spec => []IInv
BY InitInv, NextInv, PTL DEF Spec

-----------------------------------------------------------------------------
\* The fields of the dispatcher and of the two threads have their types.
THEOREM TypeCorrect == Spec => []TypeOK
<1>1. IInv => TypeOK
  BY DEF IInv
<1> QED BY <1>1, AlwaysIInv, PTL

\* The worker takes nothing for the end of the run but the end of every subject
\* it started, whatever the client adds and asks for meanwhile.
THEOREM EndMeansNothingLeft == Spec => []NothingLeft
<1>1. IInv => NothingLeft
  BY DEF IInv
<1> QED BY <1>1, AlwaysIInv, PTL

\* Without an exception the worker stops every subject it started.
THEOREM WorkerStopsSubjects == Spec => []StopsWhatItStarted
<1>1. IInv => StopsWhatItStarted
  BY DEF IInv
<1> QED BY <1>1, AlwaysIInv, PTL

\* No callback runs once the destructor has returned.
THEOREM WorkerIsJoined == Spec => []JoinedBeforeGone
<1>1. IInv => JoinedBeforeGone
  BY DEF IInv
<1> QED BY <1>1, AlwaysIInv, PTL

-----------------------------------------------------------------------------
\* What one step may do to the dates: only a pass delivers one, and it is the
\* date of the pass and no later than any that is left.
LEMMA DeliversInOrder ==
  ASSUME IInv, [Next]_vars, NEW i \in DOMAIN subjects, subjects'[i].dates # subjects[i].dates
  PROVE  /\ Head(subjects[i].dates) = currentDate
         /\ \A date \in Heads : date >= currentDate
<1>1. /\ subjects \in Seq(Subject) /\ Len(subjects) \in Nat
      /\ DOMAIN subjects = 1..Len(subjects)
      /\ \A j \in DOMAIN subjects : subjects[j] \in Subject
  BY SubjectFacts DEF IInv
<1>2. ASSUME UNCHANGED subjects PROVE FALSE
  BY <1>2
<1>3. ASSUME NEW dates \in Feeds, AddSubject(dates) PROVE FALSE
  <2> DEFINE new == [feed |-> dates, dates |-> dates, life |-> "added"]
  <2>1. dates \in Seq(Nat)
    <3>1. dates \in Seq(Nat \ {0}) /\ Nat \ {0} \subseteq Nat
      BY FeedsAssumption
    <3> QED BY <3>1, SeqMonotonic
  <2>2. new \in Subject /\ subjects' = Append(subjects, new)
    BY <1>3, <2>1 DEF Subject, Lives, AddSubject
  <2> HIDE DEF new
  <2>3. subjects'[i] = subjects[i]
    BY <1>1, <2>2, AppendFacts
  <2> QED BY <2>3
<1>4. ASSUME NEW life \in Lives, at \in DOMAIN subjects,
             subjects' = [subjects EXCEPT ![at].life = life]
      PROVE  FALSE
  <2> DEFINE s == [subjects[at] EXCEPT !.life = life]
  <2>1. s \in Subject /\ s.dates = subjects[at].dates
    BY <1>1, <1>4 DEF Subject
  <2>2. subjects' = [subjects EXCEPT ![at] = s]
    BY <1>4
  <2> HIDE DEF s
  <2>3. subjects'[i] = IF i = at THEN s ELSE subjects[i]
    BY <1>1, <1>4, <2>1, <2>2, ReplaceSubject
  <2> QED BY <2>1, <2>3
<1>5. CASE Client
  BY <1>2, <1>3, <1>5 DEF Client, Start, Stop, Wait, Destroy
<1>6. CASE MainGoesOn \/ WakeSpuriously \/ Throw \/ StopInCallback \/ Terminated \/ UNCHANGED vars
  BY <1>2, <1>6
     DEF MainGoesOn, ReturnFromStart, FallAsleep, ReturnFromWait, Join, WakeSpuriously,
         Throw, StopInCallback, Terminated, vars
<1>7. CASE StartSubject \/ StopSubject
  BY <1>2, <1>4, <1>7 DEF StartSubject, StopSubject, Lives
<1>8. CASE BeginPass \/ Lock \/ NotifyAll \/ Unlock
  BY <1>2, <1>8 DEF BeginPass, Lock, NotifyAll, Unlock
<1>9. CASE DispatchSubject
  <2>1. at \in DOMAIN subjects /\ Due(subjects[at])
    BY <1>2, <1>9 DEF DispatchSubject
  <2>2. worker = "pass" /\ fault = "none"
    BY <1>9 DEF DispatchSubject, Work
  <2>3. \A j \in DOMAIN subjects :
           subjects[j].dates # << >> => Head(subjects[j].dates) >= currentDate
    BY <2>2 DEF IInv, Passing
  <2>4. \A date \in Heads : date >= currentDate
    BY <2>3 DEF Heads
  <2>5. i = at
    <3> DEFINE s == [subjects[at] EXCEPT !.dates = Tail(@)]
    <3>1. subjects[at].dates \in Seq(Nat) /\ subjects[at].dates # << >>
      BY <1>1, <2>1 DEF Subject, Due
    <3>2. Tail(subjects[at].dates) \in Seq(Nat)
      BY <3>1, HeadTailProperties
    <3>3. s \in Subject
      BY <1>1, <2>1, <3>2 DEF Subject
    <3>4. subjects' = [subjects EXCEPT ![at] = s]
      BY <1>9, <2>1 DEF DispatchSubject
    <3> HIDE DEF s
    <3>5. subjects'[i] = IF i = at THEN s ELSE subjects[i]
      BY <1>1, <2>1, <3>3, <3>4, ReplaceSubject
    <3> QED BY <3>5
  <2>6. Head(subjects[at].dates) <= currentDate /\ Head(subjects[at].dates) >= currentDate
    BY <2>1, <2>3 DEF Due
  <2>7. Head(subjects[at].dates) \in Nat /\ currentDate \in Nat
    <3>1. subjects[at].dates \in Seq(Nat) /\ subjects[at].dates # << >>
      BY <1>1, <2>1 DEF Subject, Due
    <3> QED BY <3>1, HeadTailProperties DEF IInv, TypeOK
  <2> QED BY <2>4, <2>5, <2>6, <2>7
<1> QED BY <1>5, <1>6, <1>7, <1>8, <1>9 DEF Next, Worker

\* The merge delivers in the order of the dates: for any number of subjects,
\* of any lengths, and whatever the client does with the flag meanwhile.
THEOREM MergesByDate == Spec => DateOrder
<1>1. IInv /\ [Next]_vars => [DeliversByDate]_vars
  BY DeliversInOrder DEF DeliversByDate
<1> QED BY <1>1, AlwaysIInv, PTL DEF Spec, DateOrder
=============================================================================
