----------------------------- MODULE Dispatcher -----------------------------
(***************************************************************************)
(* papryka/detail/dispatcher: one thread of the client, here main, and the  *)
(* worker that start() creates.  The worker merges its subjects by date     *)
(* until all are at their end, an exception arrives, or somebody calls      *)
(* stop(); main waits for it on cond_stop_, without a predicate.            *)
(*                                                                         *)
(* A subject is the sequence of the dates it has still to deliver.  Its     *)
(* dispatch() takes the first of them and answers true, as Feed::dispatch   *)
(* does.  Date 0 stands for datetime_t(), which no subject delivers.        *)
(***************************************************************************)
EXTENDS Integers, Sequences, FiniteSetsExt

CONSTANT Feeds          \* the date sequences the client may add, each once

ASSUME FeedsAssumption ==
    \A dates \in Feeds :
        /\ dates \in Seq(Nat \ {0})
        /\ \A i, j \in DOMAIN dates : i <= j => dates[i] <= dates[j]

VARIABLES
    isRun,        \* is_run_
    subjects,     \* subjects_, each [dates, life]
    thread,       \* thread_ holds a thread, which then is joinable
    main,         \* where the client's thread is
    worker,       \* where the worker is
    at,           \* the worker's iterator over subjects_
    currentDate,  \* current_date, and the smallest_date of the pass
    dispatched,   \* _dispatched of the pass
    idled,        \* idle_event was emitted
    ending,       \* why the worker left its loop
    mutex,        \* mutex_stop_ is locked by the worker
    fault         \* how the process died

clientVars == << thread, main >>
workerVars == << worker, at, currentDate, dispatched, idled, ending, mutex >>
vars == << isRun, subjects, clientVars, workerVars, fault >>

MainSteps == {"ready", "starting", "running", "waiting", "asleep", "woken", "joining", "gone"}
WorkerSteps == {"none", "start", "loop", "pass", "stop", "lock", "notify", "unlock", "ended"}
Lives == {"added", "started", "stopped"}
Endings == {"none", "eof", "asked", "threw"}
Faults == {"none", "terminate", "race"}

\* The worker walks over subjects_ and calls back into the client's code.
Working == worker \in {"start", "loop", "pass", "stop"}

\* Slip: before the first subject.
Begin_Before == 0

\* subjects_.begin()
Begin == 1

-----------------------------------------------------------------------------
(***************************************************************************)
(* The client's thread.                                                    *)
(***************************************************************************)
\* main has control and its next step is to be at next.
Call(next) == fault = "none" /\ main = "ready" /\ main' = next

(***************************************************************************)
(* add_subject is refused while is_run_ is set.  A worker that was asked to *)
(* stop, or has seen the end of all subjects, may still be walking over the *)
(* vector it grows.                                                        *)
(***************************************************************************)
AddSubject(dates) ==
    /\ Call("ready")
    /\ ~isRun
    /\ \A i \in DOMAIN subjects : subjects[i].feed # dates
    /\ subjects' = Append(subjects, [feed |-> dates, dates |-> dates, life |-> "added"])
    /\ fault' = IF Working THEN "race" ELSE "none"
    /\ UNCHANGED << isRun, thread, workerVars >>

(***************************************************************************)
(* start, up to the test of is_run_ that it returns, on its own or within   *)
(* run.  Where thread_ already holds a thread, assigning it destroys a      *)
(* joinable thread, which calls std::terminate.                            *)
(***************************************************************************)
Start(next) ==
    /\ Call(next)
    /\ IF ~isRun
       THEN /\ isRun' = TRUE /\ thread' = TRUE
            /\ IF thread
               THEN fault' = "terminate" /\ UNCHANGED workerVars
               ELSE /\ worker' = "start" /\ at' = Begin
                    /\ UNCHANGED << currentDate, dispatched, idled, ending, mutex, fault >>
       ELSE UNCHANGED << isRun, thread, workerVars, fault >>
    /\ UNCHANGED subjects

\* start has answered; run waits if the answer was yes.
ReturnFromStart ==
    /\ fault = "none" /\ main \in {"starting", "running"}
    /\ main' = IF main = "running" /\ isRun THEN "waiting" ELSE "ready"
    /\ UNCHANGED << isRun, subjects, thread, workerVars, fault >>

Stop ==
    /\ Call("ready")
    /\ isRun' = FALSE
    /\ UNCHANGED << subjects, thread, workerVars, fault >>

Wait ==
    /\ Call("waiting")
    /\ UNCHANGED << isRun, subjects, thread, workerVars, fault >>

\* wait locks mutex_stop_ and gives it up again as it falls asleep.
FallAsleep ==
    /\ fault = "none" /\ main = "waiting" /\ ~mutex
    /\ main' = "asleep"
    /\ UNCHANGED << isRun, subjects, thread, workerVars, fault >>

\* A condition variable may wake for no reason.
WakeSpuriously ==
    /\ fault = "none" /\ main = "asleep"
    /\ main' = "woken"
    /\ UNCHANGED << isRun, subjects, thread, workerVars, fault >>

ReturnFromWait ==
    /\ fault = "none" /\ main = "woken" /\ ~mutex
    /\ main' = "ready"
    /\ UNCHANGED << isRun, subjects, thread, workerVars, fault >>

\* Slip: leaves a worker that nobody asked to stop to itself.
Destroy_Detaches ==
    /\ Call(IF thread /\ isRun THEN "joining" ELSE "gone")
    /\ isRun' = FALSE
    /\ UNCHANGED << subjects, thread, workerVars, fault >>

\* ~Dispatcher, up to the join.
Destroy ==
    /\ Call(IF thread THEN "joining" ELSE "gone")
    /\ isRun' = FALSE
    /\ UNCHANGED << subjects, thread, workerVars, fault >>

Join ==
    /\ fault = "none" /\ main = "joining" /\ worker = "ended"
    /\ main' = "gone" /\ thread' = FALSE
    /\ UNCHANGED << isRun, subjects, workerVars, fault >>

-----------------------------------------------------------------------------
(***************************************************************************)
(* The worker: do_work.                                                    *)
(***************************************************************************)
Work(step) == fault = "none" /\ worker = step

\* The next subject is started, or, after the last, start_event is emitted.
StartSubject ==
    /\ Work("start")
    /\ IF at \in DOMAIN subjects
       THEN /\ subjects' = [subjects EXCEPT ![at].life = "started"]
            /\ at' = at + 1 /\ worker' = worker
       ELSE worker' = "loop" /\ UNCHANGED << subjects, at >>
    /\ UNCHANGED << isRun, clientVars, currentDate, dispatched, idled, ending, mutex, fault >>

\* The dates the subjects would deliver next.
Heads == {Head(subjects[i].dates) : i \in {j \in DOMAIN subjects : subjects[j].dates # << >>}}

\* Slip: one subject at its end is enough.
AllAtEnd_One == Heads = {} \/ \E i \in DOMAIN subjects : subjects[i].dates = << >>

AllAtEnd == Heads = {}

\* Slip: takes the date of the first subject that has one.
SmallestDate_First ==
    Head(subjects[Min({j \in DOMAIN subjects : subjects[j].dates # << >>})].dates)

SmallestDate == Min(Heads)

(***************************************************************************)
(* The loop's test of is_run_ and the first half of dispatch_, which looks  *)
(* for the smallest date.  The worker alone touches the subjects' dates.    *)
(***************************************************************************)
BeginPass ==
    /\ Work("loop")
    /\ at' = Begin
    /\ \/ /\ ~isRun
          /\ ending' = "asked" /\ worker' = "stop"
          /\ UNCHANGED << isRun, currentDate, dispatched >>
       \/ /\ isRun /\ AllAtEnd
          /\ ending' = "eof" /\ worker' = "stop"
          /\ currentDate' = 0 /\ isRun' = FALSE
          /\ UNCHANGED dispatched
       \/ /\ isRun /\ ~AllAtEnd
          /\ worker' = "pass"
          /\ currentDate' = SmallestDate /\ dispatched' = FALSE
          /\ UNCHANGED << isRun, ending >>
    /\ UNCHANGED << subjects, clientVars, idled, mutex, fault >>

\* Slip: strictly before the smallest date.
Due_Before(subject) == subject.dates # << >> /\ Head(subject.dates) < currentDate

\* dispatch_subject_'s test.
Due(subject) == subject.dates # << >> /\ Head(subject.dates) <= currentDate

\* The next subject is dispatched if it is due; after the last, idle_event is
\* emitted if none was.
DispatchSubject ==
    /\ Work("pass")
    /\ IF at \in DOMAIN subjects
       THEN /\ IF Due(subjects[at])
               THEN /\ subjects' = [subjects EXCEPT ![at].dates = Tail(@)]
                    /\ dispatched' = TRUE
               ELSE UNCHANGED << subjects, dispatched >>
            /\ at' = at + 1
            /\ UNCHANGED << worker, idled >>
       ELSE /\ worker' = "loop" /\ idled' = (idled \/ ~dispatched)
            /\ UNCHANGED << subjects, at, dispatched >>
    /\ UNCHANGED << isRun, clientVars, currentDate, ending, mutex, fault >>

\* Slip: does not stop the last subject.
StopSubject_ButLast ==
    /\ Work("stop")
    /\ IF at + 1 \in DOMAIN subjects
       THEN /\ subjects' = [subjects EXCEPT ![at].life = "stopped"]
            /\ at' = at + 1 /\ worker' = worker
       ELSE worker' = "lock" /\ UNCHANGED << subjects, at >>
    /\ UNCHANGED << isRun, clientVars, currentDate, dispatched, idled, ending, mutex, fault >>

\* The next subject is stopped, or, after the last, stop_event is emitted.
StopSubject ==
    /\ Work("stop")
    /\ IF at \in DOMAIN subjects
       THEN /\ subjects' = [subjects EXCEPT ![at].life = "stopped"]
            /\ at' = at + 1 /\ worker' = worker
       ELSE worker' = "lock" /\ UNCHANGED << subjects, at >>
    /\ UNCHANGED << isRun, clientVars, currentDate, dispatched, idled, ending, mutex, fault >>

(***************************************************************************)
(* Any callback may throw, and so may Timeseries::push_back under a feed's  *)
(* dispatch.  do_work catches it and leaves is_run_ as it is.              *)
(***************************************************************************)
Throw ==
    /\ fault = "none" /\ Working
    /\ ending' = "threw" /\ worker' = "lock"
    /\ UNCHANGED << isRun, subjects, clientVars, at, currentDate, dispatched, idled, mutex, fault >>

\* A callback calls stop().
StopInCallback ==
    /\ fault = "none" /\ Working /\ isRun
    /\ isRun' = FALSE
    /\ UNCHANGED << subjects, clientVars, workerVars, fault >>

Lock ==
    /\ Work("lock") /\ ~mutex
    /\ mutex' = TRUE /\ worker' = "notify"
    /\ UNCHANGED << isRun, subjects, clientVars, at, currentDate, dispatched, idled, ending, fault >>

NotifyAll ==
    /\ Work("notify")
    /\ main' = IF main = "asleep" THEN "woken" ELSE main
    /\ worker' = "unlock"
    /\ UNCHANGED << isRun, subjects, thread, at, currentDate, dispatched, idled, ending, mutex, fault >>

Unlock ==
    /\ Work("unlock")
    /\ mutex' = FALSE /\ worker' = "ended"
    /\ UNCHANGED << isRun, subjects, clientVars, at, currentDate, dispatched, idled, ending, fault >>

-----------------------------------------------------------------------------
Init ==
    /\ isRun = FALSE /\ subjects = << >>
    /\ thread = FALSE /\ main = "ready"
    /\ worker = "none" /\ at = Begin
    /\ currentDate = 0 /\ dispatched = FALSE /\ idled = FALSE
    /\ ending = "none" /\ mutex = FALSE
    /\ fault = "none"

\* What the client decides.
Client ==
    \/ \E dates \in Feeds : AddSubject(dates)
    \/ \E next \in {"starting", "running"} : Start(next)
    \/ Stop
    \/ Wait
    \/ Destroy

\* What main does inside a call.
MainGoesOn == ReturnFromStart \/ FallAsleep \/ ReturnFromWait \/ Join

Worker ==
    \/ StartSubject
    \/ BeginPass
    \/ DispatchSubject
    \/ StopSubject
    \/ Lock
    \/ NotifyAll
    \/ Unlock

\* The client may do nothing more, and the process may have died.
Terminated ==
    /\ \/ fault # "none"
       \/ main = "gone"
       \/ main = "asleep" /\ worker \in {"none", "ended"}
    /\ UNCHANGED vars

Next ==
    \/ Client
    \/ MainGoesOn
    \/ WakeSpuriously
    \/ Worker
    \/ Throw
    \/ StopInCallback
    \/ Terminated

(***************************************************************************)
(* The scheduler runs both threads, and the mutex is given to who waits for *)
(* it: nobody holds it for longer than a step.  Nothing obliges the client  *)
(* to call, a callback to throw or a condition variable to wake for no      *)
(* reason.                                                                 *)
(***************************************************************************)
Spec == Init /\ [][Next]_vars /\ WF_vars(Worker) /\ WF_vars(MainGoesOn)

-----------------------------------------------------------------------------
(***************************************************************************)
(* What the dispatcher promises.                                           *)
(***************************************************************************)
Subject == [feed : Feeds, dates : Seq(Nat), life : Lives]

\* The types of the fields of class Dispatcher and of the two threads.
TypeOK ==
    /\ isRun \in BOOLEAN /\ thread \in BOOLEAN /\ dispatched \in BOOLEAN
    /\ idled \in BOOLEAN /\ mutex \in BOOLEAN
    /\ subjects \in Seq(Subject)
    /\ main \in MainSteps /\ worker \in WorkerSteps
    /\ at \in 1 .. Len(subjects) + 1
    /\ currentDate \in Nat
    /\ ending \in Endings /\ fault \in Faults

\* The merge of dispatch_: what is delivered carries current_date, and no
\* subject has anything earlier to deliver.
DeliversByDate ==
    \A i \in DOMAIN subjects :
        subjects'[i].dates # subjects[i].dates =>
            /\ Head(subjects[i].dates) = currentDate
            /\ \A date \in Heads : date >= currentDate

DateOrder == [][DeliversByDate]_vars

\* do_work takes the end of all subjects for the end of the run only when
\* every subject it started has delivered everything.
NothingLeft ==
    ending = "eof" =>
        \A i \in DOMAIN subjects : subjects[i].life # "added" => subjects[i].dates = << >>

\* Once the worker is past its loops, without an exception, no subject that it
\* started runs on, whoever asked it to stop and whenever.
StopsWhatItStarted ==
    worker \in {"lock", "notify", "unlock", "ended"} /\ ending # "threw" =>
        \A i \in DOMAIN subjects : subjects[i].life # "started"

\* No callback runs on the worker once ~Dispatcher has returned.
JoinedBeforeGone == main = "gone" => worker \in {"none", "ended"} /\ ~mutex

\* The worker comes to its end, whatever the client does with the flag, the
\* mutex and the condition variable.
WorkerEnds == worker = "start" ~> (worker = "ended" \/ fault # "none")

\* What every test that calls run() relies on: it returns, at least where no
\* callback throws.
RunReturns ==
    [](ending # "threw") => (main = "running" ~> (main = "ready" \/ fault # "none"))
=============================================================================
