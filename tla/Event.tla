------------------------------- MODULE Event --------------------------------
(***************************************************************************)
(* papryka/detail/event.h: the list of subscribers behind every event of    *)
(* the exchange, the feed and the dispatcher.  emit calls the subscribers   *)
(* one after the other; each callback may subscribe, unsubscribe or emit    *)
(* again, on the same event, or throw.                                     *)
(*                                                                         *)
(* Subscribers are the ids of their actions, which count up.  An iterator   *)
(* is a place in the buffer of the vector, and the buffer is known by its   *)
(* capacity: a vector never shrinks, and moves whenever its capacity grows. *)
(***************************************************************************)
EXTENDS Integers, FiniteSetsExt, SequencesExt

CONSTANTS
    Inside,     \* what callbacks do, of {"subscribe", "unsubscribe", "emit", "throw"}
    MaxIds,     \* bound on subscriptions
    MaxEmits,   \* bound on calls of emit
    MaxDepth    \* bound on nested calls of emit

ASSUME EventAssumption ==
    /\ Inside \subseteq {"subscribe", "unsubscribe", "emit", "throw"}
    /\ MaxIds \in Nat /\ MaxEmits \in Nat /\ MaxDepth \in Nat

VARIABLES
    subscribers,    \* subscribers_
    capacity,       \* of its buffer
    toSubscribe,    \* to_subscribe_
    toUnsubscribe,  \* to_unsubscribe_: places, each with the capacity of its buffer
    isEmitting,     \* is_emitting_
    stack,          \* the calls of emit in progress, the innermost last
    fault,          \* where the code ran into undefined behaviour: nothing follows
    lastId,         \* static_id::value
    emits,          \* the number of calls of emit
    active,         \* history: who is subscribed, as the callers see it
    used,           \* history: what callbacks have done
    done            \* history: the emit that ended last, << >> before

listVars == << subscribers, capacity, toSubscribe, toUnsubscribe >>
vars == << listVars, isEmitting, stack, fault, lastId, emits, active, used, done >>

Top == stack[Len(stack)]

\* The caller may do what: anything outside of callbacks.
May(what) == fault = "none" /\ (stack = << >> \/ what \in Inside)

\* What callbacks have done, after this step.
Uses(what) == used' = IF stack = << >> THEN used ELSE used \cup {what}

\* The capacity of the vector that has been pushed back to size elements: it
\* doubles.
Grown(size) ==
    LET room[n \in 0 .. size] ==
            IF n <= capacity THEN capacity
            ELSE IF n <= room[n - 1] THEN room[n - 1]
            ELSE IF room[n - 1] = 0 THEN 1 ELSE 2 * room[n - 1]
    IN  room[size]

-----------------------------------------------------------------------------
\* The id of a new action.
NewId == lastId + 1

Subscribe ==
    /\ May("subscribe") /\ lastId < MaxIds
    /\ lastId' = lastId + 1
    /\ IF isEmitting
       THEN /\ toSubscribe' = Append(toSubscribe, NewId)
            /\ UNCHANGED << subscribers, capacity >>
       ELSE /\ subscribers' = Append(subscribers, NewId)
            /\ capacity' = Grown(Len(subscribers'))
            /\ UNCHANGED toSubscribe
    /\ active' = active \cup {NewId}
    /\ Uses("subscribe")
    /\ UNCHANGED << toUnsubscribe, isEmitting, stack, fault, emits, done >>

\* The first place of the id in a list, 0 if there is none.
FirstPlace(list, id) ==
    LET places == {i \in DOMAIN list : list[i] = id}
    IN  IF places = {} THEN 0 ELSE Min(places)

\* The first subscription with the id.
PlaceOf(id) == FirstPlace(subscribers, id)

(***************************************************************************)
(* unsubscribe by someone who has not unsubscribed before.  An id that is   *)
(* not on the list, or not yet, makes it read past the end.                *)
(***************************************************************************)
Unsubscribe(id) ==
    /\ May("unsubscribe") /\ id \in active
    /\ active' = active \ {id}
    /\ stack' = [i \in DOMAIN stack |-> [stack[i] EXCEPT !.owed = @ \ {id}]]
    /\ Uses("unsubscribe")
    /\ \/ /\ PlaceOf(id) = 0
          /\ fault' = "not_found"
          /\ UNCHANGED << subscribers, toUnsubscribe >>
       \/ /\ PlaceOf(id) # 0 /\ ~isEmitting
          /\ subscribers' = RemoveAt(subscribers, PlaceOf(id))
          /\ UNCHANGED << toUnsubscribe, fault >>
       \/ /\ PlaceOf(id) # 0 /\ isEmitting
          /\ toUnsubscribe' = Append(toUnsubscribe, << PlaceOf(id), capacity >>)
          /\ UNCHANGED << subscribers, fault >>
    /\ UNCHANGED << capacity, toSubscribe, isEmitting, lastId, emits, done >>

-----------------------------------------------------------------------------
\* What is left of list when the places are erased in turn, as they are: an
\* earlier erasure moves what is behind it.
Erased(list, places) ==
    LET rest[n \in 0 .. Len(places)] == IF n = 0 THEN list ELSE RemoveAt(rest[n - 1], places[n][1])
    IN  rest[Len(places)]

\* Every place is in the present buffer and before the end of what is left.
Erasable ==
    \A i \in DOMAIN toUnsubscribe :
        /\ toUnsubscribe[i][2] = capacity
        /\ toUnsubscribe[i][1] <= Len(subscribers) - (i - 1)

Added == Erased(subscribers, toUnsubscribe) \o toSubscribe

\* Slip: the flag stays.
FlagAfter_Stays == TRUE

\* The flag is cleared, even if the emit was nested in another one.
FlagAfter == FALSE

(***************************************************************************)
(* The end of emit: apply_changes_, which clears neither list.             *)
(***************************************************************************)
End(rest, frame) ==
    /\ stack' = rest
    /\ isEmitting' = FlagAfter
    /\ done' = [owed |-> frame.owed, old |-> frame.old, heard |-> frame.heard]
    /\ IF Erasable
       THEN /\ subscribers' = Added
            /\ capacity' = Grown(Len(subscribers'))
            /\ UNCHANGED fault
       ELSE fault' = "wild" /\ UNCHANGED << subscribers, capacity >>

\* Slip: one step beyond the end.
AtEnd_Late(frame) == frame.at > frame.last + 1

\* Slip: compares with the end that the vector has now.
AtEnd_Live(frame) == frame.at > Len(subscribers)

\* The loop compares with the end that the vector had as it began.
AtEnd(frame) == frame.at > frame.last

(***************************************************************************)
(* The loop of emit takes its next subscriber and calls it, or ends.  Its   *)
(* iterator is of no use once the vector has moved.                        *)
(***************************************************************************)
Visit(rest, frame) ==
    IF AtEnd(frame)
    THEN End(rest, frame)
    ELSE /\ IF frame.buffer = capacity /\ frame.at <= Len(subscribers)
            THEN /\ stack' = Append(rest, [frame EXCEPT !.heard = Append(@, subscribers[frame.at])])
                 /\ UNCHANGED fault
            ELSE fault' = "wild" /\ UNCHANGED stack
         /\ isEmitting' = (isEmitting \/ frame.at = 1)
         /\ UNCHANGED << subscribers, capacity, done >>

Emit ==
    /\ May("emit") /\ emits < MaxEmits /\ Len(stack) < MaxDepth
    /\ emits' = emits + 1
    /\ Uses("emit")
    /\ Visit(stack, [at |-> 1, last |-> Len(subscribers), buffer |-> capacity, heard |-> << >>,
                     owed |-> active \cap Range(subscribers), old |-> lastId])
    /\ UNCHANGED << toSubscribe, toUnsubscribe, lastId, active >>

\* The callback returns.
Return ==
    /\ fault = "none" /\ stack # << >>
    /\ Visit(Front(stack), [Top EXCEPT !.at = @ + 1])
    /\ UNCHANGED << toSubscribe, toUnsubscribe, lastId, emits, active, used >>

\* The callback throws: emit ends as it stands.
Throw ==
    /\ stack # << >> /\ May("throw")
    /\ stack' = Front(stack)
    /\ Uses("throw")
    /\ UNCHANGED << listVars, isEmitting, fault, lastId, emits, active, done >>

-----------------------------------------------------------------------------
Init ==
    /\ subscribers = << >> /\ capacity = 0
    /\ toSubscribe = << >> /\ toUnsubscribe = << >>
    /\ isEmitting = FALSE /\ stack = << >> /\ fault = "none"
    /\ lastId = 0 /\ emits = 0
    /\ active = {} /\ used = {} /\ done = << >>

\* The bounds may be used up, or nothing said of what follows.
Terminated ==
    /\ fault # "none" \/ stack = << >>
    /\ UNCHANGED vars

Next ==
    \/ Subscribe
    \/ \E id \in active : Unsubscribe(id)
    \/ Emit
    \/ Return
    \/ Throw
    \/ Terminated

Spec == Init /\ [][Next]_vars

-----------------------------------------------------------------------------
(***************************************************************************)
(* What emit promises.                                                     *)
(***************************************************************************)
\* Nobody has unsubscribed in an emit, or after an exception that left the flag
\* set: from then on every emit erases whoever is in that place.
NoneErased == "unsubscribe" \notin used /\ toUnsubscribe = << >>

\* Whoever is on the list as an emit begins, and stays subscribed, is called by
\* it, whatever the callbacks before it emit, subscribe or throw, and in the order
\* they arrived, also those that arrived while an emit kept them waiting (the
\* remark in unsubscribe); nobody is called who subscribed after it began,
\* although a nested emit may put the newcomer on the list while the outer one
\* walks on.
CallsWhomItOwes ==
    NoneErased /\ done # << >> =>
        /\ done.owed \subseteq Range(done.heard)
        /\ \A id \in Range(done.heard) : id <= done.old
        /\ \A id, later \in done.owed :
              id < later => FirstPlace(done.heard, id) < FirstPlace(done.heard, later)

\* An emit calls nobody twice, as long as no callback has subscribed, whom every
\* later emit adds again, or thrown, which leaves the flag set and makes all later
\* subscriptions wait in the same way.
OncePerEmit ==
    used \cap {"subscribe", "throw"} = {} /\ done # << >> => IsInjective(done.heard)

\* Nested emits alone never spoil the iterator of the emit around them: this is
\* how the exchange and the strategy use order_event.
NestingIsSafe == used \subseteq {"emit"} => fault # "wild"
=============================================================================
