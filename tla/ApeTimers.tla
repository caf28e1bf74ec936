------------------------------ MODULE ApeTimers ------------------------------
(***************************************************************************)
(* The timers of ape_timers_next.c over time: the list of timers, the list *)
(* of asynchronous calls, the pass ape_timers_process makes over both in   *)
(* every turn of the loop, and the wait it hands to the next poll.         *)
(*                                                                         *)
(* Every callback may create, destroy and clear timers and calls while the *)
(* pass walks the lists.  Times are relative: due[t] is the schedule of t  *)
(* minus the present, in ticks.  How late a timer is when a pass begins    *)
(* makes no difference: the pass calls it and schedules it afresh, so that *)
(* a late timer is kept as one that is just due.                           *)
(*                                                                         *)
(* The wait is computed in unsigned 64-bit arithmetic and cast to int.  A  *)
(* deadline that has passed wraps around to a number whose low 32 bits are *)
(* negative for the first 23 days, so that the minimum wait is chosen.     *)
(***************************************************************************)
EXTENDS Integers, SequencesExt

CONSTANTS
    MaxTimers,     \* bound: timers ever created
    MaxAsyncs,     \* bound: asynchronous calls ever created
    Ms,            \* ticks in a millisecond
    Slack,         \* 150000 ns in ticks: how early a timer may be called
    Delays,        \* milliseconds given to APE_timer_create
    Returns,       \* what a callback returns: -1 again, 0 done, n in n ms
    Resolution,    \* APE_TIMER_RESOLUTION
    LowWait,       \* the least wait in low resolution, 100 ms in the code
    MaxBusy        \* bound: ticks a callback takes

\* UINT64_MAX: later than any schedule
Never == 1000000

ASSUME TimersAssumption ==
    /\ MaxTimers \in Nat /\ MaxAsyncs \in Nat /\ MaxBusy \in Nat
    /\ Ms \in Nat \ {0} /\ Slack \in 0 .. Ms - 1
    /\ Delays \subseteq Nat /\ Returns \subseteq Nat \cup {-1}
    /\ Resolution \in Nat \ {0} /\ LowWait \in Nat \ {0}
    /\ \A ms \in Delays \cup Returns : ms * Ms < Never

VARIABLES
    list,      \* timers->head and what follows: timer identifiers
    due,       \* timer->schedule, relative to the present
    needs,     \* timer->ticks_needs
    protected, \* timers with APE_TIMER_IS_PROTECTED
    cleared,   \* timers with APE_TIMER_IS_CLEARED
    hooked,    \* timers with a clearfunc
    lastId,    \* timers->last_identifier
    async,     \* timers->head_async and what follows
    taken,     \* the calls process_async still has to make
    ahooked,   \* calls with a clearfunc
    lastAsync, \* calls created so far
    low,       \* timers->run_in_low_resolution
    pc,        \* where the loop is: poll, events, first, firstcb, walk,
               \* callback, last or lastcb
    cur,       \* the timer the walk stands at, 0 for NULL
    soon,      \* inums, relative to the present
    since,     \* ticks since lastsample was taken, NoSample for lastsample = 0
    wait,      \* ms the pass returned
    left,      \* ticks poll may still wait
    limit,     \* history: last_identifier when the pass began
    clears,    \* history: calls of the clearfunc of each timer
    aclears    \* history: calls of the clearfunc of each asynchronous call

listVars  == <<list, due, needs, protected, cleared, hooked, lastId, clears>>
asyncVars == <<async, ahooked, lastAsync, aclears>>
passVars  == <<pc, taken, cur, soon, since, limit>>
pollVars  == <<wait, left>>
vars      == <<listVars, asyncVars, passVars, pollVars, low>>

Ids   == 1 .. MaxTimers
Calls == 1 .. MaxAsyncs
NoSample == -1
Half  == Ms \div 2

Init ==
    /\ list = <<>> /\ due = [t \in Ids |-> 0] /\ needs = [t \in Ids |-> 0]
    /\ protected = {} /\ cleared = {} /\ hooked = {} /\ lastId = 0
    /\ async = <<>> /\ taken = <<>> /\ ahooked = {} /\ lastAsync = 0
    /\ low = FALSE
    /\ pc = "poll" /\ cur = 0 /\ soon = Never /\ since = NoSample
    /\ wait = 1 /\ left = Ms /\ limit = 0
    /\ clears = [t \in Ids |-> 0] /\ aclears = [a \in Calls |-> 0]

-----------------------------------------------------------------------------
(* Time and the lists.                                                     *)

Listed == ToSet(list)

\* d ticks go by.  A timer that is not listed has no schedule.
Age(d) == [t \in Ids |-> IF t \in Listed THEN due[t] - d ELSE 0]
AgeBeforePass(d) == [t \in Ids |-> IF Age(d)[t] < 0 THEN 0 ELSE Age(d)[t]]
SoonAfter(d)  == IF soon = Never THEN Never ELSE soon - d
SinceAfter(d) == IF since = NoSample THEN NoSample ELSE since + d

\* timer->next
NextOf(t) ==
    LET i == CHOOSE j \in DOMAIN list : list[j] = t
    IN  IF i = Len(list) THEN 0 ELSE list[i + 1]

HeadOf(s) == IF s = <<>> THEN 0 ELSE Head(s)

\* A list s once the members of D are taken off it: the others, in their order
Without(s, D) ==
    {l \in SeqOf(ToSet(s) \ D, Len(s)) :
        /\ ToSet(l) = ToSet(s) \ D
        /\ \A i, j \in DOMAIN l : i < j =>
            \E p, q \in DOMAIN s : p < q /\ s[p] = l[i] /\ s[q] = l[j]}

\* ape_timer_destroy takes the timers of D off the list and calls their
\* clearfunc; due is the schedules at that moment.  A clearfunc is counted and
\* does nothing to the lists.
Unlink(D, schedules) ==
    /\ list' \in Without(list, D)
    /\ due' = [t \in Ids |-> IF t \in D THEN 0 ELSE schedules[t]]
    /\ needs' = [t \in Ids |-> IF t \in D THEN 0 ELSE needs[t]]
    /\ protected' = protected \ D /\ cleared' = cleared \ D
    /\ clears' = [t \in Ids |-> IF t \in D \cap hooked THEN clears[t] + 1 ELSE clears[t]]
    /\ UNCHANGED <<hooked, lastId>>

-----------------------------------------------------------------------------
(* What the application calls, from the handlers of events and from the    *)
(* callbacks of timers and asynchronous calls.                             *)

AppRuns == pc \in {"events", "callback", "firstcb", "lastcb"}

\* APE_timer_create
TimerCreate(ms) ==
    /\ AppRuns /\ lastId < MaxTimers
    /\ LET t == lastId + 1
       IN  /\ lastId' = t
           /\ list' = <<t>> \o list
           /\ due' = [due EXCEPT ![t] = ms * Ms]
           /\ needs' = [needs EXCEPT ![t] = ms * Ms]
           /\ protected' = protected \cup {t}
    /\ UNCHANGED <<cleared, hooked, clears, asyncVars, passVars, pollVars, low>>

\* What the application owes: a callback does not destroy its own timer, and
\* an asynchronous call not the timer that heads the list, to which the pass
\* already points.
MayDestroy(t) == t \in Listed /\ t # cur

\* APE_timer_destroy
TimerDestroy(t) ==
    /\ AppRuns /\ MayDestroy(t)
    /\ Unlink({t}, due)
    /\ UNCHANGED <<asyncVars, passVars, pollVars, low>>

\* APE_timer_clearbyid
TimerClearById(t, force) ==
    /\ AppRuns /\ t \in Listed
    /\ t \notin protected \/ force
    /\ cleared' = cleared \cup {t}
    /\ UNCHANGED <<list, due, needs, protected, hooked, lastId, clears,
                   asyncVars, passVars, pollVars, low>>

\* APE_timer_unprotect
TimerUnprotect(t) ==
    /\ AppRuns /\ t \in Listed
    /\ protected' = protected \ {t}
    /\ UNCHANGED <<list, due, needs, cleared, hooked, lastId, clears,
                   asyncVars, passVars, pollVars, low>>

\* APE_timer_setclearfunc
TimerSetClearFunc(t) ==
    /\ AppRuns /\ t \in Listed
    /\ hooked' = hooked \cup {t}
    /\ UNCHANGED <<list, due, needs, protected, cleared, lastId, clears,
                   asyncVars, passVars, pollVars, low>>

\* APE_timer_setlowresolution.  The mark is read at the end of a pass only, so
\* that one place to set it is enough.
SetLowResolution ==
    /\ pc = "events"
    /\ low' = ~low
    /\ UNCHANGED <<listVars, asyncVars, passVars, pollVars>>

\* APE_async
AsyncCreate ==
    /\ AppRuns /\ lastAsync < MaxAsyncs
    /\ lastAsync' = lastAsync + 1
    /\ async' = <<lastAsync + 1>> \o async
    /\ UNCHANGED <<ahooked, aclears, listVars, passVars, pollVars, low>>

\* APE_async_setclearfunc
AsyncSetClearFunc(a) ==
    /\ AppRuns /\ a \in ToSet(async)
    /\ ahooked' = ahooked \cup {a}
    /\ UNCHANGED <<async, lastAsync, aclears, listVars, passVars, pollVars, low>>

Cleared(A) == [a \in Calls |-> IF a \in A \cap ahooked THEN aclears[a] + 1 ELSE aclears[a]]

\* Mutant: the call is released but stays on the list
AsyncDestroyLinked(a) ==
    /\ AppRuns /\ a \in ToSet(async)
    /\ aclears' = Cleared({a})
    /\ UNCHANGED <<async, ahooked, lastAsync, listVars, passVars, pollVars, low>>

\* APE_async_destroy.  A call process_async has taken off the list is not
\* found, and is made all the same.
AsyncDestroy(a) ==
    /\ AppRuns /\ a \in ToSet(async)
    /\ async' \in Without(async, {a})
    /\ aclears' = Cleared({a})
    /\ UNCHANGED <<ahooked, lastAsync, listVars, passVars, pollVars, low>>

\* APE_timers_destroy_unprotected and APE_timers_destroy_all, outside a pass.
\* del_async_all calls every clearfunc without a look: the application owes
\* one to each call that is still to be made.
DestroyMany(D) ==
    /\ pc = "events" /\ ToSet(async) \subseteq ahooked
    /\ Unlink(D, due)
    /\ async' = <<>> /\ aclears' = Cleared(ToSet(async))
    /\ UNCHANGED <<ahooked, lastAsync, passVars, pollVars, low>>

DestroyUnprotected == DestroyMany(Listed \ protected)
DestroyAll == DestroyMany(Listed)

-----------------------------------------------------------------------------
(* The loop: poll, the handlers of events, the pass.                       *)

\* Time goes by in poll
Tick ==
    /\ pc = "poll" /\ left > 0
    /\ left' = left - 1
    /\ due' = AgeBeforePass(1)
    /\ UNCHANGED <<list, needs, protected, cleared, hooked, lastId, clears,
                   asyncVars, passVars, wait, low>>

\* An event arrived, or the wait is over.  What the pass left behind is no
\* longer looked at.
EndPoll ==
    /\ pc = "poll"
    /\ pc' = "events" /\ left' = 0 /\ wait' = 0
    /\ since' = NoSample /\ limit' = 0
    /\ UNCHANGED <<taken, cur, soon, listVars, asyncVars, low>>

\* The handlers took d ticks; ape_timers_process begins: the head of the
\* list is noted before the asynchronous calls are made
BeginPass(d) ==
    /\ pc = "events"
    /\ due' = AgeBeforePass(d)
    /\ pc' = "first" /\ cur' = HeadOf(list)
    /\ taken' = async /\ async' = <<>>
    /\ limit' = lastId
    /\ UNCHANGED <<list, needs, protected, cleared, hooked, lastId, clears,
                   ahooked, lastAsync, aclears, soon, since, pollVars, low>>

\* process_async makes the next call ...
AsyncCall ==
    /\ pc \in {"first", "last"} /\ taken # <<>>
    /\ pc' = IF pc = "first" THEN "firstcb" ELSE "lastcb"
    /\ UNCHANGED <<taken, cur, soon, since, limit, listVars, asyncVars,
                   pollVars, low>>

\* ... which returns after d ticks, is cleared and freed
AsyncReturn(d) ==
    /\ pc \in {"firstcb", "lastcb"}
    /\ pc' = IF pc = "firstcb" THEN "first" ELSE "last"
    /\ taken' = Tail(taken)
    /\ aclears' = Cleared({Head(taken)})
    /\ due' = Age(d) /\ soon' = SoonAfter(d) /\ since' = SinceAfter(d)
    /\ UNCHANGED <<list, needs, protected, cleared, hooked, lastId, clears,
                   async, ahooked, lastAsync, cur, limit, pollVars, low>>

BeginWalk ==
    /\ pc = "first" /\ taken = <<>>
    /\ pc' = "walk"
    /\ UNCHANGED <<taken, cur, soon, since, limit, listVars, asyncVars,
                   pollVars, low>>

SmallerOf(x, y) == IF x < y THEN x ELSE y

\* Mutant: a cleared timer is passed over
WalkClearedSkips ==
    /\ pc = "walk" /\ cur # 0 /\ cur \in cleared
    /\ cur' = NextOf(cur)
    /\ UNCHANGED <<pc, taken, soon, since, limit, listVars, asyncVars, pollVars, low>>

\* A timer that was cleared is destroyed when the walk comes by
WalkCleared ==
    /\ pc = "walk" /\ cur # 0 /\ cur \in cleared
    /\ Unlink({cur}, due)
    /\ cur' = NextOf(cur)
    /\ UNCHANGED <<pc, taken, soon, since, limit, asyncVars, pollVars, low>>

WalkNotDue ==
    /\ pc = "walk" /\ cur # 0 /\ cur \notin cleared /\ due[cur] > Slack
    /\ soon' = SmallerOf(soon, due[cur])
    /\ cur' = NextOf(cur)
    /\ UNCHANGED <<pc, taken, since, limit, listVars, asyncVars, pollVars, low>>

WalkDue ==
    /\ pc = "walk" /\ cur # 0 /\ cur \notin cleared /\ due[cur] <= Slack
    /\ pc' = "callback"
    /\ UNCHANGED <<taken, cur, soon, since, limit, listVars, asyncVars, pollVars, low>>

\* Mutant: the walk goes on from the timer it destroyed
CallbackDoneStays(d) ==
    /\ pc = "callback"
    /\ Unlink({cur}, Age(d))
    /\ soon' = SoonAfter(d) /\ since' = SinceAfter(d)
    /\ pc' = "walk"
    /\ UNCHANGED <<taken, cur, limit, asyncVars, pollVars, low>>

\* The callback returned 0 after d ticks: the timer is destroyed, and
\* lastsample is not taken
CallbackDone(d) ==
    /\ pc = "callback"
    /\ Unlink({cur}, Age(d))
    /\ soon' = SoonAfter(d) /\ since' = SinceAfter(d)
    /\ pc' = "walk" /\ cur' = NextOf(cur)
    /\ UNCHANGED <<taken, limit, asyncVars, pollVars, low>>

\* Mutant: the new schedule is not considered for the wait
CallbackAgainUnseen(r, d) ==
    /\ pc = "callback" /\ r # 0
    /\ needs' = IF r = -1 THEN needs ELSE [needs EXCEPT ![cur] = r * Ms]
    /\ due' = [Age(d) EXCEPT ![cur] = needs'[cur] - d]
    /\ soon' = SoonAfter(d)
    /\ since' = 0
    /\ pc' = "walk" /\ cur' = NextOf(cur)
    /\ UNCHANGED <<list, protected, cleared, hooked, lastId, clears, taken, limit, asyncVars, pollVars, low>>

\* It returned -1, or the milliseconds to the next call, counted from the
\* moment it was called
CallbackAgain(r, d) ==
    /\ pc = "callback" /\ r # 0
    /\ needs' = IF r = -1 THEN needs ELSE [needs EXCEPT ![cur] = r * Ms]
    /\ due' = [Age(d) EXCEPT ![cur] = needs'[cur] - d]
    /\ soon' = SmallerOf(SoonAfter(d), due'[cur])
    /\ since' = 0
    /\ pc' = "walk" /\ cur' = NextOf(cur)
    /\ UNCHANGED <<list, protected, cleared, hooked, lastId, clears, taken, limit, asyncVars, pollVars, low>>

EndWalk ==
    /\ pc = "walk" /\ cur = 0
    /\ pc' = "last"
    /\ taken' = async /\ async' = <<>>
    /\ UNCHANGED <<cur, soon, since, limit, listVars, ahooked, lastAsync,
                   aclears, pollVars, low>>

MinWait == IF low THEN LowWait ELSE 1

\* inums - lastsample, rounded to milliseconds.  lastsample is the present
\* if no callback was called again.
WaitFor(x) ==
    LET ms == (x + (IF since = NoSample THEN 0 ELSE since) + Half) \div Ms
    IN  IF ms < MinWait THEN MinWait ELSE ms

EndPass ==
    /\ pc = "last" /\ taken = <<>>
    /\ wait' = IF soon = Never THEN Resolution ELSE WaitFor(soon)
    /\ left' = wait' * Ms
    /\ pc' = "poll" /\ soon' = Never
    /\ UNCHANGED <<taken, cur, since, limit, listVars, asyncVars, low>>

-----------------------------------------------------------------------------
App ==
    \/ \E ms \in Delays : TimerCreate(ms)
    \/ \E t \in Ids :
         \/ TimerDestroy(t) \/ TimerUnprotect(t) \/ TimerSetClearFunc(t)
         \/ \E force \in BOOLEAN : TimerClearById(t, force)
    \/ SetLowResolution
    \/ AsyncCreate
    \/ \E a \in Calls : AsyncSetClearFunc(a) \/ AsyncDestroy(a)
    \/ DestroyUnprotected \/ DestroyAll

Pass ==
    \/ EndPoll
    \/ \E d \in 0 .. MaxBusy :
         \/ BeginPass(d) \/ AsyncReturn(d) \/ CallbackDone(d)
         \/ \E r \in Returns : CallbackAgain(r, d)
    \/ AsyncCall \/ BeginWalk \/ WalkCleared \/ WalkNotDue \/ WalkDue
    \/ EndWalk \/ EndPass

Next == App \/ Tick \/ Pass

\* The loop keeps turning and callbacks return; the clock moves on.
Spec == Init /\ [][Next]_vars /\ WF_vars(Pass) /\ SF_vars(Tick)

-----------------------------------------------------------------------------
(* Properties.                                                             *)

\* However callbacks create, destroy and clear timers and calls, the pointer
\* ape_timers_process walks the list with is to an allocated timer, one that
\* is older than the pass, and the calls process_async has taken off the
\* list are not on it any more, so that nothing is called twice.
WalkValid ==
    /\ cur # 0 => cur \in Listed /\ cur <= limit
    /\ pc = "callback" => cur # 0
    /\ ToSet(async) \cap ToSet(taken) = {}
    /\ IsInjective(list) /\ IsInjective(async) /\ IsInjective(taken)
    /\ pc \notin {"first", "firstcb", "last", "lastcb"} => taken = <<>>

\* Whoever ends a timer or an asynchronous call (its callback, the walk after
\* it was cleared, the application, the end of the library), its clearfunc is
\* called, once, and not before that.
ReleasedOnce ==
    /\ \A t \in Ids :
        clears[t] = IF t \in hooked \ Listed THEN 1 ELSE 0
    /\ \A a \in Calls :
        aclears[a] = IF a \in ahooked \ (ToSet(async) \cup ToSet(taken)) THEN 1 ELSE 0

\* The wait handed to poll is no longer than any timer older than the pass
\* needs, counted from the last sample of the clock and rounded to a
\* millisecond, whatever timers were destroyed, cleared and rescheduled after
\* the walk had passed them.
WaitSound ==
    pc = "poll" /\ left = wait * Ms =>
        \A t \in Listed \ cleared :
            t <= limit =>
                \/ wait <= MinWait
                \/ left <= due[t] + Half + (IF since = NoSample THEN 0 ELSE since)

\* A timer that is on the list is called again, or leaves the list.
CalledOrGone ==
    \A t \in Ids :
        t \in Listed ~> t \notin Listed \/ (pc = "callback" /\ cur = t)

=============================================================================
