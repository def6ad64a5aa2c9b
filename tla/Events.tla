------------------------------- MODULE Events -------------------------------
(***************************************************************************)
(* Timers and events of one process (tim.c and evtunx.c, Unix): the program*)
(* sets, clears and waits for event flags and sets timers, and the handler *)
(* of SIGALRM, which sets the events of the timers that have expired, runs *)
(* between any two of its steps.  pvistart keeps the handler out of timset *)
(* only.  A lock of fio with a time limit takes the one alarm of the       *)
(* process for itself and gives back what it took (fioaunx.c).             *)
(*                                                                         *)
(* Time passes in units of which Sec make a second; the table of timers    *)
(* holds what is left of each.  The events exist all the time.             *)
(***************************************************************************)
EXTENDS Integers, FiniteSetsExt

CONSTANTS
  Events,    \* the events are 1 .. Events, in the order of their table
  Slots,     \* the slots of the table of timers (MAXTIMERS)
  Sec,       \* units in a second, 10 at most
  MaxLeft,   \* bound: units of the longest timer
  Limit,     \* seconds of the time limit of a lock
  MaxLocks   \* bound: locks with a time limit

ASSUME EventsAssumption ==
  /\ {Events, Slots, Sec, Limit} \subseteq Nat \ {0} /\ Sec <= 10
  /\ {MaxLeft, MaxLocks} \subseteq Nat

VARIABLES
  state,     \* the events that are set
  multiplex, \* those that show in the action flag
  flag,      \* the bit of the action flag
  eventflg,  \* whether an event was set, and
  pollwait,  \* whether poll is to wait: both matter in evtwait only
  tminfo,    \* the timers, or NoTimer in a free slot
  timhi,     \* the highest slot in use
  itimer,    \* units until SIGALRM, or Off
  call,      \* where the program is in its call, with its locals
  locks,     \* locks with a time limit so far
  late,      \* events that were set where evtclear or evtwait do not look
             \* any more
  robbed     \* whether a lock took an alarm without giving it back

tvars == <<tminfo, timhi, itimer>>
evars == <<state, multiplex, flag, eventflg, pollwait, late>>
vars == <<evars, tvars, call, locks, robbed>>

Event == 1 .. Events
Slot == 1 .. Slots
Left == 0 .. MaxLeft
Off == -1
NoTimer == [event |-> 0, left |-> 0]
Idle == [at |-> "idle"]

Init ==
  /\ state = {} /\ multiplex = {} /\ flag = FALSE
  /\ eventflg = FALSE /\ pollwait = TRUE /\ late = {}
  /\ tminfo = [i \in Slot |-> NoTimer] /\ timhi = 0 /\ itimer = Off
  /\ call = Idle /\ locks = 0 /\ robbed = FALSE

At(at) == call.at = at
Goes(at) == call' = [call EXCEPT !.at = at]
Returns == call' = Idle
Active == {i \in 1 .. timhi : tminfo[i] # NoTimer}
\* setitimer: the part of a second is taken for a tenth of what it is.
Alarm(left) == (left \div Sec) * Sec + (left % Sec) \div 10

(***************************************************************************)
(* Setting events.                                                         *)
(***************************************************************************)
\* Where the program is past the point where it would see e.
Passed(e) == {k \in {"flag", "wait"} :
  \/ k = "flag" /\ At("scan") /\ e < call.i
  \/ k = "wait" /\ At("enter") /\ e \in call.events}

Waiting == call.at \in {"wake", "look", "arm", "poll", "load", "pause", "enter", "asleep"}
\* evtset of all events of S.
Sets(S) ==
  /\ state' = state \cup S
  /\ flag' = (flag \/ S \cap multiplex # {})
  /\ eventflg' = (eventflg \/ (Waiting /\ S # {}))
  /\ pollwait' = (pollwait /\ (~Waiting \/ S = {}))
  /\ late' = {x \in late : x[2] \notin S} \cup UNION {Passed(e) \X {e} : e \in S}
  /\ UNCHANGED multiplex

(***************************************************************************)
(* Clearing an event, with the other events that share the flag.           *)
(***************************************************************************)
Evtclear(e) ==
  /\ At("idle")
  /\ state' = state \ {e} /\ late' = {x \in late : x[2] # e}
  /\ call' = IF e \in multiplex THEN [at |-> "clear"] ELSE Idle
  /\ UNCHANGED <<multiplex, flag, eventflg, pollwait, tvars, locks, robbed>>

EvtclearFlag ==
  /\ At("clear")
  /\ call' = IF flag THEN [at |-> "scan", i |-> 1] ELSE Idle
  /\ UNCHANGED <<evars, tvars, locks, robbed>>

EvtclearScan ==
  /\ At("scan")
  /\ IF call.i \in Event
     THEN /\ call' = IF call.i \in multiplex \cap state THEN Idle ELSE [call EXCEPT !.i = @ + 1]
          /\ UNCHANGED flag
     ELSE Returns /\ flag' = FALSE
  /\ UNCHANGED <<state, multiplex, eventflg, pollwait, late, tvars, locks, robbed>>

(***************************************************************************)
(* Choosing the events that show in the flag.  No caller gives an empty    *)
(* list, for which the code returns before it clears the flag.             *)
(***************************************************************************)
Evtmultiplex(S) ==
  /\ At("idle") /\ S # {}
  /\ multiplex' = {} /\ flag' = FALSE /\ late' = {x \in late : x[1] # "flag"}
  /\ call' = [at |-> "mark", todo |-> S]
  /\ UNCHANGED <<state, eventflg, pollwait, tvars, locks, robbed>>

EvtmultiplexMark ==
  /\ At("mark")
  /\ IF call.todo = {} THEN Returns /\ UNCHANGED multiplex
     ELSE LET e == Max(call.todo)
          IN /\ multiplex' = multiplex \cup {e}
             /\ call' = [at |-> "test", event |-> e, todo |-> call.todo \ {e}]
  /\ UNCHANGED <<state, flag, eventflg, pollwait, late, tvars, locks, robbed>>

EvtmultiplexTest ==
  /\ At("test")
  /\ flag' = (flag \/ call.event \in state)
  /\ call' = [at |-> "mark", todo |-> call.todo]
  /\ UNCHANGED <<state, multiplex, eventflg, pollwait, late, tvars, locks, robbed>>

(***************************************************************************)
(* Waiting for one of a set of events, in poll if there are devices and in *)
(* pause if there are none.                                                *)
(***************************************************************************)
Evtwait(S, devices) ==
  /\ At("idle")
  /\ call' = [at |-> "wake", events |-> S, devices |-> devices]
  /\ late' = {x \in late : x[1] # "wait"}
  /\ UNCHANGED <<state, multiplex, flag, eventflg, pollwait, tvars, locks, robbed>>

WaitReset ==
  /\ At("wake")
  /\ eventflg' = FALSE /\ Goes("look")
  /\ UNCHANGED <<state, multiplex, flag, pollwait, late, tvars, locks, robbed>>

WaitLook ==
  /\ At("look")
  /\ IF call.events \cap state # {} THEN Returns /\ eventflg' = FALSE /\ pollwait' = TRUE
                                   ELSE Goes("arm") /\ UNCHANGED <<eventflg, pollwait>>
  /\ UNCHANGED <<state, multiplex, flag, late, tvars, locks, robbed>>

\* Mutant of WaitArm: the flag is reset here.
WaitArmResets ==
  /\ At("arm")
  /\ pollwait' = TRUE /\ eventflg' = FALSE /\ Goes("poll")
  /\ UNCHANGED <<state, multiplex, flag, late, tvars, locks, robbed>>
WaitArm ==
  /\ At("arm")
  /\ pollwait' = TRUE /\ Goes("poll")
  /\ UNCHANGED <<state, multiplex, flag, eventflg, late, tvars, locks, robbed>>

\* eventflg is looked at before the devices and before pause.
WaitPoll ==
  /\ At("poll")
  /\ Goes(IF eventflg THEN "wake" ELSE IF call.devices THEN "load" ELSE "pause")
  /\ UNCHANGED <<evars, tvars, locks, robbed>>

WaitLoad ==
  /\ \/ At("load") /\ Goes(IF pollwait THEN "enter" ELSE "wake")
     \/ At("pause") /\ Goes(IF eventflg THEN "wake" ELSE "enter")
  /\ UNCHANGED <<evars, tvars, locks, robbed>>

WaitEnter ==
  /\ At("enter") /\ Goes("asleep")
  /\ UNCHANGED <<evars, tvars, locks, robbed>>

\* A device has input, and its callback may set an event.
Input(S) ==
  /\ At("asleep") /\ call.devices
  /\ Sets(S) /\ Goes("wake")
  /\ UNCHANGED <<tvars, locks, robbed>>

(***************************************************************************)
(* Timers.                                                                 *)
(***************************************************************************)
\* The time is read, then the handler is kept out.  The handle of a timer is
\* its slot here: handlecnt gives every timer another.
Timset(e, left) ==
  /\ At("idle")
  /\ IF left = 0
     THEN Sets({e}) /\ UNCHANGED call
     ELSE call' = [at |-> "timset", event |-> e, alarm |-> left, left |-> left] /\ UNCHANGED evars
  /\ UNCHANGED <<tvars, locks, robbed>>

TimsetStores ==
  LET free == {i \in Slot : tminfo[i] = NoTimer}
      slot == Min(free)
      first == \A i \in Active : call.left < tminfo[i].left
  IN /\ At("timset")
     /\ IF free = {} THEN UNCHANGED <<tvars, robbed>>
        ELSE /\ tminfo' = [tminfo EXCEPT ![slot] = [event |-> call.event, left |-> call.left]]
             /\ timhi' = Max({timhi, slot})
             /\ IF first THEN itimer' = Alarm(call.alarm) /\ robbed' = FALSE
                         ELSE UNCHANGED <<itimer, robbed>>
     /\ Returns /\ UNCHANGED <<evars, locks>>

\* The handle is one that timset answered: that of a timer that may have fired
\* since, or 0 if it set the event itself, which is what free slots have.
Timstop(handle) ==
  /\ At("idle")
  /\ call' = [at |-> "timstop", handle |-> handle, i |-> timhi]
  /\ UNCHANGED <<evars, tvars, locks, robbed>>

TimstopSlot ==
  LET i == call.i
      found == IF tminfo[i] = NoTimer THEN call.handle = 0 ELSE call.handle = i
  IN /\ At("timstop") /\ i # 0
     /\ tminfo' = IF found THEN [tminfo EXCEPT ![i] = NoTimer] ELSE tminfo
     /\ timhi' = IF i = timhi /\ (found \/ tminfo[i] = NoTimer) THEN timhi - 1 ELSE timhi
     /\ call' = [call EXCEPT !.i = IF found THEN 0 ELSE i - 1]
     /\ UNCHANGED <<evars, itimer, locks, robbed>>

TimstopEnds ==
  /\ At("timstop") /\ call.i = 0
  /\ itimer' = IF timhi = 0 THEN Off ELSE itimer
  /\ Returns
  /\ UNCHANGED <<evars, tminfo, timhi, locks, robbed>>

\* Mutant of Rearm: the handler does not ask for another alarm.
RearmNever(timers) == Off
\* The alarm for the timers that are left.
Rearm(timers) == IF timers = {} THEN Off ELSE Alarm(Min({tminfo[i].left : i \in timers}))

\* SIGALRM while timtimecallback is its handler.
TimerCallback ==
  LET expired == {i \in Active : tminfo[i].left = 0}
  IN /\ itimer = 0 /\ ~At("lock") /\ ~At("block")
     /\ Sets({tminfo[i].event : i \in expired})
     /\ tminfo' = [i \in Slot |-> IF i \in expired THEN NoTimer ELSE tminfo[i]]
     /\ itimer' = Rearm(Active \ expired)
     /\ call' = IF At("asleep") THEN [call EXCEPT !.at = "wake"] ELSE call
     /\ UNCHANGED <<timhi, locks, robbed>>

\* Time passes; an alarm that is due comes first unless it is blocked.  One
\* that is early is asked for again and again before a unit has passed.
Due == itimer = 0 /\ (At("lock") \/ \E i \in Active : tminfo[i].left = 0)
Tick ==
  /\ ~Due \/ At("block")
  /\ itimer' = IF itimer > 0 THEN itimer - 1 ELSE itimer
  /\ tminfo' = [i \in Slot |-> [tminfo[i] EXCEPT !.left = Max({0, @ - 1})]]
  /\ call' = IF At("timset") THEN [call EXCEPT !.left = Max({0, @ - 1})] ELSE call
  /\ UNCHANGED <<evars, timhi, locks, robbed>>

(***************************************************************************)
(* A lock that may have to wait: without a limit SIGALRM is blocked, with  *)
(* one the alarm and the handler are replaced.  An alarm that is due comes *)
(* before.                                                                 *)
(***************************************************************************)
FioalockBlocks ==
  /\ At("idle") /\ ~Due
  /\ call' = [at |-> "block"]
  /\ UNCHANGED <<evars, tvars, locks, robbed>>

FioalockUnblocks ==
  /\ At("block") /\ Returns
  /\ UNCHANGED <<evars, tvars, locks, robbed>>

FioalockLimits ==
  /\ At("idle") /\ ~Due /\ locks < MaxLocks
  /\ locks' = locks + 1
  /\ call' = [at |-> "lock", old |-> itimer]
  /\ itimer' = Limit * Sec
  /\ UNCHANGED <<evars, tminfo, timhi, robbed>>

\* The alarm ends the wait.
FioalockAlarm ==
  /\ At("lock") /\ itimer = 0
  /\ itimer' = Off
  /\ UNCHANGED <<evars, tminfo, timhi, call, locks, robbed>>

\* The lock is granted, or the wait was ended: an alarm that was due within a
\* second is not set again.  What has passed is rounded up to seconds.
FioalockReturns ==
  LET slept == IF itimer > 0 THEN Limit - (itimer - 1) \div Sec ELSE Limit
      seconds == call.old \div Sec
  IN /\ At("lock") /\ itimer # 0
     /\ IF call.old >= Sec
        THEN /\ itimer' = (call.old % Sec) + Sec * Max({1, seconds - slept})
             /\ UNCHANGED robbed
        ELSE itimer' = Off /\ robbed' = (robbed \/ call.old # Off)
     /\ Returns
     /\ UNCHANGED <<evars, tminfo, timhi, locks>>

Steps ==
  \/ EvtclearFlag \/ EvtclearScan \/ EvtmultiplexMark \/ EvtmultiplexTest
  \/ WaitReset \/ WaitLook \/ WaitArm \/ WaitPoll \/ WaitLoad \/ WaitEnter
  \/ TimsetStores \/ TimstopSlot \/ TimstopEnds
  \/ FioalockUnblocks \/ FioalockAlarm \/ FioalockReturns

Calls ==
  \/ \E e \in Event : \/ Evtclear(e)
                      \/ \E left \in Left : Timset(e, left)
  \/ \E handle \in {0} \cup Slot : Timstop(handle)
  \/ \E S \in SUBSET Event : \/ Evtmultiplex(S)
                             \/ S # {} /\ \E devices \in BOOLEAN : Evtwait(S, devices)
                             \/ Input(S)
  \/ FioalockBlocks \/ FioalockLimits

Next == Calls \/ Steps \/ TimerCallback \/ Tick

\* A call goes on, a lock is granted at last, signals are delivered, and time
\* does not stand still although a handler may run many times in a unit.
Fairness == WF_vars(Steps) /\ WF_vars(TimerCallback) /\ SF_vars(Tick)
Spec == Init /\ [][Next]_vars /\ Fairness

-----------------------------------------------------------------------------
\* No event is missed: between calls of evtclear and evtmultiplex the action
\* flag shows whether one of its events is set, and evtwait does not sleep while
\* one of its events is set, wherever the handler came in between.  There are two
\* gaps: behind the scan of evtclear (evtunx.c 216-219), which is not protected
\* by pvistart, and between the test and the system call in evtwait (541, 613),
\* of which the comment at 536-538 speaks.
NoEventMissed ==
  /\ call.at \notin {"clear", "scan", "mark", "test"} =>
       /\ flag => multiplex \cap state # {}
       /\ \A e \in multiplex \cap state : flag \/ <<"flag", e>> \in late
  /\ At("asleep") => \A e \in call.events \cap state : <<"wait", e>> \in late

\* Every timer sets its event or is stopped, whatever other timers are set and
\* stopped and whoever blocks or borrows the alarm (timset 139-178,
\* timtimecallback 228-251, timstop 262-277); but an alarm that is due within a
\* second is lost to a lock with a time limit (fioaunx.c 479-484), and no timer
\* fires until one is set that is earlier than all others.
TimersFire == \A i \in Slot : (tminfo[i] # NoTimer) ~> (tminfo[i] = NoTimer \/ robbed)
=============================================================================
