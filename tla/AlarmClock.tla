------------------------------ MODULE AlarmClock ------------------------------
(***************************************************************************)
(* What the users of srslte::timer_handler count on: the callback of a     *)
(* timer that was run and neither stopped nor run again since is called at *)
(* the tick it was run for, not before and not after, and at no other.     *)
(***************************************************************************)
EXTENDS Naturals

CONSTANT Alarm

VARIABLES
    now,
    deadline,       \* tick at which the alarm rings, 0: it is off
    ringing         \* set of at most one alarm: the one whose callback runs

Init ==
    /\ now = 0
    /\ deadline = [a \in Alarm |-> 0]
    /\ ringing = {}

Start(a) ==
    /\ deadline'[a] > now
    /\ deadline' = [deadline EXCEPT ![a] = deadline'[a]]
    /\ UNCHANGED <<now, ringing>>

Cancel(a) ==
    /\ deadline' = [deadline EXCEPT ![a] = 0]
    /\ UNCHANGED <<now, ringing>>

CancelAll ==
    /\ deadline' = [a \in Alarm |-> 0]
    /\ UNCHANGED <<now, ringing>>

Ring(a) ==
    /\ ringing = {}
    /\ deadline[a] = now /\ now > 0
    /\ ringing' = {a}
    /\ deadline' = [deadline EXCEPT ![a] = 0]
    /\ UNCHANGED now

Silence ==
    /\ ringing' = {}
    /\ UNCHANGED <<now, deadline>>

Advance ==
    /\ ringing = {}
    /\ \A a \in Alarm : deadline[a] # 0 => deadline[a] > now
    /\ now' = now + 1
    /\ UNCHANGED <<deadline, ringing>>

Next ==
    \/ \E a \in Alarm : Start(a) \/ Cancel(a) \/ Ring(a)
    \/ CancelAll \/ Silence \/ Advance

Spec == Init /\ [][Next]_<<now, deadline, ringing>>
===============================================================================
