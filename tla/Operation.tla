------------------------------ MODULE Operation ------------------------------
(***************************************************************************)
(* What both APIs promise of an operation, without descriptors, records,    *)
(* buffers or devices.  An object (a job, a handler, or the call of a        *)
(* blocking function) stands for at most one operation; the operation has    *)
(* one outcome, and whatever the caller is told of it is part of that        *)
(* outcome, however often it asks and wherever the object was moved.         *)
(***************************************************************************)
CONSTANTS
    Objects,
    None,
    Pending,
    Possible(_),  \* outcomes of an operation
    Requests

VARIABLES
    asked,    \* the operation each object stands for
    outcome,  \* how it ended
    answer    \* what the caller was last told by the object

vars == <<asked, outcome, answer>>

Init ==
    /\ asked = [o \in Objects |-> None]
    /\ outcome = [o \in Objects |-> None]
    /\ answer = [o \in Objects |-> None]

\* Everything told is true.
Truth(a, x) == \A part \in DOMAIN a : a[part] = x[part]

\* Only what object o stands for changes.
Only(o) ==
    /\ asked' = [asked EXCEPT ![o] = asked'[o]]
    /\ answer' = [answer EXCEPT ![o] = answer'[o]]
    /\ outcome' = [outcome EXCEPT ![o] = outcome'[o]]

\* An object takes up an operation, which may be over at once.
Start(o) ==
    /\ asked'[o] # None /\ answer'[o] = None
    /\ Only(o)
    /\ asked'[o] \in Requests
    /\ outcome'[o] \in {Pending} \cup Possible(asked'[o])

\* A call is refused, or an object is given up: it stands for nothing.
Forget(o) ==
    /\ asked'[o] = None /\ answer'[o] = None /\ outcome'[o] = None
    /\ Only(o)

\* The operation ends.
Finish(o) ==
    /\ UNCHANGED <<asked, answer>>
    /\ outcome[o] = Pending
    /\ Only(o)
    /\ outcome'[o] \in Possible(asked[o])

\* The caller hears of an operation that is over, or is over by then.
Tell(o) ==
    /\ UNCHANGED asked
    /\ asked[o] # None /\ answer'[o] # None
    /\ Only(o)
    /\ outcome'[o] \in IF outcome[o] = Pending THEN Possible(asked[o]) ELSE {outcome[o]}
    /\ Truth(answer'[o], outcome'[o])

\* Two objects exchange what they stand for.
Exchange(o, p) ==
    /\ asked' = [asked EXCEPT ![o] = asked[p], ![p] = asked[o]]
    /\ answer' = [answer EXCEPT ![o] = answer[p], ![p] = answer[o]]
    /\ outcome' = [outcome EXCEPT ![o] = outcome[p], ![p] = outcome[o]]

Next == \E o \in Objects :
    \/ Start(o) \/ Forget(o) \/ Finish(o) \/ Tell(o)
    \/ \E p \in Objects \ {o} : Exchange(o, p)

Spec == Init /\ [][Next]_vars
=============================================================================
