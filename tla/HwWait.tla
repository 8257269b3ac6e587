-------------------------------- MODULE HwWait --------------------------------
(***************************************************************************)
(* The hardware path seen by a caller: HwSubmit plus hardware::wait, which  *)
(* spins on the status byte (dml_wait_busy_poll) or sleeps on it with       *)
(* UMONITOR/UMWAIT (dml_wait_umwait).  The check of the byte, the arming of *)
(* the monitor and the sleep are separate steps: the device may write the   *)
(* record between any two of them.                                          *)
(***************************************************************************)
EXTENDS HwSubmit

VARIABLES
    wpc,        \* where each thread is in wait
    wjob,       \* the descriptor it waits for
    umwait,     \* the umwait argument of the call
    triggered   \* the armed monitor of the thread has seen a store

waitVars == <<wpc, wjob, umwait, triggered>>
allVars == <<vars, waitVars>>

WaitInit ==
    /\ Init
    /\ wpc = [t \in Threads |-> "no"]
    /\ wjob = [t \in Threads |-> NoJob]
    /\ umwait = [t \in Threads |-> FALSE]
    /\ triggered = [t \in Threads |-> FALSE]

\* The handle of a descriptor is in one thread's hands.
Waited(j) == \E t \in Threads : wpc[t] # "no" /\ wjob[t] = j

\* software::wait on a submitted descriptor; its finished() shortcut is the
\* first check of the loop.
WaitCall(t, j, mode) ==
    /\ pc[t] = "idle" /\ wpc[t] = "no"
    /\ phase[j] = "accepted" /\ ~Waited(j)
    /\ wpc' = [wpc EXCEPT ![t] = "check"]
    /\ wjob' = [wjob EXCEPT ![t] = j]
    /\ umwait' = [umwait EXCEPT ![t] = mode]
    /\ UNCHANGED <<vars, triggered>>

\* *pointer != 0: the loop ends.
WaitReturn(t) ==
    /\ wpc[t] = "check"
    /\ record[wjob[t]] # InProgress
    /\ wpc' = [wpc EXCEPT ![t] = "no"]
    /\ wjob' = [wjob EXCEPT ![t] = NoJob]
    /\ umwait' = [umwait EXCEPT ![t] = FALSE]
    /\ UNCHANGED <<vars, triggered>>

\* *pointer == 0 in dml_wait_umwait.  (The busy loop just reads again.)
CheckedBusy(t) ==
    /\ wpc[t] = "check" /\ umwait[t]
    /\ record[wjob[t]] = InProgress
    /\ wpc' = [wpc EXCEPT ![t] = "arm"]
    /\ UNCHANGED <<vars, wjob, umwait, triggered>>

\* UMONITOR, then UMWAIT: only stores after the UMONITOR end the sleep.
Monitor(t) ==
    /\ wpc[t] = "arm"
    /\ wpc' = [wpc EXCEPT ![t] = "asleep"]
    /\ triggered' = [triggered EXCEPT ![t] = FALSE]
    /\ UNCHANGED <<vars, wjob, umwait>>

\* UMWAIT ends, because of a store to the monitored line ...
WakeOnStore(t) ==
    /\ wpc[t] = "asleep" /\ triggered[t]
    /\ wpc' = [wpc EXCEPT ![t] = "check"]
    /\ triggered' = [triggered EXCEPT ![t] = FALSE]
    /\ UNCHANGED <<vars, wjob, umwait>>

\* Mutant: UMWAIT without a deadline.
WakeNever(t) ==
    /\ wpc[t] = "asleep" /\ triggered[t]
    /\ wpc' = [wpc EXCEPT ![t] = "check"]
    /\ triggered' = [triggered EXCEPT ![t] = FALSE]
    /\ UNCHANGED <<vars, wjob, umwait>>
\* ... or because the time stamp counter has passed timeout.
WakeOnTimeout(t) ==
    /\ wpc[t] = "asleep"
    /\ wpc' = [wpc EXCEPT ![t] = "check"]
    /\ triggered' = [triggered EXCEPT ![t] = FALSE]
    /\ UNCHANGED <<vars, wjob, umwait>>

WaitStep(t) ==
    \/ WaitReturn(t)
    \/ CheckedBusy(t)
    \/ Monitor(t)
    \/ WakeOnStore(t)
    \/ WakeOnTimeout(t)

\* The device's store reaches the monitors armed on the record.
DeviceCompletes(j) ==
    \E p \in Portals, s \in Completed :
        /\ Complete(p, j, s)
        /\ triggered' = [t \in Threads |->
                           triggered[t] \/ (wpc[t] = "asleep" /\ wjob[t] = j)]
        /\ UNCHANGED <<wpc, wjob, umwait>>

CallerSubmits ==
    \E t \in Threads, j \in Jobs, n \in Nodes \cup {AnyNode}, here \in Nodes :
        /\ wpc[t] = "no" /\ ~Waited(j)
        /\ Submit(t, j, n, here)
        /\ UNCHANGED waitVars

WaitNext ==
    \/ CallerSubmits
    \/ \E t \in Threads : SubmitStep(t) /\ UNCHANGED waitVars
    \/ \E j \in Jobs : DeviceCompletes(j)
    \/ \E t \in Threads, j \in Jobs, mode \in BOOLEAN : WaitCall(t, j, mode)
    \/ \E t \in Threads : WaitStep(t)

\* A thread inside the library keeps running; a device finishes every
\* descriptor it holds.
\* Nobody has to call submit or wait.
Fairness ==
    /\ \A t \in Threads : WF_allVars(SubmitStep(t) /\ UNCHANGED waitVars)
    /\ \A t \in Threads : WF_allVars(WaitStep(t))
    /\ \A j \in Jobs : WF_allVars(DeviceCompletes(j))

WaitSpec == WaitInit /\ [][WaitNext]_allVars /\ Fairness

-----------------------------------------------------------------------------
WaitTypeOK ==
    /\ TypeOK
    /\ wpc \in [Threads -> {"no", "check", "arm", "asleep"}]
    /\ wjob \in [Threads -> Jobs \cup {NoJob}]
    /\ umwait \in [Threads -> BOOLEAN]
    /\ triggered \in [Threads -> BOOLEAN]

\* submit always returns: the walk over devices and queues cannot go round for
\* ever, however often other threads fill the queues.
SubmitReturns == \A t \in Threads :
    pc[t] \in {"scan", "enqueue"} ~> pc[t] = "idle"

\* wait always returns, in both modes: a record written between the check of
\* the status byte and UMONITOR is noticed.
WaitReturns == \A t \in Threads : wpc[t] # "no" ~> wpc[t] = "no"
=============================================================================
