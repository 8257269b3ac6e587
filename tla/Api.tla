---------------------------------- MODULE Api ----------------------------------
(***************************************************************************)
(* The two APIs over the devices: jobs, which keep their task in place,     *)
(* handlers, which own a task on the heap and are moved and assigned, and    *)
(* blocking calls, whose task is on the stack.  Records are written by the   *)
(* software device during a submission and by the accelerator at any time    *)
(* after it, at the address found in the descriptor.                         *)
(*                                                                         *)
(* One application thread makes the calls.  It keeps the contract of the     *)
(* documentation: an object is not submitted again, assigned to or destroyed *)
(* while its operation runs, and a job is only waited for if its submission  *)
(* was successful.                                                           *)
(***************************************************************************)
EXTENDS Records

CONSTANTS
    Jobs, Handlers, Heap,  \* jobs, handlers and heap buffers
    Call,                  \* a blocking call, and the place of its task
    Temporary,             \* the task that make_task returns
    Address,               \* of the completion record in each place
    Applications,          \* [api, requests, paths, calls]: what one asks for,
                           \* of which API, on which paths and how many times
    Paths,                 \* execution paths
    None, Pending

Objects == Jobs \cup Handlers \cup {Call}
Places == Jobs \cup Heap \cup {Call, Temporary}

ASSUME AddressAssumption ==
    /\ Address \in [Places -> Int]
    /\ \A p, q \in Places : p # q => Address[p] # Address[q]
    /\ \A p \in Places : Address[p] > 0

\* Objects and places are what they are and nothing else, and the allocator has
\* a buffer for every handler and one for the temporary of a submission.
ASSUME PlaceAssumption ==
    /\ Jobs \cap Handlers = {} /\ Jobs \cap Heap = {} /\ Handlers \cap Heap = {}
    /\ Call \notin Jobs \cup Handlers \cup Heap
    /\ Temporary \notin Jobs \cup Heap \cup {Call}
    /\ None \notin Objects \cup Places
    /\ IsFiniteSet(Handlers) /\ IsFiniteSet(Heap)
    /\ Cardinality(Heap) > Cardinality(Handlers)

\* Paths are the three of the library, and the high-level API is only called for
\* operations that it has.
ASSUME ApplicationAssumption ==
    /\ Paths \subseteq {"software", "hardware", "automatic"}
    /\ \A a \in Applications : a.paths \subseteq Paths /\ a.calls \in Nat
    /\ \A a \in Applications : a.api = "hl" =>
            \A m \in a.requests : m.op \in DOMAIN OperationObject

\* An application asks for what the API it uses can express.
ASSUME WishAssumption == \A a \in Applications : \A m \in a.requests :
    (a.api = "job" => JobWish(m)) /\ (a.api = "hl" => CallWish(m))

VARIABLES
    app,        \* the application that runs
    obj,        \* status, path and place of the task of each object
    job,        \* the structure of each job
    task,       \* descriptor and record in each place
    allocated,  \* heap buffers in use
    flight,     \* descriptors the accelerator has taken and not finished
    waiting,    \* the object the thread waits for
    calls,
    asked,      \* history: the wish and path of the last accepted call
    told        \* what the object last told the caller

vars == <<app, obj, job, task, allocated, flight, waiting, calls, asked, told>>

\* An object that does not exist, an empty task.
Dead == [status |-> "dead", path |-> "software", place |-> None]
BlankTask == [dsc |-> Blank, rec |-> Blank]

Init ==
    /\ app \in Applications
    /\ obj = [o \in Objects |-> Dead]
    /\ job = [j \in Jobs |-> BlankJob]
    /\ task = [p \in Places |-> BlankTask]
    /\ allocated = {} /\ flight = {} /\ waiting = None /\ calls = 0
    /\ asked = [o \in Objects |-> None]
    /\ told = [o \in Objects |-> None]

\* A call that the thread can make now.
Free == waiting = None
Step == Free /\ calls < app.calls /\ calls' = calls + 1

-----------------------------------------------------------------------------
(* What a device sees and writes. *)

\* get_completion_record(dsc): the place whose record the descriptor names.
Named(dsc) == {p \in Places : Address[p] = Get(dsc, any_descriptor.completion_record_address)}

\* The record that the descriptor names is filled in.
Completed(tasks, dsc, x) ==
    [p \in Places |->
        IF p \in Named(dsc)
        THEN [tasks[p] EXCEPT !.rec = PutAll(tasks[p].rec, RecordView[OperationOf(dsc)], x)]
        ELSE tasks[p]]

\* execution_path_t::submit: who takes the descriptor.  Submission to the
\* accelerator is modelled by HwSubmit.
Takers(path) ==
    CASE path = "software" -> {<<"success", "software">>}
      [] path = "hardware" -> {<<"success", "accelerator">>, <<"failure", "nobody">>,
                               <<"queue_busy", "nobody">>}
      [] path = "automatic" -> {<<"success", "accelerator">>, <<"success", "software">>}

\* ml::submit: a task that fails validation is not offered to anyone.
ml_submit(dsc, path) ==
    IF validate(dsc) # "success"
    THEN {[status |-> validate(dsc), taker |-> "nobody"]}
    ELSE {[status |-> t[1], taker |-> t[2]] : t \in Takers(path)}

\* The software device completes the operation at once, the accelerator later.
Offered(tasks, dsc, taker) ==
    CASE taker = "software" ->
            /\ \E x \in KernelWrites(Seen(dsc)) : task' = Completed(tasks, dsc, x)
            /\ UNCHANGED flight
      [] taker = "accelerator" -> task' = tasks /\ flight' = flight \cup {dsc}
      [] taker = "nobody" -> task' = tasks /\ UNCHANGED flight

Finish(dsc) ==
    /\ dsc \in flight
    /\ flight' = flight \ {dsc}
    /\ \E x \in AcceleratorWrites(Seen(dsc)) : task' = Completed(task, dsc, x)
    /\ UNCHANGED <<app, obj, job, allocated, waiting, calls, asked, told>>

Device == \E dsc \in flight : Finish(dsc)

-----------------------------------------------------------------------------
(* Waiting and results. *)

Task(o) == task[obj[o].place]

\* Some operation of the object has not been completed.
Running(o) == obj[o].place # None /\ \E dsc \in flight : obj[o].place \in Named(dsc)

\* Mutant: only success ends a wait.
FinishedWell(o) == \E p \in Named(Task(o).dsc) : Get(task[p].rec, any_completion_record.status) = 1
\* software::finished, which the other paths use.
Finished(o) == \E p \in Named(Task(o).dsc) : Get(task[p].rec, any_completion_record.status) # 0

status_of(rec) == Get(rec, any_completion_record.status) % 64

\* A page fault, while reading or writing.
Faulted(rec) == Get(rec, any_completion_record.status) % 128 = PageFault

\* automatic::wait and automatic::finished: what a page fault left is done in
\* software, on the descriptor and the record of the task.
Resolved(o) ==
    IF obj[o].path = "automatic" /\ Faulted(Task(o).rec) THEN Continued(Task(o)) ELSE {Task(o)}

Resolve(o, t) == task' = [task EXCEPT ![obj[o].place] = t]

\* to_own_status of either API, as far as callers tell them apart here.
to_own_status(status) ==
    CASE status = Success -> "ok"
      [] status = FalsePredicate -> "false_predicate"
      [] status = PageFault -> "page_fault"
      [] OTHER -> "error"

\* Stands for the offset in the first note of a delta, which is in memory.
FirstNote == 1

\* write_result(job): the fields of the job that an operation reports in.
write_result(fields, rec) ==
    LET op == CHOOSE p \in Operations : operation[p] = fields.operation
        r == Read(op, rec)
    IN  CASE op = "mem_move" -> [fields EXCEPT !.result = r.result]
          [] op \in {"crc", "copy_crc"} -> [fields EXCEPT !.crc = r.crc_value]
          [] op \in {"compare", "compare_pattern", "dif_check", "dif_strip", "dif_update"} ->
                [fields EXCEPT !.offset = r.bytes_completed, !.result = r.result]
          [] op = "create_delta" ->
                [fields EXCEPT !.destination_length = r.delta_record_size, !.result = r.result,
                               !.offset = FirstNote]
          [] op = "dif_insert" -> [fields EXCEPT !.offset = r.bytes_completed]
          [] OTHER -> fields

\* Where the caller of a job finds the parts of an outcome.
JobParts(op) ==
    CASE op \in {"crc", "copy_crc"} -> [crc_value |-> "crc"]
      [] op \in {"compare", "compare_pattern", "dif_check", "dif_strip", "dif_update"} ->
            [bytes_completed |-> "offset", result |-> "result"]
      [] op = "create_delta" -> [delta_record_size |-> "destination_length", result |-> "result"]
      [] op = "dif_insert" -> [bytes_completed |-> "offset"]
      [] op = "mem_move" -> [result |-> "result"]
      [] OTHER -> [n \in {} |-> ""]

JobAnswer(op, fields, rec) ==
    Joined([status |-> to_own_status(status_of(rec))],
           [n \in DOMAIN JobParts(op) |-> fields[JobParts(op)[n]]])

\* make_result: the parts of a record in the result structure of an operation.
ResultParts(op) ==
    CASE op \in {"compare", "compare_pattern"} -> {"result", "bytes_completed"}
      [] op = "create_delta" -> {"result", "bytes_completed", "delta_record_size"}
      [] op \in {"crc", "copy_crc"} -> {"crc_value"}
      [] op = "batch" -> {"bytes_completed"}
      [] OTHER -> {}

make_result(op, rec) ==
    Joined([status |-> to_own_status(status_of(rec))],
           [n \in ResultParts(op) |-> Read(op, rec)[n]])

\* The end of a wait: dml::wait, handler::get, execute.
Return ==
    /\ waiting # None /\ Finished(waiting)
    /\ \E t \in Resolved(waiting) :
        LET o == waiting
            op == OperationOf(Task(o).dsc)
            fields == IF o \in Jobs THEN write_result(job[o], t.rec) ELSE BlankJob
        IN  /\ Resolve(o, t)
            /\ job' = IF o \in Jobs THEN [job EXCEPT ![o] = fields] ELSE job
            /\ told' = [told EXCEPT ![o] = IF o \in Jobs THEN JobAnswer(op, fields, t.rec)
                                           ELSE make_result(op, t.rec)]
    /\ waiting' = None
    /\ UNCHANGED <<app, obj, allocated, flight, calls, asked>>

-----------------------------------------------------------------------------
(* The job API. *)

\* dml_init_job
InitJob(j, path) ==
    /\ Step /\ ~Running(j)
    /\ obj' = [obj EXCEPT ![j] = [status |-> "idle", path |-> path, place |-> j]]
    /\ job' = [job EXCEPT ![j] = BlankJob]
    /\ task' = [task EXCEPT ![j] = BlankTask]
    /\ asked' = [asked EXCEPT ![j] = None]
    /\ told' = [told EXCEPT ![j] = None]
    /\ UNCHANGED <<app, allocated, flight, waiting>>

\* Mutant: the record stays where the temporary task had it.
MoveTaskUnbound(dsc, place) == dsc
\* task::operator=(task&&) on the stack: the bytes are copied and the copy is
\* bound to its own record.
MoveTask(dsc, place) == rebind(dsc, Address[place])

\* dml::submit, and dml::execute, which goes on to wait.
Submit(j, fields, want, mode) ==
    IF range_check(fields) # "ok"
    THEN /\ obj' = [obj EXCEPT ![j].status = range_check(fields)]
         /\ job' = [job EXCEPT ![j] = fields]
         /\ asked' = [asked EXCEPT ![j] = None]
         /\ UNCHANGED <<task, flight, waiting>>
    ELSE LET checked == clear_copy_only(fields)
             dsc == MoveTask(rebind(make_task(checked), Address[Temporary]), j)
             tasks == [task EXCEPT ![j] = [dsc |-> dsc, rec |-> Blank]]
         IN  \E s \in ml_submit(dsc, obj[j].path) :
                /\ Offered(tasks, dsc, s.taker)
                /\ job' = [job EXCEPT ![j] = checked]
                /\ obj' = [obj EXCEPT ![j].status = IF s.status = "success" THEN "ok" ELSE s.status]
                /\ asked' = [asked EXCEPT ![j] =
                        IF s.status = "success" THEN [want |-> want, path |-> obj[j].path] ELSE None]
                /\ waiting' = IF s.status = "success" /\ mode = "execute" THEN j ELSE None

\* A job that is filled in and submitted.
SubmitJob(j, mode) ==
    /\ Step /\ obj[j].status # "dead" /\ ~Running(j)
    /\ \E m \in app.requests :
        Submit(j, AsJob(m.want, m.copy_only), m.want, mode)
    /\ told' = [told EXCEPT ![j] = None]
    /\ UNCHANGED <<app, allocated>>

\* A finished job that is submitted again as it is.  A checksum that is used as
\* a seed goes on from the last result.  (create_delta wrote the size of the
\* delta over that of the buffer: it has to be filled in.)
ResubmitJob(j) ==
    /\ Step /\ obj[j].status = "ok" /\ ~Running(j)
    /\ asked[j].want.op # "create_delta"
    /\ LET want == asked[j].want
           next == IF /\ want.op \in {"crc", "copy_crc"}
                      /\ Has(specific_flags(job[j]), crc_specific_flag.read_crc_seed)
                   THEN [want EXCEPT !.arg.crc_seed = job[j].crc] ELSE want
       IN  Submit(j, job[j], next, "submit")
    /\ told' = [told EXCEPT ![j] = None]
    /\ UNCHANGED <<app, allocated>>

\* dml_wait_job
WaitJob(j) ==
    /\ Free /\ obj[j].status = "ok"
    /\ waiting' = j
    /\ UNCHANGED <<app, obj, job, task, allocated, flight, calls, asked, told>>

\* dml_check_job, when it finds the job finished.
CheckJob(j) ==
    /\ Free /\ obj[j].status = "ok" /\ Finished(j)
    /\ \E t \in Resolved(j) :
        /\ Resolve(j, t)
        /\ job' = [job EXCEPT ![j] = write_result(job[j], t.rec)]
        /\ told' = [told EXCEPT ![j] = JobAnswer(OperationOf(Task(j).dsc), job'[j], t.rec)]
    /\ UNCHANGED <<app, obj, allocated, flight, waiting, calls, asked>>

\* dml_finalize_job
FinalizeJob(j) ==
    /\ Step /\ obj[j].status # "dead" /\ ~Running(j)
    /\ obj' = [obj EXCEPT ![j] = Dead]
    /\ asked' = [asked EXCEPT ![j] = None]
    /\ told' = [told EXCEPT ![j] = None]
    /\ UNCHANGED <<app, job, task, allocated, flight, waiting>>

-----------------------------------------------------------------------------
(* The high-level API. *)

\* A buffer from the allocator.
Fresh == CHOOSE p \in Heap : p \notin allocated

\* Mutant: valid, like a handler made of a task.
DefaultValid(p) == [status |-> "ok", path |-> "software", place |-> p]
\* handler(): a task that was never bound.
DefaultHandler(p) == [status |-> "error", path |-> "software", place |-> p]

Default(h) ==
    /\ Step /\ obj[h].status = "dead"
    /\ obj' = [obj EXCEPT ![h] = DefaultHandler(Fresh)]
    /\ task' = [task EXCEPT ![Fresh] = BlankTask]
    /\ allocated' = allocated \cup {Fresh}
    /\ UNCHANGED <<app, job, flight, waiting, asked, told>>

\* Mutant: the path of the handler is left as constructed.
handler_without_path(ov, place, path, s) ==
    [place |-> place,
     path |-> "software",
     status |-> IF ov.check # "ok" THEN ov.check ELSE IF s.status = "success" THEN "ok" ELSE s.status]
\* detail::submit: the handler that it returns.
handler_of(ov, place, path, s) ==
    [place |-> place,
     path |-> IF ov.check = "ok" /\ s.status = "success" THEN path ELSE "software",
     status |-> IF ov.check # "ok" THEN ov.check ELSE IF s.status = "success" THEN "ok" ELSE s.status]

\* h = dml::submit<path>(...).  What h owned goes to the temporary, and away
\* with it.
SubmitCall(h, path) ==
    /\ Step /\ ~Running(h)
    /\ \E m \in app.requests :
        /\ LET p == Fresh
               ov == submit_overload(AsCall(m.want, m.op, m.odd))
               dsc == rebind(ov.dsc, Address[p])
               tasks == [task EXCEPT ![p] = [dsc |-> dsc, rec |-> Blank]]
           IN  \E s \in ml_submit(dsc, path) :
                /\ IF ov.check = "ok" THEN Offered(tasks, dsc, s.taker)
                   ELSE task' = tasks /\ UNCHANGED flight
                /\ obj' = [obj EXCEPT ![h] = handler_of(ov, p, path, s)]
                /\ allocated' = (allocated \cup {p}) \ {obj[h].place}
                /\ asked' = [asked EXCEPT ![h] = IF ov.check = "ok" /\ s.status = "success"
                                                 THEN [want |-> m.want, path |-> path] ELSE None]
    /\ told' = [told EXCEPT ![h] = None]
    /\ UNCHANGED <<app, job, waiting>>

Swap(f, o, p) == [f EXCEPT ![o] = f[p], ![p] = f[o]]

\* Mutant: the moved-from handler keeps its buffer.
MovedFromOwner(h) == [obj[h] EXCEPT !.status = "error"]
\* handler(handler&&): what is left of the source.
MovedFrom(h) == [obj[h] EXCEPT !.place = None, !.status = "error"]

\* handler g(std::move(h))
MoveConstruct(g, h) ==
    /\ Step /\ obj[g].status = "dead" /\ obj[h].status # "dead"
    /\ obj' = [obj EXCEPT ![g] = obj[h], ![h] = MovedFrom(h)]
    /\ asked' = Swap(asked, g, h)
    /\ told' = Swap(told, g, h)
    /\ UNCHANGED <<app, job, task, allocated, flight, waiting>>

\* g = std::move(h): status, path and task change places.
MoveAssign(g, h) ==
    /\ Step /\ g # h /\ obj[g].status # "dead" /\ obj[h].status # "dead"
    /\ obj' = Swap(obj, g, h)
    /\ asked' = Swap(asked, g, h)
    /\ told' = Swap(told, g, h)
    /\ UNCHANGED <<app, job, task, allocated, flight, waiting>>

\* ~handler()
Destroy(h) ==
    /\ Step /\ obj[h].status # "dead" /\ ~Running(h)
    /\ obj' = [obj EXCEPT ![h] = Dead]
    /\ allocated' = allocated \ {obj[h].place}
    /\ asked' = [asked EXCEPT ![h] = None]
    /\ told' = [told EXCEPT ![h] = None]
    /\ UNCHANGED <<app, job, task, flight, waiting>>

\* handler::get: an invalid handler answers at once, and has nothing to tell.
GetResult(h) ==
    /\ Free /\ obj[h].status = "ok"
    /\ waiting' = h
    /\ UNCHANGED <<app, obj, job, task, allocated, flight, calls, asked, told>>

\* handler::is_finished, where it does more than look.
IsFinished(h) ==
    /\ Free /\ obj[h].status = "ok" /\ Finished(h)
    /\ \E t \in Resolved(h) : Resolve(h, t)
    /\ UNCHANGED <<app, obj, job, allocated, flight, waiting, calls, asked, told>>

\* dml::execute<path>(...): nothing is made of a call that fails its range check,
\* and one that the device did not take is an error.
Execute(path) ==
    /\ Step
    /\ \E m \in app.requests :
        /\ LET ov == execute_overload(AsCall(m.want, m.op, m.odd))
               dsc == rebind(ov.dsc, Address[Call])
               tasks == [task EXCEPT ![Call] = [dsc |-> dsc, rec |-> Blank]]
           IN  IF ov.check # "ok"
               THEN /\ obj' = [obj EXCEPT ![Call].status = ov.check]
                    /\ asked' = [asked EXCEPT ![Call] = None]
                    /\ UNCHANGED <<task, flight, waiting>>
               ELSE \E s \in ml_submit(dsc, path) :
                    /\ Offered(tasks, dsc, s.taker)
                    /\ obj' = [obj EXCEPT ![Call] =
                            [status |-> IF s.status = "success" THEN "ok"
                                        ELSE IF validate(dsc) # "success" THEN s.status ELSE "error",
                             path |-> path, place |-> Call]]
                    /\ waiting' = IF s.status = "success" THEN Call ELSE None
                    /\ asked' = [asked EXCEPT ![Call] =
                            IF s.status = "success" THEN [want |-> m.want, path |-> path] ELSE None]
    /\ told' = [told EXCEPT ![Call] = None]
    /\ UNCHANGED <<app, job, allocated>>

-----------------------------------------------------------------------------
JobApi == app.api = "job" /\ \E j \in Jobs :
    \/ \E path \in app.paths : InitJob(j, path)
    \/ \E mode \in {"submit", "execute"} : SubmitJob(j, mode)
    \/ ResubmitJob(j) \/ WaitJob(j) \/ CheckJob(j) \/ FinalizeJob(j)

HighLevelApi == app.api = "hl" /\
    \/ \E path \in app.paths : Execute(path)
    \/ \E h \in Handlers :
        \/ \E path \in app.paths : SubmitCall(h, path)
        \/ Default(h) \/ Destroy(h) \/ GetResult(h) \/ IsFinished(h)
        \/ \E g \in Handlers : MoveConstruct(g, h) \/ MoveAssign(g, h)

Next == JobApi \/ HighLevelApi \/ Return \/ Device

\* The accelerator completes what it took, and a thread whose wait is over goes
\* on.  The application may stop calling.  (A step of Next that takes something
\* from flight is one of Device, one that ends a wait is Return, and they are
\* enabled when these are.)
Fairness ==
    /\ WF_flight(\E dsc \in flight : flight' = flight \ {dsc})
    /\ WF_waiting(waiting # None /\ Finished(waiting) /\ waiting' = None)

Spec == Init /\ [][Next]_vars /\ Fairness

-----------------------------------------------------------------------------
(* Properties. *)

\* One type invariant.  No field of a record that was written or of a job ever
\* holds a torn value.
TypeOK ==
    /\ app \in Applications
    /\ \A o \in Objects : obj[o].path \in Paths \cup {"software"}
                        /\ obj[o].place \in Places \cup {None}
    /\ \A j \in Jobs : \A f \in {"crc", "offset", "result", "destination_length", "flags"} :
            job[j][f] \in Nat
    /\ \A o \in Objects : asked[o] # None =>
            LET r == Read(asked[o].want.op, Task(o).rec) IN \A f \in DOMAIN r : r[f] \in Nat
    /\ allocated \subseteq Heap /\ waiting \in Objects \cup {None} /\ calls \in 0 .. app.calls
    /\ \A dsc \in flight : Get(dsc, any_descriptor.operation) \in Nat

\* Buffers of an operation, as <<address, length>>, whose rest is what is left
\* of them.  (Those that a DIF operation resizes are not among them: they go on
\* by the bytes of the other side, see FaultsLeaveNoTrace of Dif.)
Buffers(op) ==
    CASE op = "dualcast" ->
            {"source_address", "destination_1_address", "destination_2_address"} \X {"transfer_size"}
      [] op \in {"fill", "cache_flush"} -> {<<"destination_address", "transfer_size">>}
      [] op = "compare" -> {"source_1_address", "source_2_address"} \X {"transfer_size"}
      [] op = "create_delta" ->
            ({"source_1_address", "source_2_address"} \X {"transfer_size"})
            \cup {<<"delta_record_address", "maximum_delta_record_size">>}
      [] op = "apply_delta" -> {<<"delta_record_address", "delta_record_size">>}
      [] op \in {"crc", "compare_pattern", "dif_check", "dif_insert", "dif_strip"} ->
            {<<"source_address", "transfer_size">>}
      [] op \in {"mem_move", "copy_crc", "dif_update"} ->
            {"source_address", "destination_address"} \X {"transfer_size"}
      [] OTHER -> {}

Resized(op) == IF op \in {"dif_insert", "dif_strip"} THEN {"destination_address"} ELSE {}

\* What is left of an operation: the end of every buffer, or the begin for a move
\* that went backwards; a checksum goes on from that of the part that was done,
\* tags from those of its last block; all else is as it was.
RestOf(want, rest) ==
    LET w == want.arg
        r == rest.arg
        done == Arg(want, Extent(want.op)) - Arg(rest, Extent(want.op))
        ends(b) == r[b[1]] + r[b[2]] = w[b[1]] + w[b[2]]
        begins(b) == r[b[1]] = w[b[1]]
    IN  /\ rest.op = want.op /\ rest.flags = want.flags /\ DOMAIN r = DOMAIN w
        /\ done >= 0
        /\ \A b \in Buffers(want.op) : r[b[2]] \in 0 .. w[b[2]]
        /\ \/ \A b \in Buffers(want.op) : ends(b)
           \/ want.op = "mem_move" /\ \A b \in Buffers(want.op) : begins(b)
        /\ want.op \in {"crc", "copy_crc"} =>
                r.crc_seed = Checksum(w.crc_seed, w.source_address, done)
        /\ \A n \in DOMAIN w \cap TagFields : r[n] = TagAfter(want, n, done)
        /\ \A n \in DOMAIN w \ ({b[1] : b \in Buffers(want.op)} \cup {b[2] : b \in Buffers(want.op)}
                                 \cup Resized(want.op) \cup TagFields \cup {"crc_seed"}) :
                r[n] = w[n]

\* What kernels and accelerator read through their views of an accepted
\* descriptor is what the caller asked for: by either API, in a job that was
\* used before, with every argument in its field and no flag added or lost; and
\* after a page fault that the automatic path resolved, exactly the rest of it.
ExecutedAsAsked == \A o \in Objects :
    asked[o] # None =>
        LET seen == Seen(Task(o).dsc)
            rec == Task(o).rec
            over == Get(rec, any_completion_record.status) # 0 /\ ~Faulted(rec)
        IN  IF asked[o].path = "automatic" /\ over
            THEN RestOf(asked[o].want, seen)
            ELSE seen = asked[o].want

\* The accelerator only ever writes into the record of an object that stands
\* for the operation it executes, wherever the handler was moved meanwhile, and
\* neither device into a temporary, a buffer that was freed or one that was
\* used again.
NoStrayWrite ==
    /\ task[Temporary].rec = Blank
    /\ \A dsc \in flight : \E o \in Objects :
        /\ obj[o].status = "ok"
        /\ Named(dsc) = {obj[o].place}
        /\ Task(o).dsc = dsc

\* Handlers own different buffers, and every buffer in use is owned: none is
\* freed twice or leaked by moves, assignments and refused calls.
BuffersOwnedOnce ==
    /\ \A g, h \in Handlers : g # h /\ obj[g].place # None => obj[g].place # obj[h].place
    /\ allocated = {obj[h].place : h \in Handlers} \ {None}

\* A thread only waits for a record that is bound to the task it waits for and
\* that was written or will be: never through a null address, and never for an
\* operation that nobody executes.
WaitsOnOwnRecord ==
    waiting # None =>
        /\ Named(Task(waiting).dsc) = {obj[waiting].place}
        /\ Get(Task(waiting).rec, any_completion_record.status) # 0 \/ Running(waiting)

\* The bytes that an operation whose buffers are checked reads and writes, from
\* what it does to them: ranges <<first, length>>.  (The check of an insertion
\* whose destination has no 32-bit size is no check; a memory copy of the
\* high-level API is a move to everyone below it, and is not checked.)
Ranges(want) ==
    LET a == want.arg
        n == a.transfer_size
        block == DifBlockSize(a.dif_flags)
    IN  CASE want.op = "dualcast" ->
                <<<<a.source_address, n>>, <<a.destination_1_address, n>>,
                  <<a.destination_2_address, n>>>>
          [] want.op = "copy_crc" -> <<<<a.source_address, n>>, <<a.destination_address, n>>>>
          [] want.op = "apply_delta" ->
                <<<<a.delta_record_address, a.delta_record_size>>, <<a.destination_address, n>>>>
          [] want.op = "dif_insert" /\ (n \div block) * (block + 8) < SizeRange ->
                <<<<a.source_address, n>>, <<a.destination_address, (n \div block) * (block + 8)>>>>
          [] want.op = "dif_strip" ->
                <<<<a.source_address, n>>, <<a.destination_address, (n \div (block + 8)) * block>>>>
          [] want.op = "dif_update" -> <<<<a.source_address, n>>, <<a.destination_address, n>>>>
          [] OTHER -> <<>>

\* An accepted operation of those whose buffers validation keeps apart (dualcast,
\* CRC with copy, Apply Delta, DIF Insert, Strip and Update) has them apart, by
\* the bytes it really reads and writes and not by the sizes in the checks.
AcceptedBuffersDisjoint == \A o \in Objects :
    asked[o] # None =>
        LET r == Ranges(asked[o].want)
        IN  \A i, k \in DOMAIN r :
                i < k => r[i][1] + r[i][2] <= r[k][1] \/ r[k][1] + r[k][2] <= r[i][1]

\* A wait for an operation that was accepted ends: the accelerator completes
\* what it took, and whatever it reports counts as finished.
WaitEnds == waiting # None ~> waiting = None

\* What applications wish, and the checksums among it that have a seed, which
\* may go on from any other.
Wants == {m.want : m \in UNION {a.requests : a \in Applications}}
Crcs == {w \in Wants : w.op \in {"crc", "copy_crc"} /\ w.arg.crc_seed # 0}
Wishes == Wants \cup {[w EXCEPT !.arg.crc_seed = seed] : w \in Crcs, seed \in 0 .. CrcRange - 1}
Requests == [want : Wishes, path : Paths]

\* The parts of an outcome that some API shows.
Parts(op) == {"status"} \cup DOMAIN JobParts(op) \cup ResultParts(op)
Visible(op, r) ==
    [n \in Parts(op) |-> IF n = "status" THEN to_own_status(r.status % 64) ELSE r[n]]

\* An outcome that is not final for the path is not yet one.
OutcomeNow(o) ==
    IF asked[o] = None THEN None
    ELSE IF \/ Get(Task(o).rec, any_completion_record.status) = 0
            \/ asked[o].path = "automatic" /\ Faulted(Task(o).rec)
    THEN Pending
    ELSE Visible(asked[o].want.op, Read(asked[o].want.op, Task(o).rec))

\* How an operation may end if it is executed, in one piece or in two.  After a
\* page fault the offset of a difference is not that of the first, a delta may
\* be called equal that is not empty, and the bytes that were done before the
\* fault count twice where the kernel does not count.
Ends(want, twice) ==
    LET op == want.op
        n == Arg(want, "transfer_size")
    IN  CASE op \in {"compare", "compare_pattern"} ->
                {x \in [status : {"ok", "false_predicate"}, result : {0, 1}, bytes_completed : 0 .. n] :
                    /\ x.status = to_own_status(CompareStatus(want, x.result))
                    /\ x.result = 1 => x.bytes_completed < n}
          [] op = "create_delta" ->
                {x \in [status : {"ok", "false_predicate"}, result : {0, 1, 2},
                        bytes_completed : 0 .. 2 * n,
                        delta_record_size : {k \in 0 .. want.arg.maximum_delta_record_size : k % 10 = 0}] :
                    /\ x.status = to_own_status(DeltaStatus(want, x.result))
                    /\ x.delta_record_size \div 10 <= n \div 8
                    /\ x.result = 0 => x.delta_record_size = 0 \/ twice
                    /\ x.result = 1 => x.delta_record_size > 0
                    /\ x.result = 2 => x.delta_record_size = want.arg.maximum_delta_record_size}
          [] op \in {"crc", "copy_crc"} ->
                {[status |-> "ok",
                  crc_value |-> Checksum(want.arg.crc_seed, want.arg.source_address, n)]}
          [] op \in {"dif_check", "dif_strip", "dif_update"} ->
                {x \in [status : {"ok", "error"}, result : {0} \cup DifFaults,
                        bytes_completed : {k * SourceStep(want) : k \in 0 .. n \div SourceStep(want)}] :
                    /\ x.status = "ok" <=> x.result = 0
                    /\ x.status = "error" => x.bytes_completed < n}
          [] op = "dif_insert" ->
                [status : {"ok"},
                 bytes_completed : {k * SourceStep(want) : k \in 0 .. n \div SourceStep(want)}]
          [] op = "batch" ->
                {x \in [status : {"ok", "error"}, bytes_completed : 0 .. want.arg.descriptors_count] :
                    x.status = "ok" <=> x.bytes_completed = want.arg.descriptors_count}
          [] op = "mem_move" -> [status : {"ok"}, result : {0, 1}]
          [] OTHER -> [status : {"ok"}]

\* Only the hardware path leaves a page fault to the caller.
Possible(r) ==
    Ends(r.want, r.path = "automatic")
    \cup (IF r.path = "software" THEN {} ELSE {Visible(r.want.op, Breakdown(r.want))})
    \cup (IF r.path = "hardware" THEN {Visible(r.want.op, x) : x \in Faults(r.want)} ELSE {})

\* None is no request and no answer, and Pending no outcome.
ASSUME MarkAssumption == \A r \in Requests :
    /\ r # None
    /\ \A x \in Possible(r) :
        x # Pending /\ \A parts \in SUBSET DOMAIN x : [n \in parts |-> x[n]] # None

\* Jobs, handlers and blocking calls implement the promise of Operation: one
\* outcome per operation, the same for every question and wherever the handler
\* is moved, and answers that are parts of it.
Promise == INSTANCE Operation WITH
    asked <- asked, outcome <- [o \in Objects |-> OutcomeNow(o)], answer <- told
OperationSpec == Promise!Spec
=============================================================================
