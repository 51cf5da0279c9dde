----------------------------- MODULE EventLoop -----------------------------
(***************************************************************************)
(* The runtime under the TypeScript implementation: one thread, and one    *)
(* first-in first-out queue of microtasks.  The code of a macrotask (a     *)
(* request, a signal, a timer) runs to its end; then the queue is emptied, *)
(* and what the jobs themselves add is run before the next macrotask.      *)
(* An await of a settled promise is one such job, whatever is awaited.     *)
(***************************************************************************)
EXTENDS Naturals, Sequences

VARIABLES
    jobs,       \* the microtask queue: who continues, and where
    turn        \* "script" in a macrotask's own code, "drain" in the jobs

loopVars == <<jobs, turn>>

Job(label, who) == [at |-> label, of |-> who]

LoopInit == jobs = <<>> /\ turn = "script"

\* The macrotask's code does something that leaves the jobs js to run.
Script(js) ==
    /\ turn = "script"
    /\ jobs' = jobs \o js
    /\ UNCHANGED turn

\* The next job of the queue is run, and leaves the jobs js to run.
RunJob(job, js) ==
    /\ jobs # <<>>
    /\ Head(jobs) = job
    /\ jobs' = Tail(jobs) \o js
    /\ turn' = IF jobs' = <<>> THEN "script" ELSE "drain"

\* Nobody is in the middle of what who called.
Idle(who) == \A i \in DOMAIN jobs : jobs[i].of # who

=============================================================================
