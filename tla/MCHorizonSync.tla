--------------------------- MODULE MCHorizonSync ---------------------------
(* Small instances of HorizonSync: the select requests of each run.          *)
EXTENDS HorizonSync, TLC

CONSTANTS t1, t2, t3, e, m, s, c

WaitAny(o)  == [NoRequest EXCEPT !.objs = o, !.timeout = "never", !.direct = TRUE]
WaitAll(o)  == [WaitAny(o) EXCEPT !.all = TRUE]
Pipe(r) == [r EXCEPT !.direct = FALSE]
Alertable(r)  == [r EXCEPT !.alertable = TRUE]
Bounded(r) == [r EXCEPT !.timeout = "finite"]
Poll(r) == [r EXCEPT !.timeout = "zero"]
Then(o, r) == [r EXCEPT !.signal = o]
Registers  == [NoRequest EXCEPT !.context = TRUE]

\* A mutex, an event and a timer: wait-any, wait-all, with a deadline, pipe and direct.
LockRequests == {Pipe(WaitAny(<<m>>)), WaitAll(<<m, e>>), Bounded(WaitAny(<<c, m>>))}

\* A semaphore, a mutex and a thread to join: alertable and bounded waits,
\* signal-and-wait, wait-all, a poll, and a call that only carries registers.
CallRequests == {Alertable(Bounded(WaitAny(<<s>>))), Then(m, WaitAny(<<s>>)), WaitAll(<<m, s>>),
                 Poll(Pipe(WaitAny(<<t2, s>>))), Registers}

\* A run that names no thread in a request may swap threads.
Symmetry == Permutations(Threads)

=============================================================================
