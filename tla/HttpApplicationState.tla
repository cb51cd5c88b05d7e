------------------------- MODULE HttpApplicationState -------------------------
(***************************************************************************)
(* The state that the instances of HttpApplication share, as its users see *)
(* it through its lock.  The values are left out: an operation enters and  *)
(* exits the lock around a single access, and Lock and UnLock are the      *)
(* user's own.  The lock is a ReaderWriterLockSlim without recursion, and  *)
(* belongs to a thread.                                                    *)
(***************************************************************************)

CONSTANTS Threads, Nobody

VARIABLE writer     \* the thread that called Lock

StateTypeOK == writer \in Threads \cup {Nobody}

StateInit == writer = Nobody

\* A call waits while another thread is the writer.
Lock(t) == writer = Nobody /\ writer' = t

\* A thread that has the lock gets a LockRecursionException from Lock, and from
\* every other operation.
Refused(t) == writer = t /\ UNCHANGED writer

\* Count, Get, Set, Add, Remove, Clear, AllKeys: entered and exited at once.
Access(t) == writer = Nobody /\ UNCHANGED writer

\* A thread that does not have the lock gets a SynchronizationLockException.
UnLock(t) == writer' = IF writer = t THEN Nobody ELSE writer

=============================================================================
