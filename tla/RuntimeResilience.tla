--------------------------- MODULE RuntimeResilience ---------------------------
(***************************************************************************)
(* The bulkheads of agents/runtime_resilience.py: AsyncBulkhead.slot, a    *)
(* semaphore of asyncio that is waited for without limit (queue=True, the  *)
(* HTTP middleware) or for acquire_timeout (calls to other services).      *)
(*                                                                         *)
(* The semaphore is the one of Python 3.13, the image's interpreter: a     *)
(* release hands its permit to the first waiter, whose task runs later; a  *)
(* timeout or a client that goes away cancels the task in the meantime.    *)
(***************************************************************************)
EXTENDS Integers, Sequences, SequencesExt, FiniteSets

CONSTANTS
    Visitors,    \* coroutines that want a slot, again and again
    SlotLimit    \* limit

ASSUME SlotLimitAssumption == SlotLimit \in Nat \ {0}

VARIABLES
    permits,   \* _sem._value
    queue,     \* _sem._waiters, in order
    handed,    \* waiters whose future has its result
    leaving,   \* waiters whose task is cancelled and has not run yet
    inside     \* coroutines in the body of slot

slotVars == <<permits, queue, handed, leaving, inside>>

Queued == Range(queue)
InFlight == Cardinality(inside)

\* locked(): a waiter that is not cancelled comes first, also one that has its
\* permit already.
Locked == permits = 0 \/ \E r \in Queued : r \notin leaving \/ r \in handed

-----------------------------------------------------------------------------
\* The places of the waiters whose future is open, and the first n places.
Unserved(waiters, given) == {i \in DOMAIN waiters : waiters[i] \notin given \cup leaving}
FirstOf(n, places) == {i \in places : Cardinality({j \in places : j < i}) < n}

\* Mutant: a task that is done with waiting wakes nobody.
WakesNone(waiters, free, given) == permits' = free /\ handed' = given
\* As many as there are permits: the loop at the end of acquire.
Wakes(waiters, free, given) ==
    LET woken == FirstOf(free, Unserved(waiters, given))
    IN /\ permits' = free - Cardinality(woken)
       /\ handed' = given \cup {waiters[i] : i \in woken}

\* The waiter is taken out of the queue.
Without(r) == RemoveAt(queue, CHOOSE i \in DOMAIN queue : queue[i] = r)

Come(r) ==
    /\ r \notin Queued \cup inside
    /\ \/ /\ ~Locked
          /\ permits' = permits - 1 /\ inside' = inside \cup {r}
          /\ UNCHANGED queue
       \/ /\ Locked
          /\ queue' = Append(queue, r)
          /\ UNCHANGED <<permits, inside>>
    /\ UNCHANGED <<handed, leaving>>

\* The task runs with its permit.
Admitted(r) ==
    /\ r \in Queued \cap handed /\ r \notin leaving
    /\ queue' = Without(r)
    /\ inside' = inside \cup {r}
    /\ Wakes(queue', permits, handed \ {r})
    /\ UNCHANGED leaving

\* acquire_timeout of a call that is not queued, or a client that goes away:
\* the task is cancelled, with or without a permit.
Abandoned(r) ==
    /\ r \in Queued \ leaving
    /\ leaving' = leaving \cup {r}
    /\ UNCHANGED <<permits, queue, handed, inside>>

\* Mutant: the permit of a cancelled waiter is gone.
RejectedWithPermit(r) ==
    /\ r \in Queued \cap leaving
    /\ queue' = Without(r)
    /\ leaving' = leaving \ {r}
    /\ Wakes(queue', permits, handed \ {r})
    /\ UNCHANGED inside

\* The cancelled task runs: it gives back a permit it was handed, and wakes
\* who is next.
Rejected(r) ==
    /\ r \in Queued \cap leaving
    /\ queue' = Without(r)
    /\ leaving' = leaving \ {r}
    /\ Wakes(queue', IF r \in handed THEN permits + 1 ELSE permits, handed \ {r})
    /\ UNCHANGED inside

\* The finally clause around the body: release() wakes one.
Done(r) ==
    /\ r \in inside
    /\ inside' = inside \ {r}
    /\ LET open == Unserved(queue, handed) IN
       IF open = {} THEN permits' = permits + 1 /\ UNCHANGED handed
                    ELSE handed' = handed \cup {queue[Min(open)]} /\ UNCHANGED permits
    /\ UNCHANGED <<queue, leaving>>

SlotsInit ==
    /\ permits = SlotLimit
    /\ queue = <<>> /\ handed = {} /\ leaving = {} /\ inside = {}

SlotsNext ==
    \E r \in Visitors :
        \/ Come(r) \/ Admitted(r) \/ Abandoned(r) \/ Rejected(r) \/ Done(r)

\* The event loop runs what is ready, and bodies end: every call in them has a
\* timeout of its own.
TaskRuns(r) == Admitted(r) \/ Rejected(r)
SlotsFairness ==
    \A r \in Visitors : WF_slotVars(TaskRuns(r)) /\ WF_slotVars(Done(r))
SlotsSpec == SlotsInit /\ [][SlotsNext]_slotVars /\ SlotsFairness

-----------------------------------------------------------------------------
SlotsTypeOK ==
    /\ permits \in 0 .. SlotLimit
    /\ queue \in Seq(Visitors) /\ Cardinality(Queued) = Len(queue)
    /\ handed \subseteq Queued /\ leaving \subseteq Queued
    /\ inside \subseteq Visitors \ Queued

(* No permit is lost or made, whichever of the release, the timeout and the *)
(* cancelled client comes first.                                            *)
PermitsAddUp == permits + Cardinality(handed) + InFlight = SlotLimit

(* A free permit lies idle before an open waiter only while a task is about *)
(* to run that will hand it on.                                             *)
NoPermitIdles ==
    permits > 0 /\ Unserved(queue, handed) # {} => handed \cup leaving # {}

(* Whoever waits gets in or gives up, however many come after it: a request *)
(* of the console is delayed and not refused.                               *)
QueuedAreAdmitted ==
    \A r \in Visitors : r \in Queued ~> r \in inside \cup leaving

(* The three of them.                                                       *)
BulkheadIsSound == [](PermitsAddUp /\ NoPermitIdles) /\ QueuedAreAdmitted
=============================================================================
