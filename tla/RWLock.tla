------------------------------- MODULE RWLock -------------------------------
(***************************************************************************)
(* Go's sync.RWMutex, the lock of pkg/jwks/client.go (external, modelled   *)
(* from its documentation and its use).  Writers queue in order; once one  *)
(* is announced, new readers wait behind it, and an unlock lets all the    *)
(* readers that wait in before the next writer.                            *)
(***************************************************************************)
EXTENDS Sequences

CONSTANT Caller

VARIABLES
  readers,   \* callers that hold the read lock
  waiting,   \* callers blocked in RLock behind a writer
  writers    \* callers in Lock, in order; the first one is announced

lock == <<readers, waiting, writers>>

LockTypeOK ==
  /\ readers \in SUBSET Caller
  /\ waiting \in SUBSET Caller
  /\ writers \in Seq(Caller)

LockInit == readers = {} /\ waiting = {} /\ writers = <<>>

Reads(c) == c \in readers
Writes(c) == readers = {} /\ writers # <<>> /\ Head(writers) = c

RLock(c) ==
  IF writers = <<>>
    THEN readers' = readers \cup {c} /\ UNCHANGED <<waiting, writers>>
    ELSE waiting' = waiting \cup {c} /\ UNCHANGED <<readers, writers>>

RUnlock(c) == readers' = readers \ {c} /\ UNCHANGED <<waiting, writers>>

Lock(c) == writers' = Append(writers, c) /\ UNCHANGED <<readers, waiting>>

Unlock(c) ==
  /\ writers' = IF writers # <<>> /\ Head(writers) = c THEN Tail(writers)
                ELSE writers
  /\ readers' = readers \cup waiting
  /\ waiting' = {}
=============================================================================
