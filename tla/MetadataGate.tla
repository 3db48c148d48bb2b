----------------------------- MODULE MetadataGate -----------------------------
(***************************************************************************)
(* The reader/writer gate of engine/transactions/gate.py, by itself.       *)
(*                                                                         *)
(* Prepare and list calls read; CREATE writes.  The condition protects     *)
(* _readers, _writer and _waiting_writers; the sets here hold the threads  *)
(* that are counted.  A thread that has called read() or write() and is    *)
(* not through yet is in one of the waiting sets.                          *)
(***************************************************************************)
CONSTANT Threads

VARIABLES reading,        \* counted in _readers
          writing,        \* _writer, with the thread that set it
          waitingReaders, \* in the wait loop of read, counted nowhere
          waitingWriters  \* counted in _waiting_writers

vars == <<reading, writing, waitingReaders, waitingWriters>>

TypeOK ==
    /\ reading \subseteq Threads
    /\ writing \subseteq Threads
    /\ waitingReaders \subseteq Threads
    /\ waitingWriters \subseteq Threads

Init ==
    /\ reading = {}
    /\ writing = {}
    /\ waitingReaders = {}
    /\ waitingWriters = {}

Outside(t) == t \notin reading \union writing \union waitingReaders \union waitingWriters

CallRead(t) ==
    /\ Outside(t)
    /\ waitingReaders' = waitingReaders \union {t}
    /\ UNCHANGED <<reading, writing, waitingWriters>>

\* Fault: a reader waits for the writer inside, not for those at the door.
EnterReadPastWaiting(t) ==
    /\ t \in waitingReaders
    /\ writing = {}
    /\ waitingReaders' = waitingReaders \ {t}
    /\ reading' = reading \union {t}
    /\ UNCHANGED <<writing, waitingWriters>>

\* The loop of read ends: nobody writes, and nobody waits to write.
EnterRead(t) ==
    /\ t \in waitingReaders
    /\ writing = {}
    /\ waitingWriters = {}
    /\ waitingReaders' = waitingReaders \ {t}
    /\ reading' = reading \union {t}
    /\ UNCHANGED <<writing, waitingWriters>>

LeaveRead(t) ==
    /\ t \in reading
    /\ reading' = reading \ {t}
    /\ UNCHANGED <<writing, waitingReaders, waitingWriters>>

CallWrite(t) ==
    /\ Outside(t)
    /\ waitingWriters' = waitingWriters \union {t}
    /\ UNCHANGED <<reading, writing, waitingReaders>>

\* Fault: a writer does not wait for the readers inside.
EnterWritePastReaders(t) ==
    /\ t \in waitingWriters
    /\ writing = {}
    /\ waitingWriters' = waitingWriters \ {t}
    /\ writing' = {t}
    /\ UNCHANGED <<reading, waitingReaders>>

\* The loop of write ends, and the thread is no longer counted as waiting.
EnterWrite(t) ==
    /\ t \in waitingWriters
    /\ writing = {}
    /\ reading = {}
    /\ waitingWriters' = waitingWriters \ {t}
    /\ writing' = {t}
    /\ UNCHANGED <<reading, waitingReaders>>

LeaveWrite(t) ==
    /\ t \in writing
    /\ writing' = writing \ {t}
    /\ UNCHANGED <<reading, waitingReaders, waitingWriters>>

-----------------------------------------------------------------------------
\* Several readers or one writer: what keeps a prepare or a list call from
\* seeing CREATE's registries half published (gate.py:11-18).
Exclusion ==
    /\ writing # {} => reading = {}
    /\ \A t, u \in writing : t = u
=============================================================================
