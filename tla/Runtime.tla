------------------------------- MODULE Runtime -------------------------------
(***************************************************************************)
(* Who may write to a store file (hotmem/mount.py: StoreLock;              *)
(* hotmem/runtime.py: open, close, _require_db, _write_slot; hotmem/cli.py *)
(* and mcp_server.py as its users).                                        *)
(*                                                                         *)
(* A user is one StoreLock handle of one process and what it guards: a     *)
(* runtime with its writer threads, or an offline command that writes by   *)
(* itself.  Strays are the commands that open the store without the lock.  *)
(* There is one store file.  Threads that open and close one runtime do so *)
(* one after the other, as the server's lifespan does, and requests arrive *)
(* once open() has returned.                                               *)
(***************************************************************************)
EXTENDS Naturals, FiniteSets

CONSTANTS
  Processes, Runtimes, Commands, Strays, Writers,
  ProcOf,       \* the process of a user
  RuntimeOf,    \* the runtime a writer thread belongs to
  Careless,     \* commands that close on the errors they expect only
  Importers,    \* writers that commit twice: rows, then the import event
  Conns,        \* names for SQLite connections, used again once forgotten
  Eager,        \* users that keep trying to become the owner
  SplitHandles, \* the OS lock does not exclude handles of the same process
  None

Users == Runtimes \cup Commands \cup Strays
Actors == Writers \cup Commands \cup Strays

ASSUME RuntimeAssumption ==
  /\ ProcOf \in [Users -> Processes]
  /\ RuntimeOf \in [Writers -> Runtimes]
  /\ Importers \subseteq Writers
  /\ Careless \subseteq Commands
  /\ Eager \subseteq Users
  /\ Strays \cap (Runtimes \cup Commands) = {}
  /\ Runtimes \cap Commands = {}
  /\ Writers \cap (Commands \cup Strays) = {}
  /\ SplitHandles \in BOOLEAN
  /\ None \notin Writers \cup Conns \cup Processes

VARIABLES
  pc,      \* how far a user is with open() or close()
  flock,   \* users whose file descriptor has the OS lock
  held,    \* _HELD_LOCKS has the store: a set per process
  owner,   \* the process the lock file names
  db,      \* a user's connection (self.db)
  conns,   \* the write connections that are open
  pending, \* on each connection, the actors with an uncommitted statement
  at,      \* how far an actor is with a write
  using,   \* the connection an actor took from _require_db
  slot,    \* the thread that has a runtime's _write_lock
  row      \* history: what the store has of an actor's last write

vars == <<pc, flock, held, owner, db, conns, pending, at, using, slot, row>>

Phase == {"down", "checked", "locked", "owned", "open", "closing", "closed", "unlocked"}

\* The phases in which _fd is set or the OS lock is on its way back.
Owning == {"owned", "open", "closing", "closed"}

RuntimeTypeOK ==
  /\ pc \in [Users -> Phase]
  /\ flock \subseteq Users
  /\ held \in [Processes -> BOOLEAN]
  /\ owner \in Processes \cup {None}
  /\ db \in [Users -> Conns \cup {None}]
  /\ conns \subseteq Conns
  /\ pending \in [Conns -> SUBSET Actors]
  /\ at \in [Actors -> {"idle", "waiting", "first", "second"}]
  /\ using \in [Actors -> Conns \cup {None}]
  /\ \A a \in Actors : (using[a] = None) = (at[a] = "idle")
  /\ slot \in [Runtimes -> Writers \cup {None}]
  /\ row \in [Actors -> {"none", "half", "whole"}]

Init ==
  /\ pc = [u \in Users |-> "down"]
  /\ flock = {}
  /\ held = [p \in Processes |-> FALSE]
  /\ owner = None
  /\ db = [u \in Users |-> None]
  /\ conns = {}
  /\ pending = [c \in Conns |-> {}]
  /\ at = [a \in Actors |-> "idle"]
  /\ using = [a \in Actors |-> None]
  /\ slot = [r \in Runtimes |-> None]
  /\ row = [a \in Actors |-> "none"]

Move(u, from, to) ==
  /\ pc[u] = from
  /\ pc' = [pc EXCEPT ![u] = to]

lockVars == <<flock, held, owner>>
connVars == <<db, conns, pending>>
writeVars == <<at, using, slot, row>>

-----------------------------------------------------------------------------
(* StoreLock.acquire                                                       *)

CheckHeld(u) ==
  /\ u \notin Strays /\ db[u] = None
  /\ ~held[ProcOf[u]]
  /\ Move(u, "down", "checked")
  /\ UNCHANGED <<lockVars, connVars, writeVars>>

\* Mutant: the lock file is believed instead of the lock.
Grants_PidFile(u) == flock = {} /\ owner \in {None, ProcOf[u]}

\* What fcntl.flock(LOCK_EX | LOCK_NB) answers a new descriptor of u.
Grants(u) == \A v \in flock : SplitHandles /\ ProcOf[v] = ProcOf[u]

TryLock(u) ==
  /\ \/ Grants(u) /\ Move(u, "checked", "locked") /\ flock' = flock \cup {u}
     \/ ~Grants(u) /\ Move(u, "checked", "down") /\ flock' = flock
  /\ UNCHANGED <<held, owner, connVars, writeVars>>

\* Mutant: an owner that is named already stays.
Stamp_OnlyIfEmpty(u) ==
  /\ Move(u, "locked", "owned")
  /\ owner' = IF owner = None THEN ProcOf[u] ELSE owner
  /\ held' = [held EXCEPT ![ProcOf[u]] = TRUE]
  /\ UNCHANGED <<flock, connVars, writeVars>>

Stamp(u) ==
  /\ Move(u, "locked", "owned")
  /\ owner' = ProcOf[u]
  /\ held' = [held EXCEPT ![ProcOf[u]] = TRUE]
  /\ UNCHANGED <<flock, connVars, writeVars>>

\* Writing the payload fails (a full disk).  _fd is not set yet: nothing
\* closes the descriptor, and its lock lives as long as the process.
StampFails(u) ==
  /\ Move(u, "locked", "down")
  /\ owner' \in {owner, None}
  /\ UNCHANGED <<flock, held, connVars, writeVars>>

(* StoreLock.release                                                       *)

Unlock(u) ==
  /\ Move(u, "closed", "unlocked")
  /\ flock' = flock \ {u}
  /\ UNCHANGED <<held, owner, connVars, writeVars>>

Unregister(u) ==
  /\ Move(u, "unlocked", "down")
  /\ held' = [held EXCEPT ![ProcOf[u]] = FALSE]
  /\ UNCHANGED <<flock, owner, connVars, writeVars>>

-----------------------------------------------------------------------------
(* open() and close(), and the commands' way through store_ownership       *)

\* Connections nobody has or remembers.
Unused == Conns \ (conns \cup {using[a] : a \in Actors})

Connect(u) ==
  /\ Move(u, IF u \in Strays THEN "down" ELSE "owned", "open")
  /\ Unused # {}
  /\ LET c == CHOOSE x \in Unused : TRUE
     IN  /\ conns' = conns \cup {c}
         /\ db' = [db EXCEPT ![u] = c]
  /\ UNCHANGED <<lockVars, pending, writeVars>>

\* open() fails before it has a connection; ensure_store_available().
LetGo(u) ==
  /\ Move(u, "owned", "closed")
  /\ UNCHANGED <<lockVars, connVars, writeVars>>

\* Mutant: an error of the vector index ends close() before the connection
\* is closed, and the lock is released all the same.
CloseBegins_Escapes(u) ==
  /\ u \notin Runtimes => at[u] = "idle"
  /\ Move(u, "open", "closed")
  /\ UNCHANGED <<lockVars, connVars, writeVars>>

\* close() sets _closed and does not wait for the write slot.  A command
\* closes when its own write is over, a failed open() before any.
CloseBegins(u) ==
  /\ u \notin Runtimes => at[u] = "idle"
  /\ Move(u, "open", "closing")
  /\ UNCHANGED <<lockVars, connVars, writeVars>>

CloseDb(u) ==
  /\ Move(u, "closing", IF u \in Strays THEN "down" ELSE "closed")
  /\ conns' = conns \ {db[u]}
  /\ pending' = [pending EXCEPT ![db[u]] = {}]
  /\ db' = [db EXCEPT ![u] = None]
  /\ UNCHANGED <<lockVars, writeVars>>

-----------------------------------------------------------------------------
(* Writes                                                                  *)

\* _write_slot: _require_db comes before the wait for the lock.
Request(w) ==
  /\ at[w] = "idle"
  /\ pc[RuntimeOf[w]] = "open"
  /\ at' = [at EXCEPT ![w] = "waiting"]
  /\ using' = [using EXCEPT ![w] = db[RuntimeOf[w]]]
  /\ row' = [row EXCEPT ![w] = "none"]
  /\ UNCHANGED <<pc, lockVars, connVars, slot>>

Busy(w) ==
  /\ at[w] = "waiting"
  /\ slot[RuntimeOf[w]] # None
  /\ at' = [at EXCEPT ![w] = "idle"]
  /\ using' = [using EXCEPT ![w] = None]
  /\ UNCHANGED <<pc, lockVars, connVars, slot, row>>

Enter(w) ==
  /\ at[w] = "waiting"
  /\ slot[RuntimeOf[w]] = None
  /\ slot' = [slot EXCEPT ![RuntimeOf[w]] = w]
  /\ at' = [at EXCEPT ![w] = "first"]
  /\ UNCHANGED <<pc, lockVars, connVars, using, row>>

CommandBegins(u) ==
  /\ at[u] = "idle"
  /\ pc[u] = "open"
  /\ at' = [at EXCEPT ![u] = "first"]
  /\ using' = [using EXCEPT ![u] = db[u]]
  /\ row' = [row EXCEPT ![u] = "none"]
  /\ UNCHANGED <<pc, lockVars, connVars, slot>>

\* SQLite executes a writing statement: the connection is open, and no other
\* connection is in a write transaction.
Writable(a) ==
  /\ using[a] \in conns
  /\ \A c \in conns \ {using[a]} : pending[c] = {}

\* A commit makes durable whatever its connection has pending.
Flushed(c) ==
  [x \in Actors |-> IF x \in pending[c] THEN "half" ELSE row[x]]

First(a) ==
  /\ at[a] = "first"
  /\ Writable(a)
  /\ at' = [at EXCEPT ![a] = "second"]
  /\ IF a \in Importers
       THEN /\ row' = [Flushed(using[a]) EXCEPT ![a] = "half"]
            /\ pending' = [pending EXCEPT ![using[a]] = {}]
       ELSE /\ pending' = [pending EXCEPT ![using[a]] = @ \cup {a}]
            /\ row' = row
  /\ UNCHANGED <<pc, lockVars, db, conns, using, slot>>

\* The write is over: the actor leaves the slot, if it had one.
Leave(a) ==
  /\ at' = [at EXCEPT ![a] = "idle"]
  /\ using' = [using EXCEPT ![a] = None]
  /\ slot' = [r \in Runtimes |-> IF slot[r] = a THEN None ELSE slot[r]]

Second(a) ==
  /\ at[a] = "second"
  /\ Writable(a)
  /\ row' = [Flushed(using[a]) EXCEPT ![a] =
               IF a \in pending[using[a]] \cup Importers THEN "whole" ELSE "half"]
  /\ pending' = [pending EXCEPT ![using[a]] = {}]
  /\ Leave(a)
  /\ UNCHANGED <<pc, lockVars, db, conns>>

\* Mutants: no rollback; the slot is not in a finally.
Fail_NoRollback(w) ==
  /\ at[w] \in {"first", "second"}
  /\ Leave(w)
  /\ UNCHANGED <<pc, lockVars, connVars, row>>
Fail_KeepsSlot(w) ==
  /\ at[w] \in {"first", "second"}
  /\ pending' = [pending EXCEPT ![using[w]] = {}]
  /\ at' = [at EXCEPT ![w] = "idle"]
  /\ using' = [using EXCEPT ![w] = None]
  /\ UNCHANGED <<pc, lockVars, db, conns, slot, row>>

\* An exception at any point: rollback, on a closed connection to no effect.
Fail(w) ==
  /\ at[w] \in {"first", "second"}
  /\ pending' = [pending EXCEPT ![using[w]] = {}]
  /\ Leave(w)
  /\ UNCHANGED <<pc, lockVars, db, conns, row>>

\* A command does not go on after an exception.  A careless one gives the
\* lock back and keeps its connection until the process exits.
CommandFails(u) ==
  /\ at[u] \in {"first", "second"}
  /\ Move(u, "open", IF u \in Careless THEN "closed" ELSE "closing")
  /\ Leave(u)
  /\ UNCHANGED <<lockVars, connVars, row>>

-----------------------------------------------------------------------------
HomeOf(a) == IF a \in Writers THEN RuntimeOf[a] ELSE a

\* The process is killed: the OS frees its locks, SQLite rolls back.
Crash(p) ==
  LET mine == {u \in Users : ProcOf[u] = p}
      lost == {db[u] : u \in mine}
      dead == {a \in Actors : HomeOf(a) \in mine}
  IN /\ pc' = [u \in Users |-> IF u \in mine THEN "down" ELSE pc[u]]
     /\ flock' = flock \ mine
     /\ held' = [held EXCEPT ![p] = FALSE]
     /\ conns' = conns \ lost
     /\ pending' = [c \in Conns |-> IF c \in lost THEN {} ELSE pending[c]]
     /\ db' = [u \in Users |-> IF u \in mine THEN None ELSE db[u]]
     /\ at' = [a \in Actors |-> IF a \in dead THEN "idle" ELSE at[a]]
     /\ using' = [a \in Actors |-> IF a \in dead THEN None ELSE using[a]]
     /\ slot' = [r \in Runtimes |-> IF r \in mine THEN None ELSE slot[r]]
     /\ UNCHANGED <<owner, row>>

\* Every step but a crash.
Working ==
  \/ \E u \in Users :
       \/ CheckHeld(u) \/ TryLock(u) \/ Stamp(u) \/ StampFails(u)
       \/ Connect(u) \/ LetGo(u)
       \/ CloseBegins(u) \/ CloseDb(u) \/ Unlock(u) \/ Unregister(u)
  \/ \E w \in Writers : Request(w) \/ Busy(w) \/ Enter(w) \/ Fail(w)
  \/ \E u \in Commands \cup Strays : CommandBegins(u) \/ CommandFails(u)
  \/ \E a \in Actors : First(a) \/ Second(a)

NextCrash == \E p \in Processes : Crash(p)

Next == Working \/ NextCrash

Spec == Init /\ [][Next]_vars

\* A thread that waits for the slot gets it or times out, one that has it
\* goes on or fails, and an eager user keeps trying to become the owner.
Fairness ==
  /\ \A w \in Writers : WF_vars(Enter(w) \/ Busy(w))
  /\ \A w \in Writers : WF_vars(First(w) \/ Second(w) \/ Fail(w))
  /\ \A u \in Eager : /\ WF_vars(CheckHeld(u)) /\ WF_vars(TryLock(u))
                      /\ WF_vars(Stamp(u) \/ StampFails(u))
                      /\ WF_vars(Unlock(u)) /\ WF_vars(Unregister(u))

FairSpec == Spec /\ Fairness

-----------------------------------------------------------------------------
(* Properties.                                                             *)

\* Two connections that may write to the store are never open at once: not
\* in two processes, not in two runtimes of one, and not across close(),
\* which gives the lock back only after the connection is gone.
OneWriter == \A c, d \in conns : c = d

\* The store has both parts of a write that commits once, or neither: no
\* exception, timeout, close() or crash in the middle of one lets a part of
\* it ride on the commit of another thread.
WholeWrites == \A a \in Actors \ Importers : row[a] # "half"

\* The lock file names the process that owns the store, the one a refused
\* competitor is told to stop, whatever owners before it left behind.
OwnerNamed == \A u \in Users \ Strays : pc[u] \in Owning => owner = ProcOf[u]

\* The write slot is given back after every outcome, an exception on a
\* connection that close() took away included.
SlotComesBack == \A r \in Runtimes : slot[r] # None ~> slot[r] = None

\* The other users are not at it; no live process lost the descriptor that
\* has the lock.
Alone(u) == \A v \in Users \ {u} : pc[v] = "down"
NothingLeaked == \A v \in flock : pc[v] # "down"

\* What a killed owner leaves in the lock file and in _HELD_LOCKS keeps
\* nobody out: a user that tries alone becomes the owner, again and again,
\* unless a live process lost the descriptor that has the lock.  (A crash
\* of a process that does nothing looks like a step of its own.)
StaleLockNeverBlocks ==
  \A u \in Eager \ Strays :
     <>[](Alone(u) /\ NothingLeaked) /\ <>[][NextCrash => Working]_vars
       => []<>(pc[u] \in Owning)
=============================================================================
