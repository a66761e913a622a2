---------------------------- MODULE RuntimeProofs ----------------------------
(* What Runtime guarantees for every number of processes, runtimes,        *)
(* commands and threads.                                                   *)
EXTENDS Runtime, TLAPS

USE RuntimeAssumption DEF Users, Actors

-----------------------------------------------------------------------------
(* The inductive invariant.                                                *)

\* A connection is open as long as one user has it, and one user only.  Who
\* is about to connect has none.
Connected ==
  /\ \A u \in Users : db[u] # None => db[u] \in conns
  /\ \A c \in conns : \E u \in Users : db[u] = c
  /\ \A u, v \in Users : db[u] # None /\ db[u] = db[v] => u = v
  /\ \A u \in Users :
       /\ pc[u] \in {"open", "closing"} => db[u] # None
       /\ pc[u] \in {"checked", "locked", "owned"} => db[u] = None
  /\ \A u \in Strays :
       pc[u] \in {"open", "closing"} \/ (pc[u] = "down" /\ db[u] = None)

\* An actor's connection, while it is open, is the one its user has now; a
\* thread that writes has the slot.
Current ==
  /\ \A a \in Actors : using[a] \in conns => db[HomeOf(a)] = using[a]
  /\ \A w \in Writers : at[w] \in {"first", "second"} => slot[RuntimeOf[w]] = w

\* What a connection has pending is the first half of one write in progress,
\* or of a command's that failed and only has to close.
Pending(c, a) ==
  /\ c \in conns /\ a \notin Importers
  /\ \/ at[a] = "second" /\ using[a] = c
     \/ a \notin Writers /\ db[a] = c /\ pc[a] # "open"

Whole ==
  /\ \A c \in Conns : \A a \in pending[c] : Pending(c, a)
  /\ \A a \in Actors \ Importers :
       at[a] = "second" /\ using[a] \in conns => a \in pending[using[a]]
  /\ WholeWrites

WriteInv == RuntimeTypeOK /\ Connected /\ Current /\ Whole

\* One descriptor has the OS lock: the owner's, of one about to be or of one
\* that was.
Locked ==
  /\ \A u, v \in flock : u = v
  /\ \A u \in Users \ Strays :
       pc[u] \in {"locked", "owned", "open", "closing", "closed"} => u \in flock
  /\ OwnerNamed

\* Without careless commands a connection does not outlive the lock.
Bracketed == \A u \in Users : db[u] # None => pc[u] \in {"open", "closing"}

-----------------------------------------------------------------------------
(* Types.                                                                  *)

\* A step of open() or close() moves one user and leaves the others.
LEMMA MoveTyped ==
  ASSUME pc \in [Users -> Phase], NEW u \in Users, NEW from, NEW to \in Phase,
         Move(u, from, to)
  PROVE  pc' \in [Users -> Phase] /\ pc[u] = from /\ pc'[u] = to
         /\ \A v \in Users \ {u} : pc'[v] = pc[v]
BY DEF Move

\* Leaving a write keeps the types and forgets the actor's connection.
LEMMA LeaveTyped ==
  ASSUME RuntimeTypeOK, NEW a \in Actors, Leave(a)
  PROVE  /\ at' \in [Actors -> {"idle", "waiting", "first", "second"}]
         /\ using' \in [Actors -> Conns \cup {None}]
         /\ \A b \in Actors : (using'[b] = None) = (at'[b] = "idle")
         /\ slot' \in [Runtimes -> Writers \cup {None}]
BY DEF RuntimeTypeOK, Leave

\* The connection MemoryDB() returns is open nowhere and nobody remembers it.
LEMMA UnusedConn ==
  ASSUME Unused # {}
  PROVE  LET c == CHOOSE x \in Unused : TRUE
         IN  c \in Conns /\ c \notin conns /\ \A a \in Actors : using[a] # c
BY DEF Unused

\* The initial state is well typed.
LEMMA TypeInit == Init => RuntimeTypeOK
BY DEF Init, RuntimeTypeOK, Phase

\* Every step keeps the types.
LEMMA TypeStep ==
  ASSUME RuntimeTypeOK, Connected, [Next]_vars
  PROVE  RuntimeTypeOK'
<1> USE DEF RuntimeTypeOK, lockVars, connVars, writeVars
<1>1. ASSUME NEW u \in Users, CheckHeld(u) PROVE RuntimeTypeOK'
  BY <1>1, MoveTyped DEF CheckHeld, Phase
<1>2. ASSUME NEW u \in Users, TryLock(u) PROVE RuntimeTypeOK'
  BY <1>2, MoveTyped DEF TryLock, Phase
<1>3. ASSUME NEW u \in Users, Stamp(u) PROVE RuntimeTypeOK'
  BY <1>3, MoveTyped DEF Stamp, Phase
<1>4. ASSUME NEW u \in Users, StampFails(u) PROVE RuntimeTypeOK'
  BY <1>4, MoveTyped DEF StampFails, Phase
<1>5. ASSUME NEW u \in Users, Connect(u) PROVE RuntimeTypeOK'
  <2> DEFINE c == CHOOSE x \in Unused : TRUE
  <2>1. pc' \in [Users -> Phase]
    BY <1>5, MoveTyped DEF Connect, Phase
  <2>2. c \in Conns /\ conns' = conns \cup {c} /\ db' = [db EXCEPT ![u] = c]
    BY <1>5, UnusedConn DEF Connect
  <2>3. UNCHANGED <<lockVars, pending, writeVars>>
    BY <1>5 DEF Connect
  <2> HIDE DEF c
  <2> QED
    BY <2>1, <2>2, <2>3
<1>6. ASSUME NEW u \in Users, LetGo(u) PROVE RuntimeTypeOK'
  BY <1>6, MoveTyped DEF LetGo, Phase
<1>7. ASSUME NEW u \in Users, CloseBegins(u) PROVE RuntimeTypeOK'
  BY <1>7, MoveTyped DEF CloseBegins, Phase
<1>8. ASSUME NEW u \in Users, CloseDb(u) PROVE RuntimeTypeOK'
  BY <1>8, MoveTyped DEF CloseDb, Phase
<1>9. ASSUME NEW u \in Users, Unlock(u) PROVE RuntimeTypeOK'
  BY <1>9, MoveTyped DEF Unlock, Phase
<1>10. ASSUME NEW u \in Users, Unregister(u) PROVE RuntimeTypeOK'
  BY <1>10, MoveTyped DEF Unregister, Phase
<1>11. ASSUME NEW w \in Writers, Request(w) PROVE RuntimeTypeOK'
  BY <1>11 DEF Request, Connected
<1>12. ASSUME NEW w \in Writers, Busy(w) PROVE RuntimeTypeOK'
  BY <1>12 DEF Busy
<1>13. ASSUME NEW w \in Writers, Enter(w) PROVE RuntimeTypeOK'
  BY <1>13 DEF Enter
<1>14. ASSUME NEW w \in Writers, Fail(w) PROVE RuntimeTypeOK'
  BY <1>14, LeaveTyped DEF Fail
<1>15. ASSUME NEW u \in Commands \cup Strays, CommandBegins(u) PROVE RuntimeTypeOK'
  BY <1>15 DEF CommandBegins, Connected
<1>16. ASSUME NEW u \in Commands \cup Strays, CommandFails(u) PROVE RuntimeTypeOK'
  BY <1>16, LeaveTyped, MoveTyped DEF CommandFails, Phase
<1>17. ASSUME NEW a \in Actors, First(a) PROVE RuntimeTypeOK'
  <2>1. pending' \in [Conns -> SUBSET Actors]
    BY <1>17 DEF First, Writable
  <2>2. row' \in [Actors -> {"none", "half", "whole"}]
    BY <1>17 DEF First, Flushed
  <2> QED
    BY <1>17, <2>1, <2>2 DEF First
<1>18. ASSUME NEW a \in Actors, Second(a) PROVE RuntimeTypeOK'
  BY <1>18, LeaveTyped DEF Second, Flushed
<1>19. ASSUME NEW p \in Processes, Crash(p) PROVE RuntimeTypeOK'
  BY <1>19 DEF Crash, Phase
<1>20. CASE UNCHANGED vars
  BY <1>20 DEF vars
<1> QED
  BY <1>1, <1>2, <1>3, <1>4, <1>5, <1>6, <1>7, <1>8, <1>9, <1>10, <1>11, <1>12,
     <1>13, <1>14, <1>15, <1>16, <1>17, <1>18, <1>19, <1>20
     DEF Next, Working, NextCrash

-----------------------------------------------------------------------------
(* Connections.                                                            *)

\* Initially no connection is open and no user has one.
LEMMA ConnectedInit == Init => Connected
BY DEF Init, Connected

\* Every step keeps each open connection with the one user that opened it.
LEMMA ConnectedStep ==
  ASSUME RuntimeTypeOK, Connected, [Next]_vars
  PROVE  Connected'
<1> USE DEF Connected, lockVars, connVars, writeVars
<1>a. ASSUME NEW u \in Users \ Strays, NEW to, UNCHANGED <<db, conns>>,
             pc' = [pc EXCEPT ![u] = to],
             to \in {"open", "closing"} => pc[u] = "open",
             to \in {"checked", "locked", "owned"} => db[u] = None
      PROVE  Connected'
  BY <1>a DEF RuntimeTypeOK
<1>b. ASSUME UNCHANGED <<pc, db, conns>> PROVE Connected'
  BY <1>b
<1>1. ASSUME NEW u \in Users,
             \/ CheckHeld(u) \/ TryLock(u) \/ Stamp(u) \/ StampFails(u)
             \/ LetGo(u) \/ Unlock(u) \/ Unregister(u)
      PROVE  Connected'
  <2>1. u \notin Strays
    BY <1>1 DEF Move, CheckHeld, TryLock, Stamp, StampFails, LetGo, Unlock, Unregister
  <2>2. CASE CheckHeld(u)
    BY <2>1, <2>2, <1>a DEF CheckHeld, Move
  <2>3. CASE TryLock(u)
    <3>1. CASE Move(u, "checked", "locked")
      BY <2>1, <2>3, <3>1, <1>a DEF TryLock, Move
    <3>2. CASE Move(u, "checked", "down")
      BY <2>1, <2>3, <3>2, <1>a DEF TryLock, Move
    <3> QED
      BY <2>3, <3>1, <3>2 DEF TryLock
  <2>4. CASE Stamp(u)
    BY <2>1, <2>4, <1>a DEF Stamp, Move
  <2>5. CASE StampFails(u)
    BY <2>1, <2>5, <1>a DEF StampFails, Move
  <2>6. CASE LetGo(u)
    BY <2>1, <2>6, <1>a DEF LetGo, Move
  <2>7. CASE Unlock(u)
    BY <2>1, <2>7, <1>a DEF Unlock, Move
  <2>8. CASE Unregister(u)
    BY <2>1, <2>8, <1>a DEF Unregister, Move
  <2> QED
    BY <1>1, <2>2, <2>3, <2>4, <2>5, <2>6, <2>7, <2>8
<1>c. ASSUME NEW u \in Users, CloseBegins(u) PROVE Connected'
  BY <1>c DEF CloseBegins, Move, RuntimeTypeOK
<1>2. ASSUME NEW u \in Users, Connect(u) PROVE Connected'
  <2> DEFINE c == CHOOSE x \in Unused : TRUE
  <2>1. /\ c \in Conns \ conns
        /\ conns' = conns \cup {c} /\ db' = [db EXCEPT ![u] = c]
    BY <1>2, UnusedConn DEF Connect
  <2>2. db[u] = None
    BY <1>2 DEF Connect, Move
  <2> HIDE DEF c
  <2> QED
    <3>1. pc' = [pc EXCEPT ![u] = "open"]
      BY <1>2 DEF Connect, Move
    <3>2. \A v \in Users : db'[v] = IF v = u THEN c ELSE db[v]
      BY <2>1 DEF RuntimeTypeOK
    <3>3. \A v \in Users : pc'[v] = IF v = u THEN "open" ELSE pc[v]
      BY <3>1 DEF RuntimeTypeOK
    <3>4. c # None
      BY <2>1
    <3>5. \A v \in Users : db[v] # c
      BY <2>1, <3>4
    <3>6. \A d \in conns' : \E v \in Users : db'[v] = d
      <4>1. \A d \in conns : \E v \in Users : db[v] = d /\ v # u
        BY <2>1, <2>2, <3>4 DEF RuntimeTypeOK
      <4> QED
        BY <2>1, <3>2, <4>1
    <3>7. /\ \A v \in Users : db'[v] # None => db'[v] \in conns'
          /\ \A v, w \in Users : db'[v] # None /\ db'[v] = db'[w] => v = w
      BY <2>1, <3>2, <3>5
    <3> QED
      BY <3>2, <3>3, <3>4, <3>6, <3>7
<1>3. ASSUME NEW u \in Users, CloseDb(u) PROVE Connected'
  BY <1>3 DEF CloseDb, RuntimeTypeOK, Move
<1>4. ASSUME NEW u \in Commands \cup Strays, CommandFails(u) PROVE Connected'
  BY <1>4 DEF CommandFails, RuntimeTypeOK, Move
<1>5. ASSUME NEW p \in Processes, Crash(p) PROVE Connected'
  BY <1>5 DEF Crash, RuntimeTypeOK
<1>6. ASSUME NEW w \in Writers, Request(w) \/ Busy(w) \/ Enter(w) \/ Fail(w)
      PROVE  Connected'
  BY <1>6, <1>b DEF Request, Busy, Enter, Fail
<1>7. ASSUME NEW u \in Commands \cup Strays, CommandBegins(u) PROVE Connected'
  BY <1>7, <1>b DEF CommandBegins
<1>8. ASSUME NEW a \in Actors, First(a) \/ Second(a) PROVE Connected'
  BY <1>8, <1>b DEF First, Second
<1>9. CASE UNCHANGED vars
  BY <1>9, <1>b DEF vars
<1> QED
  BY <1>1, <1>2, <1>3, <1>4, <1>5, <1>6, <1>7, <1>8, <1>9, <1>c DEF Next, Working, NextCrash

-----------------------------------------------------------------------------
(* Who uses which connection.                                              *)

\* A writer's home is its runtime, a command's is the command itself.
LEMMA HomeTyped ==
  /\ \A a \in Actors : HomeOf(a) \in Users
  /\ \A w \in Writers : HomeOf(w) = RuntimeOf[w] /\ RuntimeOf[w] \in Runtimes
  /\ \A u \in Commands \cup Strays : HomeOf(u) = u /\ u \notin Runtimes /\ u \notin Writers
BY DEF HomeOf

\* Initially nobody works on a connection.
LEMMA CurrentInit == Init => Current
BY HomeTyped DEF Init, Current

\* Leaving a write disturbs nobody else's connection.
LEMMA LeaveCurrent ==
  ASSUME RuntimeTypeOK, Current, NEW a \in Actors, Leave(a), UNCHANGED <<db, conns>>
  PROVE  Current'
BY HomeTyped DEF RuntimeTypeOK, Current, Leave

\* Every step keeps actors on a connection of their home, or on a closed one.
LEMMA CurrentStep ==
  ASSUME RuntimeTypeOK, Connected, Current, [Next]_vars
  PROVE  Current'
<1> USE HomeTyped DEF RuntimeTypeOK, Current, lockVars, connVars, writeVars
<1>a. ASSUME UNCHANGED <<db, conns, at, using, slot>> PROVE Current'
  BY <1>a DEF HomeOf
<1>1. ASSUME NEW u \in Users,
             \/ CheckHeld(u) \/ TryLock(u) \/ Stamp(u) \/ StampFails(u)
             \/ LetGo(u) \/ CloseBegins(u) \/ Unlock(u) \/ Unregister(u)
      PROVE  Current'
  BY <1>1, <1>a DEF CheckHeld, TryLock, Stamp, StampFails, LetGo, CloseBegins, Unlock,
     Unregister
<1>2. ASSUME NEW u \in Users, Connect(u) PROVE Current'
  <2> DEFINE c == CHOOSE x \in Unused : TRUE
  <2>1. /\ \A a \in Actors : using[a] # c
        /\ conns' = conns \cup {c} /\ db' = [db EXCEPT ![u] = c]
        /\ UNCHANGED <<at, using, slot>>
    BY <1>2, UnusedConn DEF Connect
  <2>2. db[u] = None
    BY <1>2 DEF Connect, Move, Connected
  <2> HIDE DEF c
  <2>3. \A v \in Users \ {u} : db'[v] = db[v]
    BY <2>1
  <2>4. \A a \in Actors : using[a] \in conns => HomeOf(a) # u
    BY <2>2
  <2> QED
    BY <2>1, <2>3, <2>4 DEF HomeOf
<1>3. ASSUME NEW u \in Users, CloseDb(u) PROVE Current'
  BY <1>3 DEF CloseDb, HomeOf
<1>4. ASSUME NEW w \in Writers, Request(w) PROVE Current'
  BY <1>4 DEF Request, HomeOf
<1>5. ASSUME NEW w \in Writers, Busy(w) PROVE Current'
  BY <1>5 DEF Busy, HomeOf
<1>6. ASSUME NEW w \in Writers, Enter(w) PROVE Current'
  BY <1>6 DEF Enter, HomeOf
<1>7. ASSUME NEW w \in Writers, Fail(w) PROVE Current'
  BY <1>7, LeaveCurrent DEF Fail
<1>8. ASSUME NEW u \in Commands \cup Strays, CommandBegins(u) PROVE Current'
  BY <1>8 DEF CommandBegins, HomeOf
<1>9. ASSUME NEW u \in Commands \cup Strays, CommandFails(u) PROVE Current'
  BY <1>9, LeaveCurrent DEF CommandFails
<1>10. ASSUME NEW a \in Actors, First(a) PROVE Current'
  BY <1>10 DEF First, HomeOf
<1>11. ASSUME NEW a \in Actors, Second(a) PROVE Current'
  BY <1>11, LeaveCurrent DEF Second
<1>12. ASSUME NEW p \in Processes, Crash(p) PROVE Current'
  BY <1>12 DEF Crash, HomeOf
<1>13. CASE UNCHANGED vars
  BY <1>13, <1>a DEF vars
<1> QED
  BY <1>1, <1>2, <1>3, <1>4, <1>5, <1>6, <1>7, <1>8, <1>9, <1>10, <1>11, <1>12, <1>13
     DEF Next, Working, NextCrash

-----------------------------------------------------------------------------
(* Whole writes.                                                           *)

\* Initially nothing is pending and no write is half done.
LEMMA WholeInit == Init => Whole
BY DEF Init, Whole, WholeWrites

\* While an actor writes, nothing but its own write is pending there.
LEMMA NobodyElse ==
  ASSUME RuntimeTypeOK, Connected, Current, Whole,
         NEW a \in Actors, at[a] \in {"first", "second"}, using[a] \in conns
  PROVE  pending[using[a]] \subseteq {a}
<1> DEFINE c == using[a]
<1>1. SUFFICES ASSUME NEW x \in pending[c] PROVE x = a
  OBVIOUS
<1>2. c \in Conns /\ c # None /\ x \in Actors
  BY DEF RuntimeTypeOK
<1>3. Pending(c, x)
  BY <1>2 DEF Whole
<1>4. db[HomeOf(a)] = c
  BY DEF Current
<1>5. db[HomeOf(x)] = c
  BY <1>2, <1>3, HomeTyped DEF Pending, Current
<1>6. HomeOf(x) = HomeOf(a)
  BY <1>2, <1>4, <1>5, HomeTyped DEF Connected
<1>7. CASE x \in Writers
  <2>1. at[x] = "second"
    BY <1>3, <1>7 DEF Pending
  <2>2. a \in Writers
    BY <1>6, <1>7, HomeTyped
  <2> QED
    BY <2>1, <2>2, <1>6, <1>7, HomeTyped DEF Current
<1>8. CASE x \notin Writers
  BY <1>2, <1>6, <1>8, HomeTyped
<1> QED
  BY <1>7, <1>8

\* A write ends: its connection has nothing pending any more.
LEMMA LeaveWhole ==
  ASSUME WriteInv, NEW a \in Actors, at[a] \in {"first", "second"},
         pending' = [pending EXCEPT ![using[a]] = {}], Leave(a),
         UNCHANGED <<pc, db, conns>>,
         \A b \in Actors \ Importers : row'[b] # "half"
  PROVE  Whole'
<1> USE DEF WriteInv, RuntimeTypeOK
<1>1. using[a] \in conns => pending[using[a]] \subseteq {a}
  BY NobodyElse
<1>2. \A b \in Actors \ {a} : at'[b] = at[b] /\ using'[b] = using[b]
  BY DEF Leave
<1>3. at'[a] = "idle"
  BY DEF Leave
<1>4. ASSUME NEW c \in Conns, NEW x \in pending'[c] PROVE Pending(c, x)'
  <2>1. c # using[a] /\ x \in pending[c]
    BY <1>4
  <2>2. Pending(c, x)
    BY <2>1 DEF Whole
  <2> QED
    BY <1>2, <2>1, <2>2 DEF Pending
<1>5. ASSUME NEW b \in Actors \ Importers, at'[b] = "second", using'[b] \in conns'
      PROVE  b \in pending'[using'[b]]
  <2>1. b # a /\ at[b] = "second" /\ using[b] \in conns /\ using'[b] = using[b]
    BY <1>2, <1>3, <1>5
  <2>2. b \in pending[using[b]]
    BY <2>1 DEF Whole
  <2>3. using[b] # using[a]
    BY <1>1, <2>1, <2>2
  <2> QED
    BY <2>1, <2>2, <2>3
<1> QED
  BY <1>4, <1>5 DEF Whole, WholeWrites

\* Every step keeps pending statements with the actor that is at work.
LEMMA WholeStep ==
  ASSUME WriteInv, [Next]_vars
  PROVE  Whole'
<1> USE DEF WriteInv, RuntimeTypeOK, lockVars, connVars, writeVars
<1>a. ASSUME UNCHANGED <<db, conns, pending, at, using, row>>,
             \A u \in Users : pc'[u] = "open" => pc[u] = "open"
      PROVE  Whole'
  BY <1>a DEF Whole, WholeWrites, Pending
<1>1. ASSUME NEW u \in Users,
             \/ CheckHeld(u) \/ TryLock(u) \/ Stamp(u) \/ StampFails(u)
             \/ LetGo(u) \/ CloseBegins(u) \/ Unlock(u) \/ Unregister(u)
      PROVE  Whole'
  <2>1. UNCHANGED <<db, conns, pending, at, using, row>>
    BY <1>1 DEF CheckHeld, TryLock, Stamp, StampFails, LetGo, CloseBegins, Unlock,
       Unregister
  <2>2. \A v \in Users : pc'[v] = "open" => pc[v] = "open"
    BY <1>1 DEF Move, CheckHeld, TryLock, Stamp, StampFails, LetGo, CloseBegins,
       Unlock, Unregister
  <2> QED
    BY <2>1, <2>2, <1>a
<1>2. ASSUME NEW u \in Users, Connect(u) PROVE Whole'
  <2> DEFINE c == CHOOSE x \in Unused : TRUE
  <2>1. /\ c \in Conns \ conns /\ \A a \in Actors : using[a] # c
        /\ conns' = conns \cup {c} /\ db' = [db EXCEPT ![u] = c]
        /\ UNCHANGED <<pending, at, using, row>>
    BY <1>2, UnusedConn DEF Connect
  <2>2. db[u] = None
    BY <1>2 DEF Connect, Move, Connected
  <2>3. \A v \in Users \ {u} : pc'[v] = pc[v]
    BY <1>2 DEF Connect, Move
  <2> HIDE DEF c
  <2>4. ASSUME NEW d \in Conns, NEW x \in pending'[d] PROVE Pending(d, x)'
    <3>1. Pending(d, x) /\ x \in Actors /\ d # None
      BY <2>1, <2>4 DEF Whole
    <3>2. CASE at[x] = "second" /\ using[x] = d
      BY <2>1, <3>1, <3>2 DEF Pending
    <3>3. CASE x \notin Writers /\ db[x] = d /\ pc[x] # "open"
      BY <2>1, <2>2, <2>3, <3>1, <3>3 DEF Pending
    <3> QED
      BY <3>1, <3>2, <3>3 DEF Pending
  <2> QED
    BY <2>1, <2>4 DEF Whole, WholeWrites
<1>3. ASSUME NEW u \in Users, CloseDb(u) PROVE Whole'
  <2>1. /\ conns' = conns \ {db[u]} /\ pending' = [pending EXCEPT ![db[u]] = {}]
        /\ db' = [db EXCEPT ![u] = None] /\ UNCHANGED <<at, using, row>>
    BY <1>3 DEF CloseDb
  <2>2. \A v \in Users : pc'[v] = "open" => pc[v] = "open"
    BY <1>3 DEF CloseDb, Move
  <2>3. ASSUME NEW d \in Conns, NEW x \in pending'[d] PROVE Pending(d, x)'
    <3>1. d # db[u] /\ x \in pending[d] /\ x \in Actors
      BY <2>1, <2>3
    <3>2. Pending(d, x)
      BY <3>1 DEF Whole
    <3> QED
      BY <2>1, <2>2, <3>1, <3>2 DEF Pending
  <2> QED
    BY <2>1, <2>3 DEF Whole, WholeWrites
<1>4. ASSUME NEW w \in Writers, Request(w) PROVE Whole'
  BY <1>4 DEF Request, Whole, WholeWrites, Pending
<1>5. ASSUME NEW w \in Writers, Busy(w) PROVE Whole'
  BY <1>5 DEF Busy, Whole, WholeWrites, Pending
<1>6. ASSUME NEW w \in Writers, Enter(w) PROVE Whole'
  BY <1>6 DEF Enter, Whole, WholeWrites, Pending
<1>7. ASSUME NEW w \in Writers, Fail(w) PROVE Whole'
  BY <1>7, LeaveWhole DEF Fail, Whole, WholeWrites
<1>8. ASSUME NEW u \in Commands \cup Strays, CommandBegins(u) PROVE Whole'
  BY <1>8 DEF CommandBegins, Whole, WholeWrites, Pending
<1>9. ASSUME NEW u \in Commands \cup Strays, CommandFails(u) PROVE Whole'
  <2>1. /\ UNCHANGED <<db, conns, pending, row>> /\ at'[u] = "idle"
        /\ \A b \in Actors \ {u} : at'[b] = at[b] /\ using'[b] = using[b]
        /\ pc'[u] # "open" /\ \A v \in Users \ {u} : pc'[v] = pc[v]
    BY <1>9 DEF CommandFails, Leave, Move
  <2>2. ASSUME NEW d \in Conns, NEW x \in pending[d] PROVE Pending(d, x)'
    <3>1. Pending(d, x) /\ x \in Actors
      BY <2>2 DEF Whole
    <3>2. CASE x = u
      BY <2>1, <3>1, <3>2, HomeTyped DEF Pending, Current
    <3>3. CASE x # u
      BY <2>1, <3>1, <3>3 DEF Pending
    <3> QED
      BY <3>2, <3>3
  <2> QED
    BY <2>1, <2>2 DEF Whole, WholeWrites
<1>10. ASSUME NEW a \in Actors, First(a) PROVE Whole'
  <2>1. using[a] \in conns /\ pending[using[a]] \subseteq {a}
    BY <1>10, NobodyElse DEF First, Writable
  <2>2. /\ UNCHANGED <<pc, db, conns, using>> /\ at[a] = "first" /\ at'[a] = "second"
        /\ \A b \in Actors \ {a} : at'[b] = at[b]
    BY <1>10 DEF First
  <2>3. CASE a \in Importers
    <3>1. pending' = [pending EXCEPT ![using[a]] = {}]
      BY <1>10, <2>3 DEF First
    <3>2. a \notin pending[using[a]]
      BY <2>1, <2>3 DEF Whole, Pending
    <3>3. pending' = pending
      BY <2>1, <3>1, <3>2
    <3>4. \A b \in Actors \ Importers : row'[b] = row[b]
      BY <1>10, <2>1, <2>3, <3>2 DEF First, Flushed
    <3>5. ASSUME NEW d \in Conns, NEW x \in pending'[d] PROVE Pending(d, x)'
      <4>1. Pending(d, x) /\ x \in Actors
        BY <3>3, <3>5 DEF Whole
      <4>2. x # a
        BY <2>3, <4>1 DEF Pending
      <4> QED
        BY <2>2, <4>1, <4>2 DEF Pending
    <3>6. ASSUME NEW b \in Actors \ Importers, at'[b] = "second", using'[b] \in conns'
          PROVE  b \in pending'[using'[b]]
      <4>1. b # a
        BY <2>3
      <4>2. at[b] = "second" /\ using[b] \in conns /\ using'[b] = using[b]
        BY <2>2, <3>6, <4>1
      <4>3. b \in pending[using[b]]
        BY <4>2 DEF Whole
      <4> QED
        BY <3>3, <4>2, <4>3
    <3>7. WholeWrites'
      BY <3>4 DEF Whole, WholeWrites
    <3> QED
      BY <3>5, <3>6, <3>7 DEF Whole
  <2>4. CASE a \notin Importers
    <3>1. pending' = [pending EXCEPT ![using[a]] = @ \cup {a}] /\ row' = row
      BY <1>10, <2>4 DEF First
    <3>2. ASSUME NEW d \in Conns, NEW x \in pending'[d] PROVE Pending(d, x)'
      <4>1. CASE x = a /\ d = using[a]
        BY <2>1, <2>2, <2>4, <4>1 DEF Pending
      <4>2. CASE x \in pending[d]
        BY <2>2, <4>2 DEF Pending, Whole
      <4> QED
        BY <3>1, <3>2, <4>1, <4>2
    <3> QED
      BY <2>1, <2>2, <3>1, <3>2 DEF Whole, WholeWrites
  <2> QED
    BY <2>3, <2>4
<1>11. ASSUME NEW a \in Actors, Second(a) PROVE Whole'
  <2>1. using[a] \in conns /\ pending[using[a]] \subseteq {a}
    BY <1>11, NobodyElse DEF Second, Writable
  <2>2. a \notin Importers => a \in pending[using[a]]
    BY <1>11, <2>1 DEF Second, Whole
  <2>3. \A b \in Actors \ Importers : row'[b] # "half"
    BY <1>11, <2>1, <2>2 DEF Second, Flushed, Whole, WholeWrites
  <2> QED
    BY <1>11, <2>3, LeaveWhole DEF Second
<1>12. ASSUME NEW p \in Processes, Crash(p) PROVE Whole'
  <2> DEFINE mine == {u \in Users : ProcOf[u] = p}
             lost == {db[u] : u \in mine}
  <2>1. /\ conns' = conns \ lost /\ row' = row
        /\ pending' = [c \in Conns |-> IF c \in lost THEN {} ELSE pending[c]]
        /\ db' = [u \in Users |-> IF u \in mine THEN None ELSE db[u]]
        /\ pc' = [u \in Users |-> IF u \in mine THEN "down" ELSE pc[u]]
        /\ \A b \in Actors : IF HomeOf(b) \in mine
                             THEN at'[b] = "idle" /\ using'[b] = None
                             ELSE at'[b] = at[b] /\ using'[b] = using[b]
    BY <1>12 DEF Crash
  <2>2. ASSUME NEW d \in Conns, NEW x \in pending'[d] PROVE Pending(d, x)'
    <3>1. d \notin lost /\ x \in pending[d] /\ x \in Actors
      BY <2>1, <2>2
    <3>2. Pending(d, x)
      BY <3>1 DEF Whole
    <3>3. db[HomeOf(x)] = d
      BY <3>1, <3>2, HomeTyped DEF Pending, Current
    <3>4. HomeOf(x) \in Users \ mine
      BY <3>1, <3>3, HomeTyped
    <3> HIDE DEF mine, lost
    <3> QED
      BY <2>1, <3>1, <3>2, <3>4, HomeTyped DEF Pending
  <2> HIDE DEF mine, lost
  <2>3. ASSUME NEW b \in Actors \ Importers, at'[b] = "second", using'[b] \in conns'
        PROVE  b \in pending'[using'[b]]
    BY <2>1, <2>3 DEF Whole
  <2> QED
    BY <2>1, <2>2, <2>3 DEF Whole, WholeWrites
<1>13. CASE UNCHANGED vars
  BY <1>13, <1>a DEF vars
<1> QED
  BY <1>1, <1>2, <1>3, <1>4, <1>5, <1>6, <1>7, <1>8, <1>9, <1>10, <1>11, <1>12, <1>13
     DEF Next, Working, NextCrash

-----------------------------------------------------------------------------
(* Ownership.                                                              *)

\* Initially nobody has the lock and nobody is an owner.
LEMMA LockedInit == Init => Locked
BY DEF Init, Locked, OwnerNamed, Owning

\* Every step keeps the owner, its lock and the name in the lock file together.
LEMMA LockedStep ==
  ASSUME SplitHandles = FALSE, RuntimeTypeOK, Connected, Locked, [Next]_vars
  PROVE  Locked'
<1> USE DEF RuntimeTypeOK, Locked, OwnerNamed, Owning, lockVars
<1>a. ASSUME UNCHANGED <<pc, flock, owner>> PROVE Locked'
  BY <1>a
<1>1. ASSUME NEW u \in Users, CheckHeld(u) PROVE Locked'
  BY <1>1 DEF CheckHeld, Move
<1>2. ASSUME NEW u \in Users, TryLock(u) PROVE Locked'
  <2>1. CASE Grants(u) /\ Move(u, "checked", "locked") /\ flock' = flock \cup {u}
    <3>1. flock = {}
      BY <2>1 DEF Grants
    <3> QED
      BY <1>2, <2>1, <3>1 DEF TryLock, Move
  <2>2. CASE Move(u, "checked", "down") /\ flock' = flock
    BY <1>2, <2>2 DEF TryLock, Move
  <2> QED
    BY <1>2, <2>1, <2>2 DEF TryLock
<1>3. ASSUME NEW u \in Users, Stamp(u) PROVE Locked'
  <2>1. u \notin Strays /\ u \in flock
    BY <1>3 DEF Stamp, Move, Connected
  <2> QED
    BY <1>3, <2>1 DEF Stamp, Move
<1>4. ASSUME NEW u \in Users, StampFails(u) PROVE Locked'
  <2>1. u \notin Strays /\ u \in flock
    BY <1>4 DEF StampFails, Move, Connected
  <2> QED
    BY <1>4, <2>1 DEF StampFails, Move
<1>5. ASSUME NEW u \in Users, Connect(u) PROVE Locked'
  BY <1>5 DEF Connect, Move
<1>6. ASSUME NEW u \in Users, LetGo(u) PROVE Locked'
  BY <1>6 DEF LetGo, Move
<1>7. ASSUME NEW u \in Users, CloseBegins(u) PROVE Locked'
  BY <1>7 DEF CloseBegins, Move
<1>8. ASSUME NEW u \in Users, CloseDb(u) PROVE Locked'
  BY <1>8 DEF CloseDb, Move
<1>9. ASSUME NEW u \in Users, Unlock(u) PROVE Locked'
  BY <1>9 DEF Unlock, Move
<1>10. ASSUME NEW u \in Users, Unregister(u) PROVE Locked'
  BY <1>10 DEF Unregister, Move
<1>11. ASSUME NEW w \in Writers, Request(w) \/ Busy(w) \/ Enter(w) \/ Fail(w)
       PROVE  Locked'
  BY <1>11, <1>a DEF Request, Busy, Enter, Fail
<1>12. ASSUME NEW u \in Commands \cup Strays, CommandBegins(u) PROVE Locked'
  BY <1>12, <1>a DEF CommandBegins
<1>13. ASSUME NEW u \in Commands \cup Strays, CommandFails(u) PROVE Locked'
  BY <1>13 DEF CommandFails, Move
<1>14. ASSUME NEW a \in Actors, First(a) \/ Second(a) PROVE Locked'
  BY <1>14, <1>a DEF First, Second
<1>15. ASSUME NEW p \in Processes, Crash(p) PROVE Locked'
  BY <1>15 DEF Crash
<1>16. CASE UNCHANGED vars
  BY <1>16, <1>a DEF vars
<1> QED
  BY <1>1, <1>2, <1>3, <1>4, <1>5, <1>6, <1>7, <1>8, <1>9, <1>10, <1>11, <1>12,
     <1>13, <1>14, <1>15, <1>16 DEF Next, Working, NextCrash

\* Every step keeps open connections with users that own the store.
LEMMA BracketedStep ==
  ASSUME Careless = {}, RuntimeTypeOK, Connected, Bracketed, [Next]_vars
  PROVE  Bracketed'
<1> USE DEF RuntimeTypeOK, Bracketed, connVars
<1>a. ASSUME UNCHANGED <<pc, db>> PROVE Bracketed'
  BY <1>a
<1>1. ASSUME NEW u \in Users,
             \/ CheckHeld(u) \/ TryLock(u) \/ Stamp(u) \/ StampFails(u)
             \/ LetGo(u) \/ Unlock(u) \/ Unregister(u)
      PROVE  Bracketed'
  <2>1. /\ db' = db /\ pc[u] \notin {"open", "closing"}
        /\ \A v \in Users \ {u} : pc'[v] = pc[v]
    BY <1>1 DEF Move, CheckHeld, TryLock, Stamp, StampFails, LetGo, Unlock, Unregister
  <2> QED
    BY <2>1
<1>2. ASSUME NEW u \in Users, Connect(u) PROVE Bracketed'
  BY <1>2 DEF Connect, Move
<1>3. ASSUME NEW u \in Users, CloseBegins(u) PROVE Bracketed'
  BY <1>3 DEF CloseBegins, Move
<1>4. ASSUME NEW u \in Users, CloseDb(u) PROVE Bracketed'
  BY <1>4 DEF CloseDb, Move
<1>5. ASSUME NEW w \in Writers, Request(w) \/ Busy(w) \/ Enter(w) \/ Fail(w)
      PROVE  Bracketed'
  BY <1>5, <1>a DEF Request, Busy, Enter, Fail
<1>6. ASSUME NEW u \in Commands \cup Strays, CommandBegins(u) PROVE Bracketed'
  BY <1>6, <1>a DEF CommandBegins
<1>7. ASSUME NEW u \in Commands \cup Strays, CommandFails(u) PROVE Bracketed'
  BY <1>7 DEF CommandFails, Move
<1>8. ASSUME NEW a \in Actors, First(a) \/ Second(a) PROVE Bracketed'
  BY <1>8, <1>a DEF First, Second
<1>9. ASSUME NEW p \in Processes, Crash(p) PROVE Bracketed'
  BY <1>9 DEF Crash
<1>10. CASE UNCHANGED vars
  BY <1>10, <1>a DEF vars
<1> QED
  BY <1>1, <1>2, <1>3, <1>4, <1>5, <1>6, <1>7, <1>8, <1>9, <1>10
     DEF Next, Working, NextCrash

-----------------------------------------------------------------------------
(* The theorems.                                                           *)

\* The inductive invariant behind WholeWrites holds for every instance: types,
\* who has which connection, and whose statements are pending on it
\* (runtime.py: _write_slot, open, close; db.py: commit, rollback).
THEOREM WriteInvariant == Spec => []WriteInv
<1>1. Init => WriteInv
  BY TypeInit, ConnectedInit, CurrentInit, WholeInit DEF WriteInv
<1>2. WriteInv /\ [Next]_vars => WriteInv'
  BY TypeStep, ConnectedStep, CurrentStep, WholeStep DEF WriteInv
<1> QED
  BY <1>1, <1>2, PTL DEF Spec

\* Every variable keeps its type, and an actor has a connection exactly as
\* long as it is at work (runtime.py: _require_db before every write).
THEOREM RuntimeTypes == Spec => []RuntimeTypeOK
<1>1. WriteInv => RuntimeTypeOK
  BY DEF WriteInv
<1> QED
  BY <1>1, WriteInvariant, PTL

\* However many processes, runtimes, threads and commands there are, with
\* the lock or without: a write that commits once is in the store as a whole
\* or not at all (runtime.py: _write_slot and close).
THEOREM WritesAreWhole == Spec => []WholeWrites
<1>1. WriteInv => WholeWrites
  BY DEF WriteInv, Whole
<1> QED
  BY <1>1, WriteInvariant, PTL

\* Where the OS lock excludes every other descriptor, the lock file names
\* the process of the owner (mount.py: StoreLock.acquire).
THEOREM OwnerIsNamed ==
  ASSUME SplitHandles = FALSE
  PROVE  Spec => []OwnerNamed
<1>1. WriteInv => RuntimeTypeOK /\ Connected
  BY DEF WriteInv
<1>2. RuntimeTypeOK /\ Connected /\ Locked /\ [Next]_vars => Locked'
  BY LockedStep
<1>3. Locked => OwnerNamed
  BY DEF Locked
<1> QED
  BY <1>1, <1>2, <1>3, LockedInit, WriteInvariant, PTL DEF Spec

\* Where the OS lock excludes every other descriptor, every command that
\* writes takes it, and none leaves its connection behind, no two write
\* connections are ever open at once (mount.py: StoreLock, store_ownership;
\* runtime.py: open, close).
THEOREM OneWriterAtATime ==
  ASSUME SplitHandles = FALSE, Strays = {}, Careless = {}
  PROVE  Spec => []OneWriter
<1>1. WriteInv => RuntimeTypeOK /\ Connected
  BY DEF WriteInv
<1>2. Init => Locked /\ Bracketed
  BY LockedInit DEF Init, Bracketed
<1>3. RuntimeTypeOK /\ Connected /\ Locked /\ Bracketed /\ [Next]_vars
        => Locked' /\ Bracketed'
  BY LockedStep, BracketedStep
<1>4. RuntimeTypeOK /\ Connected /\ Locked /\ Bracketed => OneWriter
  <2> SUFFICES ASSUME RuntimeTypeOK, Connected, Locked, Bracketed,
                      NEW c \in conns, NEW d \in conns
               PROVE  c = d
    BY DEF OneWriter
  <2>1. PICK u \in Users, v \in Users : db[u] = c /\ db[v] = d
    BY DEF Connected
  <2>2. c # None /\ d # None
    BY DEF RuntimeTypeOK
  <2>3. u \in flock /\ v \in flock
    BY <2>1, <2>2 DEF Bracketed, Locked
  <2> QED
    BY <2>1, <2>3 DEF Locked
<1> QED
  BY <1>1, <1>2, <1>3, <1>4, WriteInvariant, PTL DEF Spec
=============================================================================
