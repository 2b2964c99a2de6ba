----------------------------- MODULE CacheProofs -----------------------------
(***************************************************************************)
(* Proofs about Cache, for any number of processes, threads and jobs: the  *)
(* discipline of the locks, that the rows of the file hold what was        *)
(* computed for their keys, that objects get what belongs to their own     *)
(* problem, and that what they use stays in the file.                      *)
(***************************************************************************)
EXTENDS Cache, UtilsProofs, FiniteSetTheorems

-----------------------------------------------------------------------------
(* Types.                                                                  *)
Statements == Tables \X {"add", "query"}
Records == {"phase", "at", "params", "left", "retained", "found", "cause"}

StmtOK(x) == /\ DOMAIN x = {"at", "key", "value"}
             /\ x.at \in {"reset", "row", "pending", "done"}

\* Where a thread can be in each phase of a constructor.
AtOK(phase, at) ==
    \/ phase \in {"start", "binary", "source"} /\ at = None
    \/ phase = "open" /\ at \in {"step", "reserved", "exclusive", "ok", "error"}
    \/ /\ phase \in {"find", "lookup"}
       /\ at \in {"reset", "bindKey", "step", "column", "ok", "miss", "error"}
    \/ /\ phase \in {"save", "add"}
       /\ at \in {"reset", "bindKey", "bindValue", "step", "reserved", "exclusive",
                  "ok", "error"}

ThreadOK(t) ==
    /\ DOMAIN thr[t] = Records
    /\ AtOK(thr[t].phase, thr[t].at)
    /\ thr[t].phase = "open" => thr[t].left \in {<<"params", "kernel">>, <<"kernel">>}
    /\ thr[t].phase # "start" => Active(t)
    /\ IsQueue(objects[t]) /\ Len(objects[t]) <= Len(Jobs[t])

ProcessOK(p) ==
    /\ db[p] \in {"closed", "opening", "open"}
    /\ lock[p] \in {"none", "shared", "reserved", "exclusive"}
    /\ DOMAIN dirty[p] \subseteq Tables
    /\ DOMAIN stmt[p] = Statements
    /\ \A s \in Statements : StmtOK(stmt[p][s]) /\ (s[2] = "add" => stmt[p][s].at # "row")
    /\ db[p] # "open" => stmt[p] = NewStmts

Shapes ==
    /\ program \in Programs
    /\ DOMAIN db = Processes /\ DOMAIN lock = Processes /\ DOMAIN dirty = Processes
    /\ DOMAIN stmt = Processes /\ DOMAIN thr = Threads /\ DOMAIN objects = Threads
    /\ DOMAIN rows \subseteq Tables
    /\ stops \in 0 .. program.stops
    /\ \A t \in Threads : ThreadOK(t)
    /\ \A p \in Processes : ProcessOK(p)

-----------------------------------------------------------------------------
(* What each call of SQLite does to its thread, statement and connection.  *)
Calling == {"open", "find", "save", "lookup", "add"}

LEMMA ProgramParts ==
    ASSUME Shapes
    PROVE  /\ program.stops \in Nat
           /\ \A t \in Threads :
                 /\ Of[t] \in Processes
                 /\ Jobs[t] \in Seq([problem : DOMAIN makeKey, tunable : BOOLEAN])
                 /\ Len(Jobs[t]) \in Nat /\ Len(objects[t]) \in Nat
<1> DEFINE J == [problem : DOMAIN makeKey, tunable : BOOLEAN]
<1>1. program.of \in [Threads -> Processes] /\ program.stops \in Nat
      /\ program.jobs \in [Threads -> Seq(J)]
  BY ProgramsAssumption DEF Shapes
<1>2. \A t \in Threads : IsQueue(objects[t])
  BY DEF Shapes, ThreadOK
<1> HIDE DEF J
<1>3. \A t \in Threads : Of[t] \in Processes /\ Jobs[t] \in Seq(J)
  BY <1>1 DEF Of, Jobs
<1>4. \A t \in Threads : Len(Jobs[t]) \in Nat /\ Len(objects[t]) \in Nat
  BY <1>2, <1>3 DEF IsQueue
<1> QED
  BY <1>1, <1>3, <1>4 DEF J

(* The call that a thread makes in each phase.                             *)
LEMMA CallParts ==
    ASSUME NEW t \in Threads
    PROVE  /\ thr[t].phase = "open" => /\ Call(t).op = "create"
                                       /\ Call(t).table = Head(thr[t].left)
           /\ thr[t].phase = "find" => /\ Call(t).op = "query" /\ Call(t).table = "params"
                                       /\ Call(t).key = Key(t)
           /\ thr[t].phase = "save" => /\ Call(t).op = "add" /\ Call(t).table = "params"
                                       /\ Call(t).key = Key(t)
                                       /\ Call(t).value = thr[t].params
           /\ thr[t].phase = "lookup" => /\ Call(t).op = "query" /\ Call(t).table = "kernel"
                                         /\ Call(t).key = Program(t)
           /\ thr[t].phase = "add" => /\ Call(t).op = "add" /\ Call(t).table = "kernel"
                                      /\ Call(t).key = Program(t)
                                      /\ Call(t).value = thr[t].found
<1>1. CASE thr[t].phase = "open"
  BY <1>1 DEF Call
<1>2. CASE thr[t].phase = "find"
  BY <1>2 DEF Call
<1>3. CASE thr[t].phase = "save"
  BY <1>3 DEF Call
<1>4. CASE thr[t].phase = "lookup"
  BY <1>4 DEF Call
<1>5. CASE thr[t].phase = "add"
  BY <1>5 DEF Call
<1> QED
  BY <1>1, <1>2, <1>3, <1>4, <1>5

LEMMA CallShape ==
    ASSUME Shapes, NEW t \in Threads, thr[t].phase \in Calling
    PROVE  /\ Call(t).op = "create" <=> thr[t].phase = "open"
           /\ Call(t).op = "query" <=> thr[t].phase \in {"find", "lookup"}
           /\ Call(t).op = "add" <=> thr[t].phase \in {"save", "add"}
           /\ Call(t).table \in Tables
           /\ Call(t).op # "create" => Stmt(t) \in Statements
           /\ Call(t).op = "create" => Stmt(t) \notin Statements
           /\ Stmt(t)[2] = Call(t).op /\ Stmt(t)[1] = Call(t).table
<1>1. thr[t].phase = "open" => Head(thr[t].left) \in Tables
  BY DEF Shapes, ThreadOK, Tables
<1> QED
  BY <1>1, CallParts DEF Calling, Stmt, Statements, Tables

\* A call of t leaves the other threads, processes and statements alone.
Local(t) ==
    /\ UNCHANGED <<program, db, objects, stops>>
    /\ DOMAIN lock' = Processes /\ DOMAIN dirty' = Processes
    /\ DOMAIN stmt' = Processes /\ DOMAIN thr' = Threads
    /\ DOMAIN stmt'[Of[t]] = Statements
    /\ \A q \in Processes : q # Of[t] => /\ lock'[q] = lock[q] /\ dirty'[q] = dirty[q]
                                         /\ stmt'[q] = stmt[q]
    /\ \A s \in Statements : s # Stmt(t) => stmt'[Of[t]][s] = stmt[Of[t]][s]
    /\ \A u \in Threads : u # t => thr'[u] = thr[u]
    /\ DOMAIN thr'[t] = Records
    /\ thr'[t].phase = thr[t].phase /\ thr'[t].params = thr[t].params
    /\ thr'[t].left = thr[t].left /\ thr'[t].retained = thr[t].retained
    /\ thr'[t].found = thr[t].found \/ thr[t].at = "column"

\* The statement of a call afterwards, if it has one.
After(t, x) ==
    IF Call(t).op = "create" THEN stmt' = stmt ELSE stmt'[Of[t]][Stmt(t)] = x
Moves(t, from, to) == thr[t].at = from /\ thr'[t].at = to /\ thr'[t].cause = thr[t].cause
Errs(t, cause) == thr'[t].at = "error" /\ thr'[t].cause = cause

Quiet(t) == /\ UNCHANGED <<rows, refused>>
            /\ lock'[Of[t]] = lock[Of[t]] /\ dirty'[Of[t]] = dirty[Of[t]]
Ended(t) == /\ lock'[Of[t]] = IF lock[Of[t]] = "none" \/ Running(t) = {} THEN "none"
                              ELSE "shared"
            /\ dirty'[Of[t]] = <<>>
Halted(t) == /\ UNCHANGED <<rows, refused>>
             /\ IF Writers(t) = {} THEN Ended(t) ELSE Quiet(t)
Free(t, locks) == \A p \in Others(t) : lock[p] \notin locks

Resets(t) ==
    /\ Moves(t, "reset", "bindKey") /\ Call(t).op # "create"
    /\ After(t, [Mine(t) EXCEPT !.at = "reset"])
    /\ IF Mine(t).at \in {"row", "pending"} THEN Halted(t) ELSE Quiet(t)
BindsKey(t) ==
    /\ Moves(t, "bindKey", IF Call(t).op = "add" THEN "bindValue" ELSE "step")
    /\ Call(t).op # "create" /\ Mine(t).at = "reset"
    /\ After(t, [Mine(t) EXCEPT !.key = Call(t).key]) /\ Quiet(t)
BindsValue(t) ==
    /\ Moves(t, "bindValue", "step") /\ Call(t).op = "add" /\ Mine(t).at = "reset"
    /\ After(t, [Mine(t) EXCEPT !.value = Call(t).value]) /\ Quiet(t)
Misuses(t) ==
    /\ thr[t].at \in {"bindKey", "bindValue"} /\ Errs(t, "misuse")
    /\ Call(t).op # "create" /\ Mine(t).at # "reset" /\ stmt' = stmt /\ Quiet(t)
IsRefused(t) ==
    /\ thr[t].at = "step" /\ Errs(t, "busy")
    /\ After(t, [Mine(t) EXCEPT !.at = "pending"])
    /\ lock' = lock /\ dirty' = dirty /\ rows' = rows
    /\ refused' = IF Call(t).op = "add" THEN refused \cup {Of[t]} ELSE refused
Hits(t) ==
    LET table == View(Of[t])[Call(t).table]
    IN  /\ Moves(t, "step", "column") /\ Call(t).op = "query"
        /\ Mine(t).key \in DOMAIN table
        /\ After(t, [Mine(t) EXCEPT !.at = "row", !.value = table[Mine(t).key]])
        /\ lock'[Of[t]] = IF lock[Of[t]] = "none" THEN "shared" ELSE lock[Of[t]]
        /\ UNCHANGED <<rows, refused>> /\ dirty' = dirty
Misses(t) ==
    /\ Moves(t, "step", "miss") /\ Call(t).op = "query"
    /\ After(t, [Mine(t) EXCEPT !.at = "done"])
    /\ \/ /\ lock[Of[t]] = "none" /\ Running(t) # {} /\ lock'[Of[t]] = "shared"
          /\ UNCHANGED <<rows, refused>> /\ dirty' = dirty
       \/ Halted(t)
Reads(t) ==
    /\ Moves(t, "column", "ok") /\ Call(t).op = "query"
    /\ thr'[t].found = IF Mine(t).at = "row" THEN Mine(t).value ELSE Null
    /\ stmt' = stmt /\ Quiet(t)
Exists(t) ==
    /\ Moves(t, "step", "ok") /\ Call(t).op = "create" /\ Call(t).table \in DOMAIN rows
    /\ stmt' = stmt /\ Quiet(t)
Writes(t) ==
    /\ thr[t].at = "step" /\ Call(t).op # "query" /\ Free(t, {"reserved", "exclusive"})
    /\ Call(t).op = "create" => Call(t).table \notin DOMAIN rows
    /\ lock'[Of[t]] = "reserved" /\ dirty'[Of[t]] = Write(t) /\ UNCHANGED <<rows, refused>>
    /\ IF Writers(t) # {}
       THEN Moves(t, "step", "ok") /\ After(t, [Mine(t) EXCEPT !.at = "done"])
       ELSE Moves(t, "step", "reserved") /\ stmt' = stmt
Excludes(t) ==
    /\ Moves(t, "reserved", "exclusive") /\ Call(t).op # "query"
    /\ lock'[Of[t]] = "exclusive" /\ dirty' = dirty /\ stmt' = stmt
    /\ UNCHANGED <<rows, refused>>
RollsBack(t) ==
    /\ thr[t].at = "reserved" /\ Errs(t, "busy") /\ Call(t).op # "query"
    /\ After(t, [Mine(t) EXCEPT !.at = "done"])
    /\ Ended(t) /\ UNCHANGED <<rows, refused>>
Commits(t) ==
    /\ Moves(t, "exclusive", "ok") /\ Call(t).op # "query"
    /\ After(t, [Mine(t) EXCEPT !.at = "done"])
    /\ rows' = dirty[Of[t]] /\ Ended(t) /\ UNCHANGED refused

(* A thread inside SQLite is in a phase that calls it.                     *)
LEMMA CallerPhase ==
    ASSUME Shapes, NEW t \in Threads, thr[t].at # None
    PROVE  thr[t].phase \in Calling
  BY DEF Shapes, ThreadOK, AtOK, Calling

(* The EXCEPTs of a step of t.                                             *)
LEMMA ThreadStep ==
    ASSUME Shapes, NEW t \in Threads
    PROVE  /\ \A at : Goto(t, at) =>
                 /\ DOMAIN thr' = Threads /\ \A u \in Threads : u # t => thr'[u] = thr[u]
                 /\ DOMAIN thr'[t] = Records /\ thr'[t].at = at
                 /\ thr'[t].phase = thr[t].phase /\ thr'[t].params = thr[t].params
                 /\ thr'[t].left = thr[t].left /\ thr'[t].retained = thr[t].retained
                 /\ thr'[t].found = thr[t].found /\ thr'[t].cause = thr[t].cause
           /\ \A c : Fails(t, c) =>
                 /\ DOMAIN thr' = Threads /\ \A u \in Threads : u # t => thr'[u] = thr[u]
                 /\ DOMAIN thr'[t] = Records /\ thr'[t].at = "error" /\ thr'[t].cause = c
                 /\ thr'[t].phase = thr[t].phase /\ thr'[t].params = thr[t].params
                 /\ thr'[t].left = thr[t].left /\ thr'[t].retained = thr[t].retained
                 /\ thr'[t].found = thr[t].found
<1>1. DOMAIN thr = Threads /\ DOMAIN thr[t] = Records
  BY DEF Shapes, ThreadOK
<1>2. ASSUME NEW at, Goto(t, at)
      PROVE  /\ DOMAIN thr' = Threads /\ \A u \in Threads : u # t => thr'[u] = thr[u]
             /\ thr'[t] = [thr[t] EXCEPT !.at = at]
  BY <1>1, <1>2 DEF Goto
<1>3. ASSUME NEW c, Fails(t, c)
      PROVE  /\ DOMAIN thr' = Threads /\ \A u \in Threads : u # t => thr'[u] = thr[u]
             /\ thr'[t] = [thr[t] EXCEPT !.at = "error", !.cause = c]
  BY <1>1, <1>3 DEF Fails
<1>4. ASSUME NEW at, Goto(t, at)
      PROVE  /\ DOMAIN thr' = Threads /\ \A u \in Threads : u # t => thr'[u] = thr[u]
             /\ DOMAIN thr'[t] = Records /\ thr'[t].at = at
             /\ thr'[t].phase = thr[t].phase /\ thr'[t].params = thr[t].params
             /\ thr'[t].left = thr[t].left /\ thr'[t].retained = thr[t].retained
             /\ thr'[t].found = thr[t].found /\ thr'[t].cause = thr[t].cause
  <2> DEFINE x == [thr[t] EXCEPT !.at = at]
  <2>1. /\ DOMAIN x = Records /\ x.at = at /\ x.phase = thr[t].phase
        /\ x.params = thr[t].params /\ x.left = thr[t].left /\ x.found = thr[t].found
        /\ x.retained = thr[t].retained /\ x.cause = thr[t].cause
    BY <1>1 DEF Records
  <2>2. thr'[t] = x
    BY <1>2, <1>4
  <2> HIDE DEF x
  <2> QED
    BY <1>2, <1>4, <2>1, <2>2
<1>5. ASSUME NEW c, Fails(t, c)
      PROVE  /\ DOMAIN thr' = Threads /\ \A u \in Threads : u # t => thr'[u] = thr[u]
             /\ DOMAIN thr'[t] = Records /\ thr'[t].at = "error" /\ thr'[t].cause = c
             /\ thr'[t].phase = thr[t].phase /\ thr'[t].params = thr[t].params
             /\ thr'[t].left = thr[t].left /\ thr'[t].retained = thr[t].retained
             /\ thr'[t].found = thr[t].found
  <2> DEFINE x == [thr[t] EXCEPT !.at = "error", !.cause = c]
  <2>1. /\ DOMAIN x = Records /\ x.at = "error" /\ x.cause = c /\ x.phase = thr[t].phase
        /\ x.params = thr[t].params /\ x.left = thr[t].left /\ x.found = thr[t].found
        /\ x.retained = thr[t].retained
    BY <1>1 DEF Records
  <2>2. thr'[t] = x
    BY <1>3, <1>5
  <2> HIDE DEF x
  <2> QED
    BY <1>3, <1>5, <2>1, <2>2
<1> QED
  BY <1>4, <1>5

LEMMA StmtStep ==
    ASSUME Shapes, NEW t \in Threads, NEW x, Stmt(t) \in Statements, SetStmt(t, x)
    PROVE  /\ DOMAIN stmt' = Processes /\ DOMAIN stmt'[Of[t]] = Statements
           /\ \A q \in Processes : q # Of[t] => stmt'[q] = stmt[q]
           /\ \A s \in Statements : s # Stmt(t) => stmt'[Of[t]][s] = stmt[Of[t]][s]
           /\ stmt'[Of[t]][Stmt(t)] = x
<1>1. Of[t] \in Processes
  BY ProgramParts
<1>2. DOMAIN stmt = Processes /\ DOMAIN stmt[Of[t]] = Statements
  BY <1>1 DEF Shapes, ProcessOK
<1> QED
  BY <1>1, <1>2 DEF SetStmt

LEMMA EndStep ==
    ASSUME Shapes, NEW t \in Threads, EndTransaction(t)
    PROVE  /\ Ended(t) /\ DOMAIN lock' = Processes /\ DOMAIN dirty' = Processes
           /\ \A q \in Processes : q # Of[t] => lock'[q] = lock[q] /\ dirty'[q] = dirty[q]
  BY ProgramParts DEF Shapes, EndTransaction, Ended

LEMMA HaltStep ==
    ASSUME Shapes, NEW t \in Threads, UNCHANGED <<rows, refused>>,
           Halt(t) \/ UNCHANGED <<lock, dirty>>
    PROVE  /\ Halt(t) => Halted(t)
           /\ UNCHANGED <<lock, dirty>> => Quiet(t)
           /\ DOMAIN lock' = Processes /\ DOMAIN dirty' = Processes
           /\ \A q \in Processes : q # Of[t] => lock'[q] = lock[q] /\ dirty'[q] = dirty[q]
<1>1. UNCHANGED <<lock, dirty>> =>
          /\ Quiet(t) /\ DOMAIN lock' = Processes /\ DOMAIN dirty' = Processes
          /\ \A q \in Processes : q # Of[t] => lock'[q] = lock[q] /\ dirty'[q] = dirty[q]
  BY DEF Quiet, Shapes
<1> QED
  BY <1>1, EndStep DEF Halt, Halted

SomeCall(t) ==
    \/ Resets(t) \/ BindsKey(t) \/ BindsValue(t) \/ Misuses(t) \/ IsRefused(t)
    \/ Hits(t) \/ Misses(t) \/ Reads(t) \/ Exists(t) \/ Writes(t) \/ Excludes(t)
    \/ RollsBack(t) \/ Commits(t)

LEMMA SQLiteStep ==
    ASSUME Shapes, NEW t \in Threads, SQLite(t)
    PROVE  Local(t) /\ SomeCall(t)
<1>0. Of[t] \in Processes
  BY ProgramParts
<1>1. UNCHANGED <<program, db, objects, stops>>
  BY DEF SQLite
<1>2. /\ DOMAIN lock = Processes /\ DOMAIN dirty = Processes
      /\ DOMAIN stmt = Processes /\ DOMAIN stmt[Of[t]] = Statements
  BY <1>0 DEF Shapes, ProcessOK
<1>3. AtOK(thr[t].phase, thr[t].at)
  BY DEF Shapes, ThreadOK
<1>4. thr[t].phase \in Calling =>
          /\ Call(t).op = "create" <=> thr[t].phase = "open"
          /\ Call(t).op = "query" <=> thr[t].phase \in {"find", "lookup"}
          /\ Call(t).op = "add" <=> thr[t].phase \in {"save", "add"}
          /\ Call(t).op # "create" => Stmt(t) \in Statements
  BY CallShape
<1>5. CASE sqlite3_reset(t)
  <2>1. thr[t].phase \in Calling /\ Call(t).op # "create" /\ Stmt(t) \in Statements
    BY <1>3, <1>4, <1>5, NoneAssumption DEF sqlite3_reset, AtOK, Calling
  <2>2. /\ thr[t].at = "reset" /\ Goto(t, "bindKey") /\ UNCHANGED <<rows, refused>>
        /\ SetStmt(t, [Mine(t) EXCEPT !.at = "reset"])
        /\ IF Mine(t).at \in {"row", "pending"} THEN Halt(t) ELSE UNCHANGED <<lock, dirty>>
    BY <1>5 DEF sqlite3_reset
  <2>3. /\ IF Mine(t).at \in {"row", "pending"} THEN Halted(t) ELSE Quiet(t)
        /\ DOMAIN lock' = Processes /\ DOMAIN dirty' = Processes
        /\ \A q \in Processes : q # Of[t] => lock'[q] = lock[q] /\ dirty'[q] = dirty[q]
    BY <2>2, HaltStep
  <2>4. stmt'[Of[t]][Stmt(t)] = [Mine(t) EXCEPT !.at = "reset"]
    BY <2>1, <2>2, StmtStep
  <2>5. Local(t)
    BY <1>1, <2>1, <2>2, <2>3, StmtStep, ThreadStep DEF Local
  <2>6. Resets(t)
    BY <2>1, <2>2, <2>3, <2>4, ThreadStep DEF Resets, Moves, After
  <2> QED
    BY <2>5, <2>6 DEF SomeCall
<1>6. CASE bindKey(t)
  <2>1. thr[t].phase \in Calling /\ Call(t).op # "create" /\ Stmt(t) \in Statements
    BY <1>3, <1>4, <1>6, NoneAssumption DEF bindKey, AtOK, Calling
  <2>2. /\ thr[t].at = "bindKey" /\ UNCHANGED <<data, refused>> /\ Mine(t).at = "reset"
        /\ Goto(t, IF Call(t).op = "add" THEN "bindValue" ELSE "step")
        /\ SetStmt(t, [Mine(t) EXCEPT !.key = Call(t).key])
    BY <1>6 DEF bindKey
  <2>3. stmt'[Of[t]][Stmt(t)] = [Mine(t) EXCEPT !.key = Call(t).key]
    BY <2>1, <2>2, StmtStep
  <2>4. Local(t)
    BY <1>1, <1>2, <2>1, <2>2, StmtStep, ThreadStep DEF Local, data
  <2>5. BindsKey(t)
    BY <2>1, <2>2, <2>3, ThreadStep DEF BindsKey, Moves, After, Quiet, data
  <2> QED
    BY <2>4, <2>5 DEF SomeCall
<1>7. CASE bindValue(t)
  <2>1. thr[t].phase \in Calling /\ Call(t).op = "add" /\ Stmt(t) \in Statements
    BY <1>3, <1>4, <1>7, NoneAssumption DEF bindValue, AtOK, Calling
  <2>2. /\ thr[t].at = "bindValue" /\ UNCHANGED <<data, refused>> /\ Mine(t).at = "reset"
        /\ Goto(t, "step")
        /\ SetStmt(t, [Mine(t) EXCEPT !.value = Call(t).value])
    BY <1>7 DEF bindValue
  <2>3. stmt'[Of[t]][Stmt(t)] = [Mine(t) EXCEPT !.value = Call(t).value]
    BY <2>1, <2>2, StmtStep
  <2>4. Local(t)
    BY <1>1, <1>2, <2>1, <2>2, StmtStep, ThreadStep DEF Local, data
  <2>5. BindsValue(t)
    BY <2>1, <2>2, <2>3, ThreadStep DEF BindsValue, Moves, After, Quiet, data
  <2> QED
    BY <2>4, <2>5 DEF SomeCall
<1>8. CASE bindMisused(t)
  <2>1. thr[t].phase \in Calling /\ Call(t).op # "create"
    BY <1>3, <1>4, <1>8, NoneAssumption DEF bindMisused, AtOK, Calling
  <2>2. /\ thr[t].at \in {"bindKey", "bindValue"} /\ UNCHANGED <<data, stmt, refused>>
        /\ Mine(t).at # "reset" /\ Fails(t, "misuse")
    BY <1>8 DEF bindMisused
  <2>3. Local(t)
    BY <1>1, <1>2, <2>2, ThreadStep DEF Local, data
  <2>4. Misuses(t)
    BY <2>1, <2>2, ThreadStep DEF Misuses, Errs, Quiet, data
  <2> QED
    BY <2>3, <2>4 DEF SomeCall
<1>9. ASSUME NEW locks, Refused(t, locks), thr[t].at = "step"
      PROVE  Local(t) /\ IsRefused(t)
  <2>1. thr[t].phase \in Calling
    BY <1>9, CallerPhase, NoneAssumption
  <2>2. /\ UNCHANGED data /\ Fails(t, "busy")
        /\ refused' = IF Call(t).op = "add" THEN refused \cup {Of[t]} ELSE refused
        /\ IF Call(t).op = "create" THEN UNCHANGED stmt
           ELSE SetStmt(t, [Mine(t) EXCEPT !.at = "pending"])
    BY <1>9 DEF Refused
  <2>3. /\ DOMAIN stmt' = Processes /\ DOMAIN stmt'[Of[t]] = Statements
        /\ \A q \in Processes : q # Of[t] => stmt'[q] = stmt[q]
        /\ \A s \in Statements : s # Stmt(t) => stmt'[Of[t]][s] = stmt[Of[t]][s]
        /\ After(t, [Mine(t) EXCEPT !.at = "pending"])
    BY <1>2, <1>4, <2>1, <2>2, StmtStep DEF After
  <2>4. Local(t)
    BY <1>1, <1>2, <2>2, <2>3, ThreadStep DEF Local, data
  <2>5. IsRefused(t)
    BY <1>9, <2>2, <2>3, ThreadStep DEF IsRefused, Errs, data
  <2> QED
    BY <2>4, <2>5
<1>10. CASE stepQuery(t)
  <2> DEFINE table == View(Of[t])[Call(t).table]
             hit == Mine(t).at # "row" /\ Mine(t).key \in DOMAIN table
  <2>1. thr[t].phase \in Calling /\ Call(t).op = "query" /\ Stmt(t) \in Statements
        /\ thr[t].at = "step"
    BY <1>4, <1>10, CallerPhase, NoneAssumption DEF stepQuery
  <2>2. \/ Refused(t, {"exclusive"})
        \/ /\ Granted(t, {"exclusive"}) /\ hit
           /\ SetStmt(t, [Mine(t) EXCEPT !.at = "row", !.value = table[Mine(t).key]])
           /\ lock' = [lock EXCEPT ![Of[t]] = IF @ = "none" THEN "shared" ELSE @]
           /\ Goto(t, "column")
           /\ UNCHANGED dirty
        \/ /\ Granted(t, {"exclusive"}) /\ ~hit
           /\ SetStmt(t, [Mine(t) EXCEPT !.at = "done"])
           /\ IF lock[Of[t]] = "none" /\ Running(t) # {}
              THEN lock' = [lock EXCEPT ![Of[t]] = "shared"] /\ UNCHANGED dirty
              ELSE Halt(t)
           /\ Goto(t, "miss")
    BY <1>10 DEF stepQuery
  <2>3. CASE Refused(t, {"exclusive"})
    BY <1>9, <2>1, <2>3 DEF SomeCall
  <2> DEFINE x == [Mine(t) EXCEPT !.at = "row", !.value = table[Mine(t).key]]
  <2>4. CASE /\ Granted(t, {"exclusive"}) /\ hit
             /\ SetStmt(t, x)
             /\ lock' = [lock EXCEPT ![Of[t]] = IF @ = "none" THEN "shared" ELSE @]
             /\ Goto(t, "column")
             /\ UNCHANGED dirty
    <3>1. /\ DOMAIN lock' = Processes /\ \A q \in Processes : q # Of[t] => lock'[q] = lock[q]
          /\ lock'[Of[t]] = IF lock[Of[t]] = "none" THEN "shared" ELSE lock[Of[t]]
      BY <1>0, <1>2, <2>4
    <3>2. UNCHANGED <<rows, refused>> /\ hit
      BY <2>4 DEF Granted
    <3>3. stmt'[Of[t]][Stmt(t)] = x
      BY <2>1, <2>4, StmtStep
    <3>4. Local(t)
      BY <1>1, <1>2, <2>1, <2>4, <3>1, StmtStep, ThreadStep DEF Local
    <3>5. After(t, x) /\ Moves(t, "step", "column")
      BY <2>1, <2>4, <3>3, ThreadStep DEF After, Moves
    <3>6. Hits(t)
      BY <2>1, <2>4, <3>1, <3>2, <3>5 DEF Hits
    <3> QED
      BY <3>4, <3>6 DEF SomeCall
  <2>5. CASE /\ Granted(t, {"exclusive"}) /\ ~hit
             /\ SetStmt(t, [Mine(t) EXCEPT !.at = "done"])
             /\ IF lock[Of[t]] = "none" /\ Running(t) # {}
                THEN lock' = [lock EXCEPT ![Of[t]] = "shared"] /\ UNCHANGED dirty
                ELSE Halt(t)
             /\ Goto(t, "miss")
    <3>1. UNCHANGED <<rows, refused>>
      BY <2>5 DEF Granted
    <3>2. /\ DOMAIN lock' = Processes /\ DOMAIN dirty' = Processes
          /\ \A q \in Processes : q # Of[t] => lock'[q] = lock[q] /\ dirty'[q] = dirty[q]
          /\ \/ /\ lock[Of[t]] = "none" /\ Running(t) # {} /\ lock'[Of[t]] = "shared"
                /\ dirty' = dirty
             \/ Halted(t)
      <4>1. CASE lock[Of[t]] = "none" /\ Running(t) # {}
        BY <1>0, <1>2, <2>5, <4>1
      <4>2. CASE ~(lock[Of[t]] = "none" /\ Running(t) # {})
        BY <2>5, <3>1, <4>2, HaltStep
      <4> QED
        BY <4>1, <4>2
    <3>3. Local(t)
      BY <1>1, <1>2, <2>1, <2>5, <3>2, StmtStep, ThreadStep DEF Local
    <3>4. stmt'[Of[t]][Stmt(t)] = [Mine(t) EXCEPT !.at = "done"]
      BY <2>1, <2>5, StmtStep
    <3>5. Misses(t)
      BY <2>1, <2>5, <3>1, <3>2, <3>4, ThreadStep DEF Misses, Moves, After
    <3> QED
      BY <3>3, <3>5 DEF SomeCall
  <2> QED
    BY <2>2, <2>3, <2>4, <2>5
<1>11. CASE readFields(t)
  <2>1. thr[t].phase \in Calling /\ Call(t).op = "query" /\ thr[t].at = "column"
    BY <1>3, <1>4, <1>11, NoneAssumption DEF readFields, AtOK, Calling
  <2> DEFINE f == IF Mine(t).at = "row" THEN Mine(t).value ELSE Null
             x == [thr[t] EXCEPT !.at = "ok", !.found = f]
  <2>2. UNCHANGED <<data, stmt, refused>> /\ thr' = [thr EXCEPT ![t] = x]
    BY <1>11 DEF readFields
  <2> HIDE DEF f
  <2>3. /\ DOMAIN x = Records /\ x.at = "ok" /\ x.found = f /\ x.phase = thr[t].phase
        /\ x.params = thr[t].params /\ x.left = thr[t].left
        /\ x.retained = thr[t].retained /\ x.cause = thr[t].cause
    BY DEF Shapes, ThreadOK, Records
  <2> HIDE DEF x
  <2>4. DOMAIN thr' = Threads /\ thr'[t] = x /\ \A u \in Threads : u # t => thr'[u] = thr[u]
    BY <2>2 DEF Shapes
  <2>5. Local(t)
    BY <1>1, <1>2, <2>1, <2>2, <2>3, <2>4 DEF Local, data
  <2>6. Reads(t)
    BY <2>1, <2>2, <2>3, <2>4 DEF Reads, Moves, Quiet, data, f
  <2> QED
    BY <2>5, <2>6 DEF SomeCall
<1>12. CASE stepWrite(t)
  <2> DEFINE exists == Call(t).op = "create" /\ Call(t).table \in DOMAIN rows
             conflicting == IF exists THEN {"exclusive"} ELSE {"reserved", "exclusive"}
  <2>1. /\ thr[t].phase \in Calling /\ Call(t).op # "query" /\ thr[t].at = "step"
        /\ Call(t).op # "create" => Stmt(t) \in Statements
    BY <1>4, <1>12, CallerPhase, NoneAssumption DEF stepWrite
  <2>2. \/ Refused(t, conflicting)
        \/ /\ Granted(t, conflicting) /\ exists
           /\ Goto(t, "ok")
           /\ UNCHANGED <<lock, dirty, stmt>>
        \/ /\ Granted(t, conflicting) /\ ~exists
           /\ lock' = [lock EXCEPT ![Of[t]] = "reserved"]
           /\ dirty' = [dirty EXCEPT ![Of[t]] = Write(t)]
           /\ IF Writers(t) # {}
              THEN Goto(t, "ok") /\ Done(t)
              ELSE Goto(t, "reserved") /\ UNCHANGED stmt
    BY <1>12 DEF stepWrite
  <2>3. CASE Refused(t, conflicting)
    BY <1>9, <2>1, <2>3 DEF SomeCall
  <2>4. CASE /\ Granted(t, conflicting) /\ exists
             /\ Goto(t, "ok")
             /\ UNCHANGED <<lock, dirty, stmt>>
    <3>1. Local(t)
      BY <1>1, <1>2, <2>4, ThreadStep DEF Local
    <3>2. Exists(t)
      BY <2>1, <2>4, ThreadStep DEF Exists, Moves, Quiet, Granted
    <3> QED
      BY <3>1, <3>2 DEF SomeCall
  <2>5. CASE /\ Granted(t, conflicting) /\ ~exists
             /\ lock' = [lock EXCEPT ![Of[t]] = "reserved"]
             /\ dirty' = [dirty EXCEPT ![Of[t]] = Write(t)]
             /\ IF Writers(t) # {}
                THEN Goto(t, "ok") /\ Done(t)
                ELSE Goto(t, "reserved") /\ UNCHANGED stmt
    <3>1. /\ DOMAIN lock' = Processes /\ DOMAIN dirty' = Processes
          /\ lock'[Of[t]] = "reserved" /\ dirty'[Of[t]] = Write(t)
          /\ \A q \in Processes : q # Of[t] => lock'[q] = lock[q] /\ dirty'[q] = dirty[q]
      BY <1>0, <1>2, <2>5
    <3>2. UNCHANGED <<rows, refused>> /\ Free(t, {"reserved", "exclusive"})
      BY <2>5 DEF Granted, Free
    <3>3. /\ DOMAIN stmt' = Processes /\ DOMAIN stmt'[Of[t]] = Statements
          /\ \A q \in Processes : q # Of[t] => stmt'[q] = stmt[q]
          /\ \A s \in Statements : s # Stmt(t) => stmt'[Of[t]][s] = stmt[Of[t]][s]
          /\ IF Writers(t) # {} THEN After(t, [Mine(t) EXCEPT !.at = "done"])
             ELSE stmt' = stmt
      <4>1. CASE UNCHANGED stmt /\ (Call(t).op = "create" \/ Writers(t) = {})
        BY <1>2, <4>1 DEF After
      <4>2. CASE SetStmt(t, [Mine(t) EXCEPT !.at = "done"]) /\ Call(t).op # "create"
                 /\ Writers(t) # {}
        BY <2>1, <4>2, StmtStep DEF After
      <4> QED
        BY <1>4, <2>1, <2>5, <4>1, <4>2 DEF Done, Calling
    <3>4. Local(t)
      BY <1>1, <2>5, <3>1, <3>3, ThreadStep DEF Local
    <3>5. Writes(t)
      BY <2>1, <2>5, <3>1, <3>2, <3>3, ThreadStep DEF Writes, Moves
    <3> QED
      BY <3>4, <3>5 DEF SomeCall
  <2> QED
    BY <2>2, <2>3, <2>4, <2>5
<1>13. ASSUME Done(t), thr[t].phase \in Calling, Call(t).op # "query"
       PROVE  /\ DOMAIN stmt' = Processes /\ DOMAIN stmt'[Of[t]] = Statements
              /\ \A q \in Processes : q # Of[t] => stmt'[q] = stmt[q]
              /\ \A s \in Statements : s # Stmt(t) => stmt'[Of[t]][s] = stmt[Of[t]][s]
              /\ After(t, [Mine(t) EXCEPT !.at = "done"])
  <2>1. CASE UNCHANGED stmt /\ Call(t).op = "create"
    BY <1>2, <2>1 DEF After
  <2>2. CASE SetStmt(t, [Mine(t) EXCEPT !.at = "done"]) /\ Call(t).op # "create"
    BY <1>4, <1>13, <2>2, StmtStep DEF After
  <2> QED
    BY <1>4, <1>13, <2>1, <2>2 DEF Done, Calling
<1>14. CASE lockFile(t)
  <2>1. thr[t].phase \in Calling /\ Call(t).op # "query" /\ thr[t].at = "reserved"
    BY <1>3, <1>4, <1>14, NoneAssumption DEF lockFile, AtOK, Calling
  <2>2. UNCHANGED <<rows, refused>>
    BY <1>14 DEF lockFile
  <2>3. CASE lockExclusive(t)
    <3>1. /\ DOMAIN lock' = Processes /\ lock'[Of[t]] = "exclusive"
          /\ \A q \in Processes : q # Of[t] => lock'[q] = lock[q]
          /\ UNCHANGED <<dirty, stmt>> /\ Goto(t, "exclusive")
      BY <1>0, <1>2, <2>3 DEF lockExclusive
    <3>2. Local(t)
      BY <1>1, <1>2, <3>1, ThreadStep DEF Local
    <3>3. Excludes(t)
      BY <2>1, <2>2, <3>1, ThreadStep DEF Excludes, Moves
    <3> QED
      BY <3>2, <3>3 DEF SomeCall
  <2>4. CASE EndTransaction(t) /\ Fails(t, "busy") /\ Done(t)
    <3>1. Local(t)
      BY <1>1, <1>13, <2>1, <2>4, EndStep, ThreadStep DEF Local
    <3>2. RollsBack(t)
      BY <1>13, <2>1, <2>2, <2>4, EndStep, ThreadStep DEF RollsBack, Errs
    <3> QED
      BY <3>1, <3>2 DEF SomeCall
  <2> QED
    BY <1>14, <2>3, <2>4 DEF lockFile
<1>15. CASE commit(t)
  <2>1. thr[t].phase \in Calling /\ Call(t).op # "query" /\ thr[t].at = "exclusive"
    BY <1>3, <1>4, <1>15, NoneAssumption DEF commit, AtOK, Calling
  <2>2. /\ rows' = dirty[Of[t]] /\ EndTransaction(t) /\ Goto(t, "ok") /\ Done(t)
        /\ UNCHANGED refused
    BY <1>15 DEF commit
  <2>3. Local(t)
    BY <1>1, <1>13, <2>1, <2>2, EndStep, ThreadStep DEF Local
  <2>4. Commits(t)
    BY <1>13, <2>1, <2>2, EndStep, ThreadStep DEF Commits, Moves
  <2> QED
    BY <2>3, <2>4 DEF SomeCall
<1> QED
  BY <1>5, <1>6, <1>7, <1>8, <1>10, <1>11, <1>12, <1>14, <1>15 DEF SQLite

-----------------------------------------------------------------------------
(* What each step of a constructor does to its thread.                     *)
\* A step of t's constructor leaves the file and the other threads alone.
Alone(t) ==
    /\ UNCHANGED <<program, rows, lock, dirty, refused, stops>>
    /\ DOMAIN thr' = Threads /\ DOMAIN objects' = Threads
    /\ \A u \in Threads : u # t => thr'[u] = thr[u] /\ objects'[u] = objects[u]

Starts(t, phase, params, left, retained, binary) ==
    /\ UNCHANGED objects
    /\ DOMAIN thr'[t] = Records /\ thr'[t].phase = phase /\ thr'[t].cause = None
    /\ thr'[t].at = IF phase = "open" THEN "step"
                    ELSE IF phase \in {"find", "save", "lookup", "add"} THEN "reset"
                    ELSE None
    /\ thr'[t].params = params /\ thr'[t].left = left /\ thr'[t].retained = retained
    /\ thr'[t].found = binary

Ends(t, error) ==
    /\ thr'[t] = Idle
    /\ objects'[t] = Append(objects[t],
           [problem |-> Job(t).problem, error |-> error,
            params |-> IF error = None THEN thr[t].params ELSE None,
            program |-> IF error = None THEN thr[t].found ELSE None])

\* The phases in which a program is looked up and built.
Building == {"lookup", "binary", "source", "add"}
Succeeded(t) == \/ thr[t].phase = "binary" /\ thr[t].found # Null
                \/ thr[t].phase = "add" /\ thr[t].at = "ok"

FindsOpen(t) ==
    /\ thr[t].phase = "start" /\ db[Of[t]] = "open"
    /\ Starts(t, "find", None, <<>>, {}, None) /\ UNCHANGED <<db, stmt>>
Opens(t) ==
    /\ thr[t].phase = "start" /\ db[Of[t]] = "closed"
    /\ Starts(t, "open", None, <<"params", "kernel">>, {}, None)
    /\ db' = [db EXCEPT ![Of[t]] = "opening"] /\ UNCHANGED stmt
Gives(t) ==
    /\ thr[t].phase = "open" /\ thr[t].at = "error" /\ Ends(t, "CacheError")
    /\ db' = [db EXCEPT ![Of[t]] = "closed"]
    /\ stmt' = [stmt EXCEPT ![Of[t]] = NewStmts]
Creates(t) ==
    /\ thr[t].phase = "open" /\ thr[t].at = "ok" /\ thr[t].left = <<"params", "kernel">>
    /\ Starts(t, "open", thr[t].params, <<"kernel">>, thr[t].retained, None)
    /\ UNCHANGED <<db, stmt>>
IsOpen(t) ==
    /\ thr[t].phase = "open" /\ thr[t].at = "ok" /\ thr[t].left = <<"kernel">>
    /\ Starts(t, "find", None, <<>>, {}, None)
    /\ db' = [db EXCEPT ![Of[t]] = "open"] /\ UNCHANGED stmt
Finds(t) ==
    /\ thr[t].phase = "find" /\ thr[t].at = "ok"
    /\ Starts(t, "lookup", thr[t].found, thr[t].left, thr[t].retained, None)
Tries(t) ==
    \E left, retained :
        /\ \/ thr[t].phase = "find" /\ left = Trials(t) /\ retained = {}
           \/ /\ thr[t].phase \in Building /\ thr[t].left # <<>>
              /\ left = Tail(thr[t].left) /\ left # <<>>
              /\ \/ retained = thr[t].retained
                 \/ retained = thr[t].retained \cup {thr[t].params}
        /\ Starts(t, "lookup", Head(left), left, retained, None)
Saves(t) ==
    /\ thr[t].phase \in Building /\ thr[t].left # <<>>
    /\ \E v \in thr[t].retained \cup {thr[t].params} :
          Starts(t, "save", v, <<>>, thr[t].retained, None)
LooksUp(t) ==
    /\ thr[t].phase = "save" /\ thr[t].at = "ok"
    /\ Starts(t, "lookup", thr[t].params, thr[t].left, thr[t].retained, None)
Builds(t) ==
    \/ /\ thr[t].phase = "lookup" /\ thr[t].at = "ok"
       /\ Starts(t, "binary", thr[t].params, thr[t].left, thr[t].retained, thr[t].found)
    \/ /\ thr[t].phase \in {"lookup", "binary"}
       /\ Starts(t, "source", thr[t].params, thr[t].left, thr[t].retained, None)
Adds(t) ==
    /\ thr[t].phase = "source"
    /\ Starts(t, "add", thr[t].params, thr[t].left, thr[t].retained, Program(t))
Throws(t) ==
    \E e \in {"CacheError", "TuneError", "InternalError"} : Ends(t, e)
Succeeds(t) ==
    Succeeded(t) /\ thr[t].left = <<>> /\ Ends(t, None)

Connects(t) == FindsOpen(t) \/ Opens(t) \/ Gives(t) \/ Creates(t) \/ IsOpen(t)
Works(t) ==
    /\ thr[t].phase \notin {"start", "open"} /\ UNCHANGED <<db, stmt>>
    /\ AtOK(thr[t].phase, thr[t].at) /\ thr[t].at \notin {"reserved", "exclusive"}
    /\ \/ Finds(t) \/ Tries(t) \/ Saves(t) \/ LooksUp(t) \/ Builds(t) \/ Adds(t)
       \/ Throws(t) \/ Succeeds(t)

LEMMA IdleParts ==
    /\ DOMAIN Idle = Records /\ Idle.phase = "start" /\ Idle.at = None
    /\ Idle.params = None /\ Idle.left = <<>> /\ Idle.retained = {}
    /\ Idle.found = None /\ Idle.cause = None
  BY DEF Idle, Records

LEMMA EnterStep ==
    ASSUME Shapes, NEW t \in Threads, NEW phase, NEW r, DOMAIN r = Records,
           Enter(t, phase, r), UNCHANGED <<program, data, refused, stops, objects>>
    PROVE  /\ Alone(t)
           /\ Starts(t, phase, r.params, r.left, r.retained,
                     IF phase \in {"binary", "add"} THEN r.found ELSE None)
<1> DEFINE f == IF phase \in {"binary", "add"} THEN r.found ELSE None
           a == CASE phase = "open" -> "step"
                  [] phase \in {"find", "save", "lookup", "add"} -> "reset"
                  [] OTHER -> None
           x == [r EXCEPT !.phase = phase, !.cause = None, !.found = f, !.at = a]
<1>1. thr' = [thr EXCEPT ![t] = x]
  BY DEF Enter
<1>2. a = IF phase = "open" THEN "step"
          ELSE IF phase \in {"find", "save", "lookup", "add"} THEN "reset"
          ELSE None
  OBVIOUS
<1> HIDE DEF f, a
<1>3. /\ DOMAIN x = Records /\ x.phase = phase /\ x.cause = None /\ x.found = f /\ x.at = a
      /\ x.params = r.params /\ x.left = r.left /\ x.retained = r.retained
  BY DEF Records
<1> HIDE DEF x
<1>4. DOMAIN thr' = Threads /\ thr'[t] = x /\ \A u \in Threads : u # t => thr'[u] = thr[u]
  BY <1>1 DEF Shapes
<1>5. Alone(t)
  BY <1>4 DEF Alone, Shapes, data
<1> QED
  BY <1>2, <1>3, <1>4, <1>5 DEF Starts, f

LEMMA OutcomeStep ==
    ASSUME Shapes, NEW t \in Threads, NEW error, Outcome(t, error),
           UNCHANGED <<program, data, refused, stops>>
    PROVE  Alone(t) /\ Ends(t, error)
<1> DEFINE o == [problem |-> Job(t).problem, error |-> error,
                 params |-> IF error = None THEN thr[t].params ELSE None,
                 program |-> IF error = None THEN thr[t].found ELSE None]
<1>1. /\ objects' = [objects EXCEPT ![t] = Append(@, o)]
      /\ thr' = [thr EXCEPT ![t] = Idle]
  BY DEF Outcome
<1> HIDE DEF o
<1>2. /\ DOMAIN thr' = Threads /\ DOMAIN objects' = Threads
      /\ thr'[t] = Idle /\ objects'[t] = Append(objects[t], o)
      /\ \A u \in Threads : u # t => thr'[u] = thr[u] /\ objects'[u] = objects[u]
  BY <1>1 DEF Shapes
<1> QED
  BY <1>2 DEF Alone, Ends, data, o

LEMMA TryStep ==
    ASSUME Shapes, NEW t \in Threads, NEW left, NEW retained, Try(t, left, retained),
           UNCHANGED <<program, data, refused, stops, objects>>
    PROVE  Alone(t) /\ Starts(t, "lookup", Head(left), left, retained, None)
<1> DEFINE h == Head(left)
           r == [thr[t] EXCEPT !.params = h, !.left = left, !.retained = retained]
<1>1. DOMAIN thr[t] = Records
  BY DEF Shapes, ThreadOK
<1>2. Enter(t, "lookup", r)
  BY DEF Try
<1> HIDE DEF h
<1>3. DOMAIN r = Records /\ r.params = h /\ r.left = left /\ r.retained = retained
  BY <1>1 DEF Records
<1> HIDE DEF r
<1>4. /\ Alone(t)
      /\ Starts(t, "lookup", r.params, r.left, r.retained,
                IF "lookup" \in {"binary", "add"} THEN r.found ELSE None)
  BY <1>2, <1>3, EnterStep
<1> QED
  BY <1>3, <1>4 DEF h

LEMMA NextCandidateStep ==
    ASSUME Shapes, NEW t \in Threads, NEW retained, nextCandidate(t, retained),
           thr[t].left # <<>>, thr[t].phase \in Building,
           \/ retained = thr[t].retained
           \/ retained = thr[t].retained \cup {thr[t].params},
           UNCHANGED <<program, data, refused, stops>>
    PROVE  Alone(t) /\ (Tries(t) \/ Saves(t) \/ Throws(t))
<1> DEFINE rest == Tail(thr[t].left)
<1>1. CASE rest # <<>> /\ Try(t, rest, retained) /\ UNCHANGED objects
  <2>1. Alone(t) /\ Starts(t, "lookup", Head(rest), rest, retained, None)
    BY <1>1, TryStep
  <2>2. Tries(t)
    BY <1>1, <2>1 DEF Tries
  <2> QED
    BY <2>1, <2>2
<1>2. CASE Outcome(t, "TuneError")
  BY <1>2, OutcomeStep DEF Throws
<1>3. CASE /\ rest = <<>> /\ UNCHANGED objects
           /\ \E v \in retained :
                 Enter(t, "save", [thr[t] EXCEPT !.params = v, !.left = <<>>])
  <2>1. PICK v \in retained : Enter(t, "save", [thr[t] EXCEPT !.params = v, !.left = <<>>])
    BY <1>3
  <2> DEFINE r == [thr[t] EXCEPT !.params = v, !.left = <<>>]
  <2>2. DOMAIN r = Records /\ r.params = v /\ r.left = <<>> /\ r.retained = thr[t].retained
    BY DEF Shapes, ThreadOK, Records
  <2>3. Enter(t, "save", r)
    BY <2>1
  <2> HIDE DEF r
  <2>4. /\ Alone(t)
        /\ Starts(t, "save", r.params, r.left, r.retained,
                  IF "save" \in {"binary", "add"} THEN r.found ELSE None)
    BY <1>3, <2>2, <2>3, EnterStep
  <2>5. Starts(t, "save", v, <<>>, thr[t].retained, None)
    BY <2>2, <2>4
  <2>6. v \in thr[t].retained \cup {thr[t].params}
    OBVIOUS
  <2>7. Saves(t)
    BY <2>5, <2>6 DEF Saves
  <2> QED
    BY <2>4, <2>7
<1> QED
  BY <1>1, <1>2, <1>3 DEF nextCandidate

LEMMA FailStep ==
    ASSUME Shapes, NEW t \in Threads, thr[t].phase \in Building,
           Fail(t, "CacheError") \/ Fail(t, "InternalError"),
           UNCHANGED <<program, data, refused, stops>>
    PROVE  Alone(t) /\ (Tries(t) \/ Saves(t) \/ Throws(t))
<1>1. CASE thr[t].left # <<>>
  BY <1>1, NextCandidateStep DEF Fail
<1>2. CASE thr[t].left = <<>>
  BY <1>2, OutcomeStep DEF Fail, Throws
<1> QED
  BY <1>1, <1>2

LEMMA SuccessStep ==
    ASSUME Shapes, NEW t \in Threads, Succeeded(t), Success(t),
           UNCHANGED <<program, data, refused, stops>>
    PROVE  Alone(t) /\ (Tries(t) \/ Saves(t) \/ Throws(t) \/ Succeeds(t))
<1>0. thr[t].phase \in Building
  BY DEF Succeeded, Building
<1>1. CASE thr[t].left # <<>>
  BY <1>0, <1>1, NextCandidateStep DEF Success
<1>2. CASE thr[t].left = <<>>
  BY <1>2, OutcomeStep DEF Success, Succeeds
<1> QED
  BY <1>1, <1>2

LEMMA TablesLeft ==
    /\ Tail(<<"params", "kernel">>) = <<"kernel">> /\ <<"kernel">> # <<>>
    /\ Tail(<<"kernel">>) = <<>>
<1>1. Tail(<<"params", "kernel">>) = <<"kernel">>
  OBVIOUS
<1>2. Tail(<<"kernel">>) = <<>> /\ <<"kernel">> # <<>>
  OBVIOUS
<1> QED
  BY <1>1, <1>2

LEMMA ConstructStep ==
    ASSUME Shapes, NEW t \in Threads, Construct(t)
    PROVE  Alone(t) /\ (Connects(t) \/ Works(t))
<1>0. UNCHANGED <<program, data, refused, stops>>
  BY DEF Construct
<1>1. AtOK(thr[t].phase, thr[t].at) /\ DOMAIN thr[t] = Records
  BY DEF Shapes, ThreadOK
<1>2. ASSUME NEW phase, NEW r, DOMAIN r = Records, Enter(t, phase, r), UNCHANGED objects
      PROVE  /\ Alone(t)
             /\ Starts(t, phase, r.params, r.left, r.retained,
                       IF phase \in {"binary", "add"} THEN r.found ELSE None)
  BY <1>0, <1>2, EnterStep
<1>3. CASE getDB(t)
  <2>1. CASE db[Of[t]] = "open" /\ Enter(t, "find", Idle) /\ UNCHANGED db
    <3>1. Alone(t) /\ Starts(t, "find", None, <<>>, {}, None)
      BY <1>2, <1>3, <2>1, IdleParts DEF getDB
    <3> QED
      BY <1>3, <2>1, <3>1 DEF getDB, FindsOpen, Connects
  <2>2. CASE /\ db[Of[t]] = "closed" /\ db' = [db EXCEPT ![Of[t]] = "opening"]
             /\ Enter(t, "open", [Idle EXCEPT !.left = <<"params", "kernel">>])
    <3> DEFINE l == <<"params", "kernel">>
               r == [Idle EXCEPT !.left = l]
    <3>1. Enter(t, "open", r)
      BY <2>2
    <3> HIDE DEF l
    <3>2. DOMAIN r = Records /\ r.params = None /\ r.left = l /\ r.retained = {}
      BY IdleParts DEF Records
    <3> HIDE DEF r
    <3>3. Alone(t) /\ Starts(t, "open", None, l, {}, None)
      BY <1>2, <1>3, <3>1, <3>2 DEF getDB
    <3> QED
      BY <1>3, <2>2, <3>3 DEF getDB, Opens, Connects, l
  <2> QED
    BY <1>3, <2>1, <2>2 DEF getDB
<1>4. CASE openFailed(t)
  <2>1. Alone(t) /\ Ends(t, "CacheError")
    BY <1>0, <1>4, OutcomeStep DEF openFailed
  <2> QED
    BY <1>4, <2>1 DEF openFailed, Gives, Connects
<1>5. CASE opened(t)
  <2> DEFINE rest == Tail(thr[t].left)
  <2>1. /\ thr[t].phase = "open" /\ thr[t].at = "ok" /\ UNCHANGED <<stmt, objects>>
        /\ IF rest # <<>>
           THEN Enter(t, "open", [thr[t] EXCEPT !.left = rest]) /\ UNCHANGED db
           ELSE Enter(t, "find", Idle) /\ db' = [db EXCEPT ![Of[t]] = "open"]
    BY <1>5 DEF opened
  <2>2. \/ thr[t].left = <<"params", "kernel">> /\ rest = <<"kernel">> /\ rest # <<>>
        \/ thr[t].left = <<"kernel">> /\ rest = <<>>
    <3>1. thr[t].left \in {<<"params", "kernel">>, <<"kernel">>}
      BY <2>1 DEF Shapes, ThreadOK
    <3> QED
      BY <3>1, TablesLeft, Zenon
  <2> HIDE DEF rest
  <2>3. CASE rest # <<>>
    <3> DEFINE r == [thr[t] EXCEPT !.left = rest]
    <3>1. /\ DOMAIN r = Records /\ r.params = thr[t].params /\ r.left = rest
          /\ r.retained = thr[t].retained
      BY <1>1 DEF Records
    <3>2. Enter(t, "open", r) /\ UNCHANGED db
      BY <2>1, <2>3
    <3> HIDE DEF r
    <3>3. Alone(t) /\ Starts(t, "open", thr[t].params, rest, thr[t].retained, None)
      BY <1>2, <2>1, <3>1, <3>2
    <3>4. thr[t].left = <<"params", "kernel">> /\ rest = <<"kernel">>
      BY <2>2, <2>3
    <3> QED
      BY <2>1, <3>2, <3>3, <3>4 DEF Creates, Connects
  <2>4. CASE rest = <<>>
    <3>1. Enter(t, "find", Idle) /\ db' = [db EXCEPT ![Of[t]] = "open"]
      BY <2>1, <2>4
    <3>2. Alone(t) /\ Starts(t, "find", None, <<>>, {}, None)
      BY <1>2, <2>1, <3>1, IdleParts
    <3>3. thr[t].left = <<"kernel">>
      BY <2>2, <2>4
    <3> QED
      BY <2>1, <3>1, <3>2, <3>3 DEF IsOpen, Connects
  <2> QED
    BY <2>3, <2>4
<1>6. CASE found(t)
  <2>1. thr[t].phase = "find" /\ UNCHANGED <<db, stmt>>
        /\ thr[t].at \in {"ok", "miss", "error"}
    BY <1>6 DEF found
  <2>2. CASE /\ thr[t].at = "ok" /\ UNCHANGED objects
             /\ Enter(t, "lookup", [thr[t] EXCEPT !.params = thr[t].found])
    <3> DEFINE r == [thr[t] EXCEPT !.params = thr[t].found]
    <3>1. /\ DOMAIN r = Records /\ r.params = thr[t].found /\ r.left = thr[t].left
          /\ r.retained = thr[t].retained
      BY <1>1 DEF Records
    <3>2. Enter(t, "lookup", r)
      BY <2>2
    <3> HIDE DEF r
    <3>3. /\ Alone(t)
          /\ Starts(t, "lookup", thr[t].found, thr[t].left, thr[t].retained, None)
      BY <1>2, <2>2, <3>1, <3>2
    <3> QED
      BY <1>1, <2>1, <2>2, <3>3 DEF Finds, Works
  <2>3. CASE Try(t, Trials(t), {}) /\ UNCHANGED objects
    <3>1. Alone(t) /\ Starts(t, "lookup", Head(Trials(t)), Trials(t), {}, None)
      BY <1>0, <2>3, TryStep
    <3>2. Tries(t)
      BY <2>1, <3>1 DEF Tries
    <3> QED
      BY <1>1, <2>1, <3>1, <3>2 DEF Works
  <2>4. CASE Outcome(t, "CacheError")
    <3>1. Alone(t) /\ Throws(t)
      BY <1>0, <2>4, OutcomeStep DEF Throws
    <3> QED
      BY <1>1, <2>1, <3>1 DEF Works
  <2> QED
    BY <1>6, <2>2, <2>3, <2>4 DEF found
<1>7. CASE lookedUp(t)
  <2>1. thr[t].phase = "lookup" /\ UNCHANGED <<db, stmt>>
        /\ thr[t].at \in {"reset", "ok", "miss", "error"}
    BY <1>7 DEF lookedUp
  <2>2. CASE thr[t].at = "ok" /\ Enter(t, "binary", thr[t]) /\ UNCHANGED objects
    <3>1. Alone(t) /\ Builds(t)
      BY <1>1, <1>2, <2>1, <2>2 DEF Builds
    <3> QED
      BY <1>1, <2>1, <3>1 DEF Works
  <2>3. CASE Enter(t, "source", thr[t]) /\ UNCHANGED objects
    <3>1. Alone(t) /\ Builds(t)
      BY <1>1, <1>2, <2>1, <2>3 DEF Builds
    <3> QED
      BY <1>1, <2>1, <3>1 DEF Works
  <2>4. CASE Fail(t, "CacheError") \/ Fail(t, "InternalError")
    <3>1. Alone(t) /\ (Tries(t) \/ Saves(t) \/ Throws(t))
      BY <1>0, <2>1, <2>4, FailStep DEF Building
    <3> QED
      BY <1>1, <2>1, <3>1 DEF Works
  <2> QED
    BY <1>7, <2>2, <2>3, <2>4 DEF lookedUp
<1>8. CASE buildBinary(t)
  <2>1. thr[t].phase = "binary" /\ UNCHANGED <<db, stmt>> /\ thr[t].at = None
    BY <1>1, <1>8 DEF buildBinary, AtOK
  <2>2. CASE thr[t].found # Null /\ Success(t)
    <3>1. Alone(t) /\ (Tries(t) \/ Saves(t) \/ Throws(t) \/ Succeeds(t))
      BY <1>0, <2>1, <2>2, SuccessStep DEF Succeeded
    <3> QED
      BY <1>1, <2>1, <3>1, NoneAssumption DEF Works
  <2>3. CASE Enter(t, "source", thr[t]) /\ UNCHANGED objects
    <3>1. Alone(t) /\ Builds(t)
      BY <1>1, <1>2, <2>1, <2>3 DEF Builds
    <3> QED
      BY <1>1, <2>1, <3>1, NoneAssumption DEF Works
  <2>4. CASE Fail(t, "InternalError")
    <3>1. Alone(t) /\ (Tries(t) \/ Saves(t) \/ Throws(t))
      BY <1>0, <2>1, <2>4, FailStep DEF Building
    <3> QED
      BY <1>1, <2>1, <3>1, NoneAssumption DEF Works
  <2> QED
    BY <1>8, <2>2, <2>3, <2>4 DEF buildBinary
<1>9. CASE buildSource(t)
  <2>1. thr[t].phase = "source" /\ UNCHANGED <<db, stmt>> /\ thr[t].at = None
    BY <1>1, <1>9 DEF buildSource, AtOK
  <2>2. CASE Enter(t, "add", [thr[t] EXCEPT !.found = Program(t)]) /\ UNCHANGED objects
    <3> DEFINE q == Program(t)
               r == [thr[t] EXCEPT !.found = q]
    <3>1. Enter(t, "add", r)
      BY <2>2
    <3> HIDE DEF q
    <3>2. /\ DOMAIN r = Records /\ r.params = thr[t].params /\ r.left = thr[t].left
          /\ r.retained = thr[t].retained /\ r.found = q
      BY <1>1 DEF Records
    <3> HIDE DEF r
    <3>3. Alone(t) /\ Starts(t, "add", thr[t].params, thr[t].left, thr[t].retained, q)
      BY <1>2, <2>2, <3>1, <3>2
    <3> QED
      BY <1>1, <2>1, <3>3, NoneAssumption DEF Adds, Works, q
  <2>3. CASE Fail(t, "InternalError")
    <3>1. Alone(t) /\ (Tries(t) \/ Saves(t) \/ Throws(t))
      BY <1>0, <2>1, <2>3, FailStep DEF Building
    <3> QED
      BY <1>1, <2>1, <3>1, NoneAssumption DEF Works
  <2> QED
    BY <1>9, <2>2, <2>3 DEF buildSource
<1>10. CASE added(t)
  <2>1. thr[t].phase = "add" /\ UNCHANGED <<db, stmt>> /\ thr[t].at \in {"ok", "error"}
    BY <1>10 DEF added
  <2>2. CASE thr[t].at = "ok" /\ Success(t)
    <3>1. Alone(t) /\ (Tries(t) \/ Saves(t) \/ Throws(t) \/ Succeeds(t))
      BY <1>0, <2>1, <2>2, SuccessStep DEF Succeeded
    <3> QED
      BY <1>1, <2>1, <3>1 DEF Works
  <2>3. CASE Fail(t, "CacheError") \/ Fail(t, "InternalError")
    <3>1. Alone(t) /\ (Tries(t) \/ Saves(t) \/ Throws(t))
      BY <1>0, <2>1, <2>3, FailStep DEF Building
    <3> QED
      BY <1>1, <2>1, <3>1 DEF Works
  <2> QED
    BY <1>10, <2>2, <2>3 DEF added
<1>11. CASE saved(t)
  <2>1. thr[t].phase = "save" /\ UNCHANGED <<db, stmt>> /\ thr[t].at \in {"ok", "error"}
    BY <1>11 DEF saved
  <2>2. CASE thr[t].at = "ok" /\ Enter(t, "lookup", thr[t]) /\ UNCHANGED objects
    <3>1. Alone(t) /\ LooksUp(t)
      BY <1>1, <1>2, <2>1, <2>2 DEF LooksUp
    <3> QED
      BY <1>1, <2>1, <3>1 DEF Works
  <2>3. CASE Outcome(t, "CacheError")
    <3>1. Alone(t) /\ Throws(t)
      BY <1>0, <2>3, OutcomeStep DEF Throws
    <3> QED
      BY <1>1, <2>1, <3>1 DEF Works
  <2> QED
    BY <1>11, <2>2, <2>3 DEF saved
<1> QED
  BY <1>3, <1>4, <1>5, <1>6, <1>7, <1>8, <1>9, <1>10, <1>11 DEF Construct

-----------------------------------------------------------------------------
(* The locks.                                                              *)
ActiveStmts(p) == {s \in Statements : stmt[p][s].at \in {"row", "pending"}}

\* A lock is held for a thread inside SQLite or for a statement.
LockOK(p) ==
    /\ lock[p] = "exclusive" => \E t \in Inside(p) : thr[t].at = "exclusive"
    /\ lock[p] = "reserved" => \/ \E t \in Inside(p) : thr[t].at = "reserved"
                               \/ \E s \in ActiveStmts(p) : s[2] = "add"
    /\ lock[p] = "shared" => ActiveStmts(p) # {}
    /\ lock[p] \in {"none", "shared"} <=> dirty[p] = <<>>

\* A thread that writes holds the lock, and no other of its process writes.
HolderOK(t) ==
    /\ thr[t].at = "reserved" => lock[Of[t]] = "reserved"
    /\ thr[t].at = "exclusive" => lock[Of[t]] = "exclusive"
    /\ \A u \in Inside(Of[t]) : t \in Inside(Of[t]) => u = t

\* The database is opened by one thread, before any other uses it.
OpenerOK(t) ==
    /\ thr[t].phase = "open" => db[Of[t]] = "opening"
    /\ thr[t].phase \notin {"start", "open"} => db[Of[t]] = "open"
    /\ \A u \in Threads :
          thr[t].phase = "open" /\ thr[u].phase = "open" /\ Of[u] = Of[t] => u = t

LockInv ==
    /\ Shapes
    /\ \A p \in Processes : LockOK(p)
    /\ \A t \in Threads : HolderOK(t) /\ OpenerOK(t)

LEMMA InitLocks == Init => LockInv
<1> SUFFICES ASSUME Init PROVE LockInv
  OBVIOUS
<1>1. /\ program \in Programs /\ rows = <<>> /\ stops = 0
      /\ db = [p \in Processes |-> "closed"] /\ lock = [p \in Processes |-> "none"]
      /\ dirty = [p \in Processes |-> <<>>] /\ stmt = [p \in Processes |-> NewStmts]
      /\ thr = [t \in Threads |-> Idle] /\ objects = [t \in Threads |-> <<>>]
  BY DEF Init
<1>2. /\ program.of \in [Threads -> Processes] /\ program.stops \in Nat
      /\ \A t \in Threads : Len(program.jobs[t]) \in Nat
  BY <1>1, ProgramsAssumption
<1>3. /\ DOMAIN NewStmts = Statements
      /\ \A s \in Statements : NewStmts[s] = NewStmt
  BY DEF NewStmts, Statements
<1>4. StmtOK(NewStmt) /\ NewStmt.at = "reset"
  BY DEF NewStmt, StmtOK
<1>5. ASSUME NEW t \in Threads PROVE ThreadOK(t) /\ HolderOK(t) /\ OpenerOK(t)
  <2>1. thr[t] = Idle /\ objects[t] = <<>>
    BY <1>1
  <2>2. IsQueue(<<>>) /\ Len(<<>>) = 0
    BY DEF IsQueue
  <2> QED
    BY <1>2, <2>1, <2>2, IdleParts, NoneAssumption
       DEF ThreadOK, AtOK, HolderOK, OpenerOK, Inside, Jobs
<1>6. ASSUME NEW p \in Processes PROVE ProcessOK(p) /\ LockOK(p)
  <2>1. /\ db[p] = "closed" /\ lock[p] = "none" /\ dirty[p] = <<>> /\ stmt[p] = NewStmts
    BY <1>1
  <2> QED
    BY <1>3, <1>4, <2>1 DEF ProcessOK, LockOK
<1>7. Shapes
  BY <1>1, <1>2, <1>5, <1>6 DEF Shapes
<1> QED
  BY <1>5, <1>6, <1>7 DEF LockInv

Holding == {"reserved", "exclusive"}

(* The statements that remain active, and the threads that remain inside,  *)
(* when t makes a call that SQLite's mutex admits.                         *)
LEMMA StillActive ==
    ASSUME LockInv, NEW t \in Threads, Local(t), NEW p \in Processes, p = Of[t],
           Inside(p) \subseteq {t}
    PROVE  /\ Of[t]' = p
           /\ \A u \in Inside(p)' : u = t
           /\ t \in Inside(p)' <=> thr'[t].at \in Holding
           /\ t \in Inside(p) <=> thr[t].at \in Holding
           /\ Running(t) \subseteq ActiveStmts(p)'
           /\ Running(t) = ActiveStmts(p) \ {Stmt(t)}
           /\ \A s \in Writers(t) : s \in ActiveStmts(p)' /\ s[2] = "add"
           /\ \A s \in Running(t) : s[2] = "add" => s \in Writers(t)
<1>1. Of' = Of
  BY DEF Local, Of
<1>2. DOMAIN stmt[p] = Statements
  BY DEF LockInv, Shapes, ProcessOK
<1>3. \A u \in Inside(p)' : u = t
  <2> SUFFICES ASSUME NEW u \in Inside(p)', u # t PROVE FALSE
    OBVIOUS
  <2>1. u \in Threads /\ Of[u] = p /\ thr'[u].at \in Holding
    BY <1>1 DEF Inside, Holding
  <2>2. thr'[u] = thr[u]
    BY <2>1 DEF Local
  <2>3. u \in Inside(p)
    BY <2>1, <2>2 DEF Inside, Holding
  <2> QED
    BY <2>3
<1>4. /\ t \in Inside(p)' <=> thr'[t].at \in Holding
      /\ t \in Inside(p) <=> thr[t].at \in Holding
  BY <1>1 DEF Inside, Holding
<1>5. Running(t) = ActiveStmts(p) \ {Stmt(t)}
  BY <1>2 DEF Running, ActiveStmts
<1>6. Running(t) \subseteq ActiveStmts(p)'
  BY <1>5 DEF ActiveStmts, Local
<1> QED
  BY <1>1, <1>3, <1>4, <1>5, <1>6 DEF Writers

LEMMA EndedOK ==
    ASSUME LockInv, NEW t \in Threads, Local(t), NEW p \in Processes, p = Of[t],
           Inside(p) \subseteq {t}, Ended(t)
    PROVE  LockOK(p)'
<1>1. /\ lock'[p] = IF lock[p] = "none" \/ Running(t) = {} THEN "none" ELSE "shared"
      /\ dirty'[p] = <<>>
  BY DEF Ended
<1>2. Running(t) \subseteq ActiveStmts(p)'
  BY StillActive
<1>3. lock'[p] = "shared" => ActiveStmts(p)' # {}
  BY <1>1, <1>2
<1> QED
  BY <1>1, <1>3 DEF LockOK

LEMMA KeptOK ==
    ASSUME LockInv, NEW t \in Threads, Local(t), NEW p \in Processes, p = Of[t],
           Inside(p) \subseteq {t}, lock'[p] = lock[p], dirty'[p] = dirty[p],
           thr[t].at \notin Holding,
           \/ Stmt(t) \in ActiveStmts(p) => Stmt(t) \in ActiveStmts(p)'
           \/ Writers(t) # {}
    PROVE  LockOK(p)'
<1>1. LockOK(p)
  BY DEF LockInv
<1>2. Inside(p) = {}
  BY StillActive
<1>3. /\ lock[p] = "reserved" => \E s \in ActiveStmts(p) : s[2] = "add"
      /\ lock[p] = "shared" => ActiveStmts(p) # {}
      /\ lock[p] # "exclusive"
      /\ lock[p] \in {"none", "shared"} <=> dirty[p] = <<>>
  BY <1>1, <1>2 DEF LockOK
<1>4. /\ Running(t) \subseteq ActiveStmts(p)' /\ Running(t) = ActiveStmts(p) \ {Stmt(t)}
      /\ \A s \in Writers(t) : s \in ActiveStmts(p)' /\ s[2] = "add"
  BY StillActive
<1>5. /\ lock[p] = "reserved" => \E s \in ActiveStmts(p)' : s[2] = "add"
      /\ lock[p] = "shared" => ActiveStmts(p)' # {}
  <2>1. CASE Writers(t) # {}
    BY <1>4, <2>1
  <2>2. CASE Stmt(t) \in ActiveStmts(p) => Stmt(t) \in ActiveStmts(p)'
    <3>1. ActiveStmts(p) \subseteq ActiveStmts(p)'
      BY <1>4, <2>2
    <3> QED
      BY <1>3, <3>1
  <2> QED
    BY <2>1, <2>2
<1> QED
  BY <1>3, <1>5 DEF LockOK

LEMMA HaltedOK ==
    ASSUME LockInv, NEW t \in Threads, Local(t), NEW p \in Processes, p = Of[t],
           Inside(p) \subseteq {t}, thr[t].at \notin Holding, Halted(t)
    PROVE  LockOK(p)'
  BY EndedOK, KeptOK DEF Halted, Quiet

LEMMA WithDomain ==
    ASSUME NEW f, NEW k, NEW v
    PROVE  DOMAIN With(f, k, v) = DOMAIN f \cup {k} /\ With(f, k, v) # <<>>
<1>1. DOMAIN With(f, k, v) = DOMAIN f \cup {k}
  BY DEF With
<1>2. DOMAIN <<>> = {}
  OBVIOUS
<1> HIDE DEF With
<1> QED
  BY <1>1, <1>2

LEMMA WithValue ==
    ASSUME NEW f, NEW k, NEW v, NEW x
    PROVE  /\ x = k => With(f, k, v)[x] = v
           /\ x \in DOMAIN f /\ x # k => With(f, k, v)[x] = f[x]
  BY DEF With

LEMMA WriteNotEmpty ==
    ASSUME NEW t \in Threads
    PROVE  Write(t) # <<>>
<1>1. PICK old, name, new : Write(t) = With(old, name, new)
  BY Zenon DEF Write
<1>2. With(old, name, new) # <<>>
  BY WithDomain
<1> QED
  BY <1>1, <1>2

LEMMA CallLocks ==
    ASSUME LockInv, NEW t \in Threads, Local(t), SomeCall(t),
           NEW p \in Processes, p = Of[t], Inside(p) \subseteq {t}
    PROVE  LockOK(p)'
<1>0. /\ LockOK(p) /\ HolderOK(t) /\ Shapes
      /\ \A s \in Statements : StmtOK(stmt[p][s])
  BY DEF LockInv, Shapes, ProcessOK
<1>1. Mine(t) = stmt[p][Stmt(t)]
  BY DEF Mine
<1>2. thr[t].at # None => thr[t].phase \in Calling
  BY <1>0, CallerPhase
<1>3. thr[t].phase \in Calling => (Call(t).op = "create" <=> Stmt(t) \notin Statements)
  BY <1>0, CallShape
<1>4. /\ stmt' = stmt => (Stmt(t) \in ActiveStmts(p)' <=> Stmt(t) \in ActiveStmts(p))
      /\ Stmt(t) \in ActiveStmts(p)' <=>
             Stmt(t) \in Statements /\ stmt'[p][Stmt(t)].at \in {"row", "pending"}
      /\ Stmt(t) \in ActiveStmts(p) <=>
             Stmt(t) \in Statements /\ Mine(t).at \in {"row", "pending"}
  BY <1>1 DEF ActiveStmts
<1>5. CASE Resets(t)
  <2>1. CASE Mine(t).at \in {"row", "pending"}
    BY <1>5, <2>1, HaltedOK DEF Resets, Moves, Holding
  <2>2. CASE Mine(t).at \notin {"row", "pending"}
    BY <1>4, <1>5, <2>2, KeptOK DEF Resets, Moves, Holding, Quiet
  <2> QED
    BY <2>1, <2>2
<1>6. CASE BindsKey(t) \/ BindsValue(t)
  BY <1>4, <1>6, KeptOK DEF BindsKey, BindsValue, Moves, Holding, Quiet
<1>7. CASE Misuses(t) \/ Reads(t) \/ Exists(t)
  BY <1>4, <1>7, KeptOK DEF Misuses, Reads, Exists, Moves, Holding, Quiet
<1>8. CASE IsRefused(t)
  <2>1. Stmt(t) \in Statements => stmt'[p][Stmt(t)] = [Mine(t) EXCEPT !.at = "pending"]
    BY <1>2, <1>3, <1>8, NoneAssumption DEF IsRefused, After
  <2>2. Stmt(t) \in Statements => stmt'[p][Stmt(t)].at = "pending"
    BY <1>0, <1>1, <2>1 DEF StmtOK
  <2> QED
    BY <1>4, <1>8, <2>2, KeptOK DEF IsRefused, Holding
<1>9. CASE Hits(t)
  <2> DEFINE v == View(Of[t])[Call(t).table][Mine(t).key]
  <2>1. /\ Stmt(t) \in Statements
        /\ stmt'[p][Stmt(t)] = [Mine(t) EXCEPT !.at = "row", !.value = v]
    BY <1>2, <1>3, <1>9, NoneAssumption DEF Hits, After, Moves
  <2> HIDE DEF v
  <2>2. stmt'[p][Stmt(t)].at = "row"
    BY <1>0, <1>1, <2>1 DEF StmtOK
  <2>3. Stmt(t) \in ActiveStmts(p)'
    BY <1>4, <2>1, <2>2
  <2>4. dirty'[p] = dirty[p] /\ thr[t].at = "step"
        /\ lock'[p] = IF lock[p] = "none" THEN "shared" ELSE lock[p]
    BY <1>9 DEF Hits, Moves
  <2>5. CASE lock[p] = "none"
    BY <1>0, <2>3, <2>4, <2>5 DEF LockOK
  <2>6. CASE lock[p] # "none"
    BY <2>3, <2>4, <2>6, KeptOK DEF Holding
  <2> QED
    BY <2>5, <2>6
<1>10. CASE Misses(t)
  <2>1. CASE Halted(t)
    BY <1>10, <2>1, HaltedOK DEF Misses, Moves, Holding
  <2>2. CASE lock[p] = "none" /\ Running(t) # {} /\ lock'[p] = "shared" /\ dirty' = dirty
    <3>1. ActiveStmts(p)' # {}
      BY <2>2, StillActive
    <3> QED
      BY <1>0, <2>2, <3>1 DEF LockOK
  <2> QED
    BY <1>10, <2>1, <2>2 DEF Misses
<1>11. CASE Writes(t)
  <2>1. lock'[p] = "reserved" /\ dirty'[p] # <<>>
    BY <1>11, WriteNotEmpty DEF Writes
  <2>2. \/ \E u \in Inside(p)' : thr'[u].at = "reserved"
        \/ \E s \in ActiveStmts(p)' : s[2] = "add"
    <3>1. CASE Writers(t) # {}
      BY <3>1, StillActive
    <3>2. CASE Writers(t) = {}
      <4>1. thr'[t].at = "reserved"
        BY <1>11, <3>2 DEF Writes, Moves
      <4> QED
        BY <4>1, StillActive DEF Holding
    <3> QED
      BY <3>1, <3>2
  <2> QED
    BY <2>1, <2>2 DEF LockOK
<1>12. CASE Excludes(t)
  <2>1. /\ lock'[p] = "exclusive" /\ dirty'[p] = dirty[p] /\ thr[t].at = "reserved"
        /\ thr'[t].at = "exclusive"
    BY <1>12 DEF Excludes, Moves
  <2>2. lock[p] = "reserved"
    BY <1>0, <2>1 DEF HolderOK
  <2>3. t \in Inside(p)'
    BY <2>1, StillActive DEF Holding
  <2> QED
    BY <1>0, <2>1, <2>2, <2>3 DEF LockOK
<1>13. CASE RollsBack(t) \/ Commits(t)
  BY <1>13, EndedOK DEF RollsBack, Commits
<1> QED
  BY <1>5, <1>6, <1>7, <1>8, <1>9, <1>10, <1>11, <1>12, <1>13 DEF SomeCall

LEMMA WriteTables ==
    ASSUME Shapes, NEW t \in Threads, thr[t].phase \in Calling
    PROVE  DOMAIN Write(t) \subseteq Tables
<1>1. Call(t).table \in Tables /\ Of[t] \in Processes
  BY CallShape, ProgramParts
<1>2. DOMAIN View(Of[t]) \subseteq Tables
  BY <1>1 DEF View, Shapes, ProcessOK
<1>3. PICK new : Write(t) = With(View(Of[t]), Call(t).table, new)
  BY Zenon DEF Write
<1>4. DOMAIN With(View(Of[t]), Call(t).table, new) = DOMAIN View(Of[t]) \cup {Call(t).table}
  BY WithDomain
<1> QED
  BY <1>1, <1>2, <1>3, <1>4

(* The EXCEPTs of a statement.                                             *)
LEMMA StmtSet ==
    ASSUME NEW x, StmtOK(x), NEW v
    PROVE  /\ DOMAIN [x EXCEPT !.at = v] = {"at", "key", "value"}
           /\ [x EXCEPT !.at = v].at = v /\ [x EXCEPT !.at = v].key = x.key
           /\ [x EXCEPT !.at = v].value = x.value
           /\ DOMAIN [x EXCEPT !.key = v] = {"at", "key", "value"}
           /\ [x EXCEPT !.key = v].at = x.at /\ [x EXCEPT !.key = v].key = v
           /\ [x EXCEPT !.key = v].value = x.value
           /\ DOMAIN [x EXCEPT !.value = v] = {"at", "key", "value"}
           /\ [x EXCEPT !.value = v].at = x.at /\ [x EXCEPT !.value = v].key = x.key
           /\ [x EXCEPT !.value = v].value = v
  BY DEF StmtOK

LEMMA StmtRow ==
    ASSUME NEW x, StmtOK(x), NEW v
    PROVE  /\ DOMAIN [x EXCEPT !.at = "row", !.value = v] = {"at", "key", "value"}
           /\ [x EXCEPT !.at = "row", !.value = v].at = "row"
           /\ [x EXCEPT !.at = "row", !.value = v].key = x.key
           /\ [x EXCEPT !.at = "row", !.value = v].value = v
  BY DEF StmtOK

New(t) == stmt'[Of[t]][Stmt(t)]

(* What a call makes of its statement.                                     *)
LEMMA CallStmt ==
    ASSUME Shapes, NEW t \in Threads, Stmt(t) \in Statements, Call(t).op # "create"
    PROVE  /\ StmtOK(Mine(t)) /\ Mine(t) = stmt[Of[t]][Stmt(t)]
           /\ stmt' = stmt => New(t) = Mine(t)
           /\ \A a \in {"reset", "pending", "done"} :
                 After(t, [Mine(t) EXCEPT !.at = a]) =>
                     /\ StmtOK(New(t)) /\ New(t).at = a
                     /\ New(t).key = Mine(t).key /\ New(t).value = Mine(t).value
           /\ BindsKey(t) => /\ StmtOK(New(t)) /\ New(t).at = Mine(t).at
                             /\ New(t).key = Call(t).key /\ New(t).value = Mine(t).value
           /\ BindsValue(t) => /\ StmtOK(New(t)) /\ New(t).at = Mine(t).at
                               /\ New(t).key = Mine(t).key /\ New(t).value = Call(t).value
           /\ Hits(t) => /\ StmtOK(New(t)) /\ New(t).at = "row" /\ New(t).key = Mine(t).key
                         /\ New(t).value = View(Of[t])[Call(t).table][Mine(t).key]
<1>1. StmtOK(Mine(t)) /\ Mine(t) = stmt[Of[t]][Stmt(t)]
  BY ProgramParts DEF Shapes, ProcessOK, Mine
<1>2. stmt' = stmt => New(t) = Mine(t)
  BY <1>1 DEF New
<1>3. ASSUME NEW a \in {"reset", "pending", "done"}, After(t, [Mine(t) EXCEPT !.at = a])
      PROVE  /\ StmtOK(New(t)) /\ New(t).at = a
             /\ New(t).key = Mine(t).key /\ New(t).value = Mine(t).value
  <2> DEFINE y == [Mine(t) EXCEPT !.at = a]
  <2>1. DOMAIN y = {"at", "key", "value"} /\ y.at = a /\ y.key = Mine(t).key
        /\ y.value = Mine(t).value
    BY <1>1, StmtSet
  <2>2. New(t) = y
    BY <1>3 DEF After, New
  <2> HIDE DEF y
  <2> QED
    BY <2>1, <2>2 DEF StmtOK
<1>4. ASSUME BindsKey(t)
      PROVE  /\ StmtOK(New(t)) /\ New(t).at = Mine(t).at
             /\ New(t).key = Call(t).key /\ New(t).value = Mine(t).value
  <2> DEFINE y == [Mine(t) EXCEPT !.key = Call(t).key]
  <2>1. DOMAIN y = {"at", "key", "value"} /\ y.at = Mine(t).at /\ y.key = Call(t).key
        /\ y.value = Mine(t).value
    BY <1>1, StmtSet
  <2>2. New(t) = y
    BY <1>4 DEF BindsKey, After, New
  <2> HIDE DEF y
  <2> QED
    BY <1>1, <2>1, <2>2 DEF StmtOK
<1>5. ASSUME BindsValue(t)
      PROVE  /\ StmtOK(New(t)) /\ New(t).at = Mine(t).at
             /\ New(t).key = Mine(t).key /\ New(t).value = Call(t).value
  <2> DEFINE y == [Mine(t) EXCEPT !.value = Call(t).value]
  <2>1. DOMAIN y = {"at", "key", "value"} /\ y.at = Mine(t).at /\ y.key = Mine(t).key
        /\ y.value = Call(t).value
    BY <1>1, StmtSet
  <2>2. New(t) = y
    BY <1>5 DEF BindsValue, After, New
  <2> HIDE DEF y
  <2> QED
    BY <1>1, <2>1, <2>2 DEF StmtOK
<1>6. ASSUME Hits(t)
      PROVE  /\ StmtOK(New(t)) /\ New(t).at = "row" /\ New(t).key = Mine(t).key
             /\ New(t).value = View(Of[t])[Call(t).table][Mine(t).key]
  <2> DEFINE v == View(Of[t])[Call(t).table][Mine(t).key]
             y == [Mine(t) EXCEPT !.at = "row", !.value = v]
  <2>1. New(t) = y
    BY <1>6 DEF Hits, After, New
  <2> HIDE DEF v
  <2>2. DOMAIN y = {"at", "key", "value"} /\ y.at = "row" /\ y.key = Mine(t).key
        /\ y.value = v
    BY <1>1, StmtRow
  <2> HIDE DEF y
  <2> QED
    BY <2>1, <2>2 DEF StmtOK, v
<1> QED
  BY <1>1, <1>2, <1>3, <1>4, <1>5, <1>6

(* The types after a call.                                                 *)
LEMMA CallShapes ==
    ASSUME LockInv, NEW t \in Threads, Local(t), SomeCall(t)
    PROVE  Shapes'
<1>0. Shapes /\ Of[t] \in Processes /\ ProcessOK(Of[t]) /\ ThreadOK(t)
  BY ProgramParts DEF LockInv, Shapes
<1>1. thr[t].phase \in Calling /\ thr[t].at # None
  <2>1. thr[t].at \in {"reset", "bindKey", "bindValue", "step", "column", "reserved",
                       "exclusive"}
    BY DEF SomeCall, Resets, BindsKey, BindsValue, Misuses, IsRefused, Hits, Misses,
           Reads, Exists, Writes, Excludes, RollsBack, Commits, Moves
  <2> QED
    BY <1>0, <2>1, CallerPhase, NoneAssumption
<1>2. /\ Call(t).op = "create" <=> thr[t].phase = "open"
      /\ Call(t).op = "query" <=> thr[t].phase \in {"find", "lookup"}
      /\ Call(t).op = "add" <=> thr[t].phase \in {"save", "add"}
      /\ Call(t).op # "create" => Stmt(t) \in Statements
      /\ Call(t).op = "create" => Stmt(t) \notin Statements
      /\ Stmt(t)[2] = Call(t).op
  BY <1>0, <1>1, CallShape
<1>3. AtOK(thr[t].phase, thr'[t].at)
  <2>1. AtOK(thr[t].phase, thr[t].at)
    BY <1>0 DEF ThreadOK
  <2> QED
    BY <1>1, <1>2, <2>1, NoneAssumption
       DEF SomeCall, Resets, BindsKey, BindsValue, Misuses, IsRefused, Hits, Misses,
           Reads, Exists, Writes, Excludes, RollsBack, Commits, Moves, Errs, AtOK, Calling
<1>4. ASSUME NEW u \in Threads PROVE ThreadOK(u)'
  <2>1. ThreadOK(u) /\ UNCHANGED <<program, objects>>
    BY <1>0 DEF Shapes, Local
  <2>2. CASE u # t
    <3>1. thr'[u] = thr[u]
      BY <2>2 DEF Local
    <3> QED
      BY <2>1, <3>1 DEF ThreadOK, Active, Jobs
  <2>3. CASE u = t
    BY <1>3, <2>1, <2>3 DEF ThreadOK, Active, Jobs, Local
  <2> QED
    BY <2>2, <2>3
<1>6. Stmt(t) \in Statements =>
          /\ StmtOK(stmt'[Of[t]][Stmt(t)])
          /\ Stmt(t)[2] = "add" => stmt'[Of[t]][Stmt(t)].at # "row"
  <2> SUFFICES ASSUME Stmt(t) \in Statements
               PROVE  /\ StmtOK(stmt'[Of[t]][Stmt(t)])
                      /\ Stmt(t)[2] = "add" => stmt'[Of[t]][Stmt(t)].at # "row"
    OBVIOUS
  <2>1. Stmt(t)[2] = "add" => Mine(t).at # "row"
    BY <1>0 DEF ProcessOK, Mine
  <2>2. Call(t).op # "create"
    BY <1>2
  <2>3. CASE stmt' = stmt
    BY <1>0, <2>1, <2>2, <2>3, CallStmt DEF New
  <2>4. CASE \E a \in {"reset", "pending", "done"} : After(t, [Mine(t) EXCEPT !.at = a])
    BY <1>0, <2>2, <2>4, CallStmt DEF New
  <2>5. CASE BindsKey(t) \/ BindsValue(t)
    BY <1>0, <2>1, <2>2, <2>5, CallStmt DEF New
  <2>6. CASE Hits(t)
    BY <1>0, <1>2, <2>2, <2>6, CallStmt DEF New, Hits
  <2> QED
    BY <2>3, <2>4, <2>5, <2>6
       DEF SomeCall, Resets, Misuses, IsRefused, Misses, Reads, Exists, Writes, Excludes,
           RollsBack, Commits
<1>7. lock'[Of[t]] \in {"none", "shared", "reserved", "exclusive"}
  <2>1. lock[Of[t]] \in {"none", "shared", "reserved", "exclusive"}
    BY <1>0 DEF ProcessOK
  <2> QED
    BY <2>1
       DEF SomeCall, Resets, BindsKey, BindsValue, Misuses, IsRefused, Hits, Misses,
           Reads, Exists, Writes, Excludes, RollsBack, Commits, Quiet, Halted, Ended
<1>8. DOMAIN dirty'[Of[t]] \subseteq Tables /\ DOMAIN rows' \subseteq Tables
  <2>1. /\ DOMAIN dirty[Of[t]] \subseteq Tables /\ DOMAIN rows \subseteq Tables
        /\ DOMAIN Write(t) \subseteq Tables /\ DOMAIN <<>> = {}
    BY <1>0, <1>1, WriteTables DEF ProcessOK, Shapes
  <2>2. \/ dirty'[Of[t]] = dirty[Of[t]] \/ dirty'[Of[t]] = <<>>
        \/ dirty'[Of[t]] = Write(t)
    BY DEF SomeCall, Resets, BindsKey, BindsValue, Misuses, IsRefused, Hits, Misses,
           Reads, Exists, Writes, Excludes, RollsBack, Commits, Quiet, Halted, Ended
  <2>3. rows' = rows \/ rows' = dirty[Of[t]]
    BY DEF SomeCall, Resets, BindsKey, BindsValue, Misuses, IsRefused, Hits, Misses,
           Reads, Exists, Writes, Excludes, RollsBack, Commits, Quiet, Halted
  <2> QED
    BY <2>1, <2>2, <2>3
<1>9. ASSUME NEW q \in Processes PROVE ProcessOK(q)'
  <2>1. ProcessOK(q) /\ db' = db
    BY <1>0 DEF Shapes, Local
  <2>2. CASE q # Of[t]
    <3>1. lock'[q] = lock[q] /\ dirty'[q] = dirty[q] /\ stmt'[q] = stmt[q]
      BY <2>2 DEF Local
    <3> QED
      BY <2>1, <3>1 DEF ProcessOK
  <2>3. CASE q = Of[t]
    <3>1. DOMAIN stmt'[q] = Statements
      BY <2>3 DEF Local
    <3>2. \A s \in Statements : /\ StmtOK(stmt'[q][s])
                                /\ s[2] = "add" => stmt'[q][s].at # "row"
      BY <1>6, <2>1, <2>3 DEF ProcessOK, Local
    <3>3. db[q] # "open" => stmt' = stmt
      <4>1. db[q] # "open" => thr[t].phase = "open"
        BY <1>1, <2>3 DEF LockInv, OpenerOK, Calling
      <4>2. Call(t).op = "create" => stmt' = stmt
        BY DEF SomeCall, Resets, BindsKey, BindsValue, Misuses, IsRefused, Hits, Misses,
               Reads, Exists, Writes, Excludes, RollsBack, Commits, After
      <4> QED
        BY <1>2, <4>1, <4>2
    <3> QED
      BY <1>7, <1>8, <2>1, <2>3, <3>1, <3>2, <3>3 DEF ProcessOK
  <2> QED
    BY <2>2, <2>3
<1> QED
  BY <1>0, <1>4, <1>8, <1>9 DEF Shapes, Local

LEMMA SQLiteLocks ==
    ASSUME LockInv, NEW t \in Threads, SQLite(t)
    PROVE  LockInv'
<1>0. Shapes /\ Of[t] \in Processes
  BY ProgramParts DEF LockInv
<1>1. Local(t) /\ SomeCall(t) /\ Inside(Of[t]) \subseteq {t} /\ Of' = Of
  BY <1>0, SQLiteStep DEF SQLite, Local, Of
<1>2. Shapes'
  BY <1>1, CallShapes
<1>3. ASSUME NEW q \in Processes PROVE LockOK(q)'
  <2>1. CASE q = Of[t]
    BY <1>0, <1>1, <2>1, CallLocks
  <2>2. CASE q # Of[t]
    <3>1. lock'[q] = lock[q] /\ dirty'[q] = dirty[q] /\ stmt'[q] = stmt[q]
      BY <1>1, <2>2 DEF Local
    <3>2. \A u \in Threads : Of[u] = q => thr'[u] = thr[u]
      BY <1>1, <2>2 DEF Local
    <3>3. \A u \in Inside(q) : u \in Inside(q)' /\ thr'[u] = thr[u]
      BY <1>1, <3>2 DEF Inside
    <3>4. ActiveStmts(q)' = ActiveStmts(q)
      BY <3>1 DEF ActiveStmts
    <3>5. LockOK(q)
      BY DEF LockInv
    <3> QED
      BY <3>1, <3>3, <3>4, <3>5 DEF LockOK
  <2> QED
    BY <2>1, <2>2
<1>4. ASSUME NEW u \in Threads PROVE OpenerOK(u)'
  <2>1. \A w \in Threads : thr'[w].phase = thr[w].phase
    BY <1>1 DEF Local
  <2>2. OpenerOK(u) /\ db' = db
    BY <1>1 DEF LockInv, Local
  <2> QED
    BY <1>1, <2>1, <2>2 DEF OpenerOK
<1>5. ASSUME NEW u \in Threads PROVE HolderOK(u)'
  <2>1. HolderOK(u) /\ HolderOK(t)
    BY DEF LockInv
  <2>2. CASE Of[u] # Of[t]
    <3>1. Of[u] \in Processes
      BY <1>0, ProgramParts
    <3>2. lock'[Of[u]] = lock[Of[u]] /\ \A w \in Threads : Of[w] = Of[u] => thr'[w] = thr[w]
      BY <1>1, <2>2, <3>1 DEF Local
    <3>3. Inside(Of[u])' = Inside(Of[u]) /\ thr'[u] = thr[u]
      BY <1>1, <3>2 DEF Inside
    <3> QED
      BY <1>1, <2>1, <3>2, <3>3 DEF HolderOK
  <2>3. CASE Of[u] = Of[t]
    <3>1. \A w \in Inside(Of[t])' : w = t
      BY <1>0, <1>1, StillActive
    <3>2. thr'[u].at \in Holding => u = t
      BY <1>1, <2>3, <3>1 DEF Inside, Holding
    <3>3. /\ thr'[t].at = "reserved" => lock'[Of[t]] = "reserved"
          /\ thr'[t].at = "exclusive" => lock'[Of[t]] = "exclusive"
      BY <1>1, <2>1, NoneAssumption
         DEF SomeCall, Resets, BindsKey, BindsValue, Misuses, IsRefused, Hits, Misses,
             Reads, Exists, Writes, Excludes, RollsBack, Commits, Moves, Errs, HolderOK
    <3> QED
      BY <1>1, <2>3, <3>1, <3>2, <3>3 DEF HolderOK, Holding
  <2> QED
    BY <2>2, <2>3
<1> QED
  BY <1>2, <1>3, <1>4, <1>5 DEF LockInv

LEMMA StopLocks ==
    ASSUME LockInv, NEW p \in Processes, Stop(p)
    PROVE  LockInv'
<1> DEFINE lost == {t \in Threads : Of[t] = p /\ Active(t) /\ thr[t].phase # "start"}
<1>1. /\ stops < program.stops /\ stops' = stops + 1
      /\ db' = [db EXCEPT ![p] = "closed"] /\ lock' = [lock EXCEPT ![p] = "none"]
      /\ dirty' = [dirty EXCEPT ![p] = <<>>] /\ stmt' = [stmt EXCEPT ![p] = NewStmts]
      /\ thr' = [t \in Threads |-> IF t \in lost THEN Idle ELSE thr[t]]
      /\ UNCHANGED <<program, rows, refused, objects>>
  BY DEF Stop
<1>2. /\ Shapes /\ Of' = Of /\ Jobs' = Jobs /\ program.stops \in Nat
      /\ \A t \in Threads : Of[t] \in Processes
  BY <1>1, ProgramParts DEF LockInv, Of, Jobs
<1>3. ASSUME NEW t \in Threads, Of[t] = p
      PROVE  thr'[t].phase = "start" /\ thr'[t].at = None /\ DOMAIN thr'[t] = Records
  <2>1. ThreadOK(t)
    BY <1>2 DEF Shapes
  <2>2. CASE t \in lost
    BY <1>1, <2>2, IdleParts
  <2>3. CASE t \notin lost
    BY <1>1, <1>3, <2>1, <2>3 DEF ThreadOK, AtOK
  <2> QED
    BY <2>2, <2>3
<1>4. ASSUME NEW t \in Threads, Of[t] # p PROVE thr'[t] = thr[t]
  BY <1>1, <1>4
<1>5. /\ DOMAIN db' = Processes /\ DOMAIN lock' = Processes /\ DOMAIN dirty' = Processes
      /\ DOMAIN stmt' = Processes /\ DOMAIN thr' = Threads
      /\ db'[p] = "closed" /\ lock'[p] = "none" /\ dirty'[p] = <<>> /\ stmt'[p] = NewStmts
      /\ \A q \in Processes : q # p => /\ db'[q] = db[q] /\ lock'[q] = lock[q]
                                       /\ dirty'[q] = dirty[q] /\ stmt'[q] = stmt[q]
  BY <1>1, <1>2 DEF Shapes
<1> HIDE DEF lost
<1>6. ASSUME NEW t \in Threads PROVE ThreadOK(t)'
  <2>1. ThreadOK(t)
    BY <1>2 DEF Shapes
  <2>2. CASE Of[t] = p
    BY <1>1, <1>2, <1>3, <2>1, <2>2 DEF ThreadOK, AtOK
  <2>3. CASE Of[t] # p
    BY <1>1, <1>2, <1>4, <2>1, <2>3 DEF ThreadOK, Active
  <2> QED
    BY <2>2, <2>3
<1>7. ASSUME NEW q \in Processes PROVE ProcessOK(q)' /\ LockOK(q)'
  <2>1. ProcessOK(q) /\ LockOK(q)
    BY DEF LockInv, Shapes
  <2>2. CASE q = p
    <3>1. /\ DOMAIN NewStmts = Statements /\ \A s \in Statements : NewStmts[s] = NewStmt
          /\ StmtOK(NewStmt) /\ NewStmt.at = "reset"
      BY DEF NewStmts, Statements, NewStmt, StmtOK
    <3> QED
      BY <1>5, <2>2, <3>1 DEF ProcessOK, LockOK
  <2>3. CASE q # p
    <3>1. /\ db'[q] = db[q] /\ lock'[q] = lock[q] /\ dirty'[q] = dirty[q]
          /\ stmt'[q] = stmt[q]
      BY <1>5, <2>3
    <3>2. \A u \in Inside(q) : u \in Inside(q)' /\ thr'[u] = thr[u]
      BY <1>2, <1>4, <2>3 DEF Inside
    <3>3. ActiveStmts(q)' = ActiveStmts(q)
      BY <3>1 DEF ActiveStmts
    <3>4. ProcessOK(q)'
      BY <2>1, <3>1 DEF ProcessOK
    <3>5. LockOK(q)'
      BY <2>1, <3>1, <3>2, <3>3 DEF LockOK
    <3> QED
      BY <3>4, <3>5
  <2> QED
    BY <2>2, <2>3
<1>8. ASSUME NEW t \in Threads PROVE HolderOK(t)' /\ OpenerOK(t)'
  <2>1. HolderOK(t) /\ OpenerOK(t)
    BY DEF LockInv
  <2>2. CASE Of[t] = p
    BY <1>2, <1>3, <2>2, NoneAssumption DEF HolderOK, OpenerOK, Inside
  <2>3. CASE Of[t] # p
    <3>1. thr'[t] = thr[t] /\ \A u \in Threads : Of[u] = Of[t] => thr'[u] = thr[u]
      BY <1>4, <2>3
    <3>2. Inside(Of[t])' = Inside(Of[t])
      BY <1>2, <3>1 DEF Inside
    <3>3. HolderOK(t)'
      BY <1>2, <1>5, <2>1, <2>3, <3>1, <3>2 DEF HolderOK
    <3>4. OpenerOK(t)'
      BY <1>2, <1>5, <2>1, <2>3, <3>1 DEF OpenerOK
    <3> QED
      BY <3>3, <3>4
  <2> QED
    BY <2>2, <2>3
<1>9. Shapes'
  <2>1. stops' \in 0 .. program'.stops
    BY <1>1, <1>2 DEF Shapes
  <2> QED
    BY <1>1, <1>2, <1>5, <1>6, <1>7, <2>1 DEF Shapes
<1> QED
  BY <1>7, <1>8, <1>9 DEF LockInv

(* What a step of a constructor does to the database of its process: a     *)
(* database that could not be opened had no statements yet.                *)
LEMMA ConstructDb ==
    ASSUME LockInv, NEW t \in Threads, Connects(t) \/ Works(t)
    PROVE  /\ DOMAIN db' = Processes /\ DOMAIN stmt' = Processes
           /\ \A q \in Processes : stmt'[q] = stmt[q]
           /\ \A q \in Processes : q # Of[t] => db'[q] = db[q]
           /\ db'[Of[t]] = IF Opens(t) THEN "opening" ELSE IF Gives(t) THEN "closed"
                           ELSE IF IsOpen(t) THEN "open" ELSE db[Of[t]]
<1>0. Of[t] \in Processes /\ ProcessOK(Of[t]) /\ OpenerOK(t)
  BY ProgramParts DEF LockInv, Shapes
<1>1. DOMAIN db = Processes /\ DOMAIN stmt = Processes
  BY DEF LockInv, Shapes
<1>2. CASE Gives(t)
  <2>1. /\ db' = [db EXCEPT ![Of[t]] = "closed"] /\ stmt' = [stmt EXCEPT ![Of[t]] = NewStmts]
        /\ thr[t].phase = "open"
    BY <1>2 DEF Gives
  <2>2. stmt[Of[t]] = NewStmts
    BY <1>0, <2>1 DEF OpenerOK, ProcessOK
  <2>3. ~Opens(t)
    BY <2>1 DEF Opens
  <2> QED
    BY <1>0, <1>1, <1>2, <2>1, <2>2, <2>3
<1>3. CASE Opens(t)
  <2>1. db' = [db EXCEPT ![Of[t]] = "opening"] /\ stmt' = stmt
    BY <1>3 DEF Opens
  <2> QED
    BY <1>0, <1>1, <1>3, <2>1
<1>4. CASE IsOpen(t) /\ ~Gives(t) /\ ~Opens(t)
  <2>1. db' = [db EXCEPT ![Of[t]] = "open"] /\ stmt' = stmt
    BY <1>4 DEF IsOpen
  <2> QED
    BY <1>0, <1>1, <1>4, <2>1
<1>5. CASE ~IsOpen(t) /\ ~Gives(t) /\ ~Opens(t)
  <2>1. UNCHANGED <<db, stmt>>
    BY <1>5 DEF Connects, FindsOpen, Creates, Works
  <2> QED
    BY <1>1, <1>5, <2>1
<1> QED
  BY <1>2, <1>3, <1>4, <1>5

LEMMA ConstructLocks ==
    ASSUME LockInv, NEW t \in Threads, Construct(t)
    PROVE  LockInv'
<1>0. Shapes /\ Of[t] \in Processes /\ ThreadOK(t) /\ ProcessOK(Of[t]) /\ OpenerOK(t)
  BY ProgramParts DEF LockInv, Shapes
<1>1. Alone(t) /\ (Connects(t) \/ Works(t)) /\ Active(t)
  BY <1>0, ConstructStep DEF Construct
<1>2. /\ Of' = Of /\ Jobs' = Jobs /\ UNCHANGED <<program, rows, lock, dirty, stops>>
      /\ \A u \in Threads : u # t => thr'[u] = thr[u] /\ objects'[u] = objects[u]
  BY <1>1 DEF Alone, Of, Jobs
<1>3. thr[t].at \notin Holding
  BY <1>0, <1>1, NoneAssumption
     DEF Connects, Works, FindsOpen, Opens, Gives, Creates, IsOpen, Holding, ThreadOK, AtOK
<1>4. ASSUME NEW e, Ends(t, e) PROVE ThreadOK(t)' /\ thr'[t].phase = "start"
  <2>1. IsQueue(objects[t]) /\ Len(objects[t]) \in Nat /\ Len(Jobs[t]) \in Nat
    BY <1>0, ProgramParts DEF ThreadOK
  <2>2. PICK o : objects'[t] = Append(objects[t], o)
    BY <1>4 DEF Ends
  <2>3. IsQueue(objects'[t]) /\ Len(objects'[t]) = Len(objects[t]) + 1
    BY <2>1, <2>2, QueueAppend
  <2>4. Len(objects'[t]) <= Len(Jobs[t])
    BY <1>1, <2>1, <2>3 DEF Active
  <2>5. thr'[t] = Idle
    BY <1>4 DEF Ends
  <2> QED
    BY <1>2, <2>3, <2>4, <2>5, IdleParts DEF ThreadOK, AtOK
<1>5. ASSUME NEW phase \in {"open", "find", "save", "lookup", "add", "binary", "source"},
             NEW a, NEW l, NEW r, NEW f, Starts(t, phase, a, l, r, f),
             phase = "open" => l \in {<<"params", "kernel">>, <<"kernel">>}
      PROVE  ThreadOK(t)' /\ thr'[t].phase = phase /\ thr'[t].at \notin Holding
  <2>1. objects' = objects /\ thr'[t].phase = phase /\ DOMAIN thr'[t] = Records
        /\ thr'[t].left = l
    BY <1>5 DEF Starts
  <2>2. AtOK(phase, thr'[t].at) /\ thr'[t].at \notin Holding
    BY <1>5, NoneAssumption DEF Starts, AtOK, Holding
  <2> QED
    BY <1>0, <1>1, <1>2, <1>5, <2>1, <2>2 DEF ThreadOK, Active
<1>6. Works(t) => /\ ThreadOK(t)' /\ thr'[t].phase # "open" /\ thr'[t].at \notin Holding
                  /\ UNCHANGED <<db, stmt>> /\ thr[t].phase \notin {"start", "open"}
  <2> SUFFICES ASSUME Works(t)
               PROVE  /\ ThreadOK(t)' /\ thr'[t].phase # "open" /\ thr'[t].at \notin Holding
                      /\ UNCHANGED <<db, stmt>> /\ thr[t].phase \notin {"start", "open"}
    OBVIOUS
  <2>1. CASE \E e : Ends(t, e)
    <3>1. ThreadOK(t)' /\ thr'[t].phase = "start" /\ thr'[t].at = None
      BY <1>4, <2>1, IdleParts DEF Ends
    <3> QED
      BY <3>1, NoneAssumption DEF Works, Holding
  <2>2. CASE \E phase \in {"find", "save", "lookup", "add", "binary", "source"} :
                \E a, l, r, f : Starts(t, phase, a, l, r, f)
    <3>1. PICK phase \in {"find", "save", "lookup", "add", "binary", "source"} :
              \E a, l, r, f : Starts(t, phase, a, l, r, f)
      BY <2>2
    <3>2. ThreadOK(t)' /\ thr'[t].phase = phase /\ thr'[t].at \notin Holding
      BY <1>5, <3>1
    <3> QED
      BY <3>2 DEF Works
  <2>3. \/ \E e : Ends(t, e)
        \/ \E phase \in {"find", "save", "lookup", "add", "binary", "source"} :
              \E a, l, r, f : Starts(t, phase, a, l, r, f)
    BY Zenon
       DEF Works, Finds, Tries, Saves, LooksUp, Builds, Adds, Throws, Succeeds
  <2> QED
    BY <2>1, <2>2, <2>3
<1>7. Connects(t) => /\ ThreadOK(t)' /\ thr'[t].at \notin Holding
                     /\ thr'[t].phase \in {"start", "open", "find"}
                     /\ thr[t].phase \in {"start", "open"}
  <2>1. CASE FindsOpen(t) \/ IsOpen(t)
    BY <1>5, <2>1 DEF FindsOpen, IsOpen
  <2>2. CASE Opens(t)
    BY <1>5, <2>2 DEF Opens
  <2>3. CASE Creates(t)
    BY <1>5, <2>3 DEF Creates
  <2>4. CASE Gives(t)
    <3>1. ThreadOK(t)' /\ thr'[t].phase = "start" /\ thr'[t].at = None
      BY <1>4, <2>4, IdleParts DEF Gives, Ends
    <3> QED
      BY <2>4, <3>1, NoneAssumption DEF Gives, Holding
  <2> QED
    BY <2>1, <2>2, <2>3, <2>4 DEF Connects
<1>8. ThreadOK(t)' /\ thr'[t].at \notin Holding
  BY <1>1, <1>6, <1>7
<1>9. /\ DOMAIN db' = Processes /\ DOMAIN stmt' = Processes
      /\ \A q \in Processes : stmt'[q] = stmt[q]
      /\ \A q \in Processes : q # Of[t] => db'[q] = db[q]
      /\ db'[Of[t]] = IF Opens(t) THEN "opening" ELSE IF Gives(t) THEN "closed"
                      ELSE IF IsOpen(t) THEN "open" ELSE db[Of[t]]
  BY <1>1, ConstructDb
<1>10. ASSUME NEW u \in Threads PROVE ThreadOK(u)'
  <2>1. CASE u = t
    BY <1>8, <2>1
  <2>2. CASE u # t
    <3>1. ThreadOK(u) /\ thr'[u] = thr[u] /\ objects'[u] = objects[u]
      BY <1>0, <1>2, <2>2 DEF Shapes
    <3> QED
      BY <1>2, <3>1 DEF ThreadOK, Active
  <2> QED
    BY <2>1, <2>2
<1>11. ASSUME NEW q \in Processes PROVE Inside(q)' = Inside(q) /\ t \notin Inside(q)
  BY <1>2, <1>3, <1>8 DEF Inside, Holding
<1>12. ASSUME NEW q \in Processes PROVE ProcessOK(q)' /\ LockOK(q)'
  <2>1. ProcessOK(q) /\ LockOK(q) /\ stmt'[q] = stmt[q]
    BY <1>9 DEF LockInv, Shapes
  <2>2. /\ db'[q] \in {"closed", "opening", "open"}
        /\ db[q] = "open" => db'[q] = "open"
    <3>1. CASE q # Of[t]
      BY <1>9, <2>1, <3>1 DEF ProcessOK
    <3>2. CASE q = Of[t]
      <4>1. Opens(t) \/ Gives(t) => db[q] # "open"
        BY <1>0, <3>2 DEF Opens, Gives, OpenerOK
      <4> QED
        BY <1>9, <2>1, <3>2, <4>1 DEF ProcessOK
    <3> QED
      BY <3>1, <3>2
  <2>3. ProcessOK(q)'
    BY <1>2, <2>1, <2>2 DEF ProcessOK
  <2>4. ActiveStmts(q)' = ActiveStmts(q)
    BY <2>1 DEF ActiveStmts
  <2>5. /\ \A u \in Inside(q) : u \in Inside(q)' /\ thr'[u] = thr[u]
        /\ lock'[q] = lock[q] /\ dirty'[q] = dirty[q]
    <3>1. Inside(q) \subseteq Threads
      BY DEF Inside
    <3> QED
      BY <1>2, <1>11, <3>1
  <2>6. LockOK(q)'
    BY <2>1, <2>4, <2>5 DEF LockOK
  <2> QED
    BY <2>3, <2>6
<1>13. ASSUME NEW u \in Threads PROVE HolderOK(u)'
  <2>1. HolderOK(u) /\ Of[u] \in Processes
    BY <1>0, ProgramParts DEF LockInv
  <2>2. Inside(Of[u])' = Inside(Of[u])
    BY <1>2, <1>11, <2>1
  <2>3. CASE u = t
    BY <1>2, <1>8, <1>11, <2>1, <2>2, <2>3 DEF HolderOK, Holding
  <2>4. CASE u # t
    BY <1>2, <2>1, <2>2, <2>4 DEF HolderOK
  <2> QED
    BY <2>3, <2>4
<1>14. ASSUME NEW u \in Threads PROVE OpenerOK(u)'
  <2>1. /\ OpenerOK(u) /\ Of[u] \in Processes
        /\ \A w \in Threads : OpenerOK(w) /\ Of[w] \in Processes
    BY <1>0, ProgramParts DEF LockInv
  <2>2. CASE Of[u] # Of[t]
    <3>1. thr'[u] = thr[u] /\ \A w \in Threads : Of[w] = Of[u] => thr'[w] = thr[w]
      BY <1>2, <2>2
    <3> QED
      BY <1>2, <1>9, <2>1, <2>2, <3>1 DEF OpenerOK
  <2>3. CASE Of[u] = Of[t]
    <3>1. CASE Works(t)
      BY <1>2, <1>6, <2>1, <2>3, <3>1 DEF OpenerOK, ThreadOK, AtOK
    <3>2. CASE FindsOpen(t)
      <4>1. thr'[t].phase = "find" /\ db' = db /\ db[Of[t]] = "open"
        BY <3>2 DEF FindsOpen, Starts
      <4> QED
        BY <1>2, <2>1, <2>3, <4>1 DEF OpenerOK
    <3>3. CASE Opens(t)
      <4>1. /\ thr'[t].phase = "open" /\ db'[Of[t]] = "opening" /\ db[Of[t]] = "closed"
        BY <1>9, <3>3 DEF Opens, Starts
      <4>2. \A w \in Threads : Of[w] = Of[t] => thr[w].phase = "start"
        BY <2>1, <4>1 DEF OpenerOK
      <4> QED
        BY <1>2, <2>1, <2>3, <4>1, <4>2 DEF OpenerOK
    <3>4. CASE Gives(t) \/ Creates(t) \/ IsOpen(t)
      <4>1. thr[t].phase = "open" /\ db[Of[t]] = "opening"
        BY <1>0, <3>4 DEF Gives, Creates, IsOpen, OpenerOK
      <4>2. \A w \in Threads : Of[w] = Of[t] /\ w # t => thr[w].phase = "start"
        BY <2>1, <4>1 DEF OpenerOK
      <4>3. \/ thr'[t].phase = "start"
            \/ thr'[t].phase = "open" /\ db' = db
            \/ thr'[t].phase = "find" /\ db'[Of[t]] = "open"
        <5>1. CASE Gives(t)
          BY <5>1, IdleParts DEF Gives, Ends
        <5>2. CASE Creates(t)
          BY <5>2 DEF Creates, Starts
        <5>3. CASE IsOpen(t)
          <6>1. thr'[t].phase = "find" /\ ~Opens(t) /\ ~Gives(t)
            BY <5>3 DEF IsOpen, Starts, Opens, Gives
          <6> QED
            BY <1>9, <5>3, <6>1
        <5> QED
          BY <3>4, <5>1, <5>2, <5>3
      <4> QED
        BY <1>2, <2>1, <2>3, <4>1, <4>2, <4>3 DEF OpenerOK
    <3> QED
      BY <1>1, <3>1, <3>2, <3>3, <3>4 DEF Connects
  <2> QED
    BY <2>2, <2>3
<1>15. Shapes'
  BY <1>0, <1>1, <1>2, <1>9, <1>10, <1>12 DEF Shapes, Alone
<1> QED
  BY <1>12, <1>13, <1>14, <1>15 DEF LockInv

(* The discipline of the locks, for any number of processes and threads:   *)
(* at most one thread of a process is inside SQLite, a process holds the   *)
(* lock that its writing thread needs, and only for that thread or for an  *)
(* active statement; one thread opens the database, before the others use  *)
(* it, and its statements are unused until then.                           *)
THEOREM CacheLocks == Spec => []LockInv
<1>1. LockInv /\ [Next]_vars => LockInv'
  <2> SUFFICES ASSUME LockInv, [Next]_vars PROVE LockInv'
    OBVIOUS
  <2>1. CASE UNCHANGED vars
    BY <2>1 DEF vars, file, data, LockInv, Shapes, ThreadOK, AtOK, ProcessOK, StmtOK,
                LockOK, HolderOK, OpenerOK, Inside, ActiveStmts, Active, Of, Jobs
  <2> QED
    BY <2>1, SQLiteLocks, ConstructLocks, StopLocks DEF Next
<1> QED
  BY <1>1, InitLocks, PTL DEF Spec

-----------------------------------------------------------------------------
(* Where only one thread of a process constructs objects.                  *)
\* u is left alone by a step, or constructs nothing.
Untouched(u) ==
    /\ UNCHANGED program /\ thr'[u] = thr[u] /\ objects'[u] = objects[u]
    /\ \/ thr[u].phase = "start"
       \/ /\ stmt'[Of[u]] = stmt[Of[u]] /\ lock'[Of[u]] = lock[Of[u]]
          /\ dirty'[Of[u]] = dirty[Of[u]]

LEMMA OthersUntouched ==
    ASSUME LockInv, SingleThreaded, NEW t \in Threads, SQLite(t) \/ Construct(t),
           NEW u \in Threads, u # t
    PROVE  Untouched(u)
<1>0. Shapes /\ Of[u] \in Processes /\ Of[t] \in Processes /\ Active(t)
  BY ProgramParts DEF LockInv, SQLite, Construct
<1>1. CASE Of[u] = Of[t]
  <2>1. Jobs[t] # <<>>
    <3>1. Len(objects[t]) \in Nat /\ Len(objects[t]) < Len(Jobs[t])
      BY <1>0, ProgramParts DEF Active
    <3>2. Len(<<>>) = 0
      OBVIOUS
    <3> QED
      BY <3>1, <3>2
  <2>2. Jobs[u] = <<>>
    BY <1>1, <2>1 DEF SingleThreaded
  <2>3. ~Active(u)
    <3>1. Len(objects[u]) \in Nat /\ Len(Jobs[u]) = 0
      BY <1>0, <2>2, ProgramParts
    <3> QED
      BY <3>1 DEF Active
  <2>4. thr[u].phase = "start"
    BY <1>0, <2>3 DEF Shapes, ThreadOK
  <2>5. program' = program /\ thr'[u] = thr[u] /\ objects'[u] = objects[u]
    BY <1>0, SQLiteStep, ConstructStep DEF Local, Alone
  <2> QED
    BY <2>4, <2>5 DEF Untouched
<1>2. CASE Of[u] # Of[t] /\ SQLite(t)
  BY <1>0, <1>2, SQLiteStep DEF Local, Untouched
<1>3. CASE Of[u] # Of[t] /\ Construct(t)
  <2>1. Alone(t) /\ (Connects(t) \/ Works(t))
    BY <1>0, <1>3, ConstructStep
  <2>2. stmt'[Of[u]] = stmt[Of[u]]
    <3>1. stmt' = stmt \/ stmt' = [stmt EXCEPT ![Of[t]] = NewStmts]
      BY <2>1 DEF Connects, FindsOpen, Opens, Gives, Creates, IsOpen, Works
    <3>2. DOMAIN stmt = Processes
      BY <1>0 DEF Shapes
    <3> QED
      BY <1>0, <1>3, <3>1, <3>2
  <2> QED
    BY <2>1, <2>2 DEF Alone, Untouched
<1> QED
  BY <1>1, <1>2, <1>3

LEMMA StopUntouched ==
    ASSUME LockInv, NEW p \in Processes, Stop(p), NEW u \in Threads
    PROVE  /\ UNCHANGED <<program, rows, refused, objects>>
           /\ \/ Untouched(u)
              \/ thr'[u] = Idle /\ objects'[u] = objects[u]
<1>0. Shapes /\ Of[u] \in Processes /\ DOMAIN thr = Threads
  BY ProgramParts DEF LockInv, Shapes
<1> DEFINE lost == {t \in Threads : Of[t] = p /\ Active(t) /\ thr[t].phase # "start"}
<1>1. /\ lock' = [lock EXCEPT ![p] = "none"]
      /\ dirty' = [dirty EXCEPT ![p] = <<>>] /\ stmt' = [stmt EXCEPT ![p] = NewStmts]
      /\ thr' = [t \in Threads |-> IF t \in lost THEN Idle ELSE thr[t]]
      /\ UNCHANGED <<program, rows, refused, objects>>
  BY DEF Stop
<1>2. CASE u \in lost
  BY <1>1, <1>2
<1>3. CASE u \notin lost
  <2>1. thr'[u] = thr[u]
    BY <1>1, <1>3
  <2>2. Of[u] = p => thr[u].phase = "start"
    BY <1>0, <1>3 DEF Shapes, ThreadOK
  <2>3. Of[u] # p => /\ stmt'[Of[u]] = stmt[Of[u]] /\ lock'[Of[u]] = lock[Of[u]]
                     /\ dirty'[Of[u]] = dirty[Of[u]]
    BY <1>0, <1>1 DEF Shapes
  <2> QED
    BY <1>1, <2>1, <2>2, <2>3 DEF Untouched
<1> QED
  BY <1>1, <1>2, <1>3

LEMMA UntouchedCall ==
    ASSUME NEW u \in Threads, Untouched(u)
    PROVE  /\ Key(u)' = Key(u) /\ Program(u)' = Program(u) /\ Call(u)' = Call(u)
           /\ Stmt(u)' = Stmt(u) /\ Of[u]' = Of[u]
           /\ Mine(u)' = Mine(u) \/ thr[u].phase = "start"
<1>1. Of[u]' = Of[u] /\ Jobs' = Jobs /\ thr'[u] = thr[u] /\ objects'[u] = objects[u]
  BY DEF Untouched, Of, Jobs
<1>2. Job(u)' = Job(u)
  BY <1>1 DEF Job
<1>3. Key(u)' = Key(u) /\ Program(u)' = Program(u)
  BY <1>1, <1>2 DEF Key, Program
<1>4. Call(u)' = Call(u)
  BY <1>1, <1>3 DEF Call
<1>5. Stmt(u)' = Stmt(u)
  BY <1>4 DEF Stmt
<1> QED
  BY <1>1, <1>3, <1>4, <1>5 DEF Mine, Untouched

(* The call of a thread remains the same while SQLite works on it.         *)
LEMMA LocalCall ==
    ASSUME Shapes, NEW t \in Threads, Local(t), thr[t].phase \in Calling,
           thr[t].at = "column" => thr[t].phase # "add"
    PROVE  /\ Key(t)' = Key(t) /\ Program(t)' = Program(t) /\ Call(t)' = Call(t)
           /\ Stmt(t)' = Stmt(t) /\ Of[t]' = Of[t] /\ Mine(t)' = New(t)
<1>1. /\ Of[t]' = Of[t] /\ Jobs' = Jobs /\ objects' = objects /\ makeKey' = makeKey
      /\ thr'[t].phase = thr[t].phase /\ thr'[t].params = thr[t].params
      /\ thr'[t].left = thr[t].left
  BY DEF Local, Of, Jobs
<1>2. Job(t)' = Job(t)
  BY <1>1 DEF Job
<1>3. Key(t)' = Key(t) /\ Program(t)' = Program(t)
  BY <1>1, <1>2 DEF Key, Program
<1>4. thr[t].phase = "add" => thr'[t].found = thr[t].found
  BY DEF Local
<1>5. Call(t)' = Call(t)
  BY <1>1, <1>3, <1>4 DEF Call, Calling
<1>6. Stmt(t)' = Stmt(t)
  BY <1>5 DEF Stmt
<1> QED
  BY <1>1, <1>3, <1>5, <1>6 DEF Mine, New

(* What a call of SQLite finds: its phase and its statement.               *)
LEMMA Caller ==
    ASSUME Shapes, NEW t \in Threads, SomeCall(t)
    PROVE  /\ thr[t].phase \in Calling
           /\ Call(t).op = "create" <=> thr[t].phase = "open"
           /\ Call(t).op = "query" <=> thr[t].phase \in {"find", "lookup"}
           /\ Call(t).op = "add" <=> thr[t].phase \in {"save", "add"}
           /\ Call(t).op # "create" => Stmt(t) \in Statements
           /\ thr[t].at = "column" => thr[t].phase # "add"
<1>1. thr[t].at \in {"reset", "bindKey", "bindValue", "step", "column", "reserved",
                     "exclusive"}
  BY DEF SomeCall, Resets, BindsKey, BindsValue, Misuses, IsRefused, Hits, Misses,
         Reads, Exists, Writes, Excludes, RollsBack, Commits, Moves
<1>2. thr[t].phase \in Calling
  BY <1>1, CallerPhase, NoneAssumption
<1>3. thr[t].at = "column" => thr[t].phase # "add"
  BY NoneAssumption DEF Shapes, ThreadOK, AtOK
<1> QED
  BY <1>2, <1>3, CallShape

-----------------------------------------------------------------------------
(* The types, and no statement is bound before it is reset.                *)
BindsOK(t) ==
    /\ thr[t].cause # "misuse"
    /\ thr[t].at \in {"bindKey", "bindValue"} => Mine(t).at = "reset"

BindInv == SingleThreaded => \A t \in Threads : BindsOK(t)
Databases == db \in [Processes -> {"closed", "opening", "open"}]

LEMMA ConstructorStarts ==
    ASSUME NEW t \in Threads, Connects(t) \/ Works(t)
    PROVE  /\ thr'[t].at \in {None, "step", "reset"} /\ thr'[t].cause = None
           /\ thr'[t].at = "step" => thr'[t].phase = "open"
<1>1. (\E e : Ends(t, e)) \/ (\E phase, a, l, r, f : Starts(t, phase, a, l, r, f))
  BY Zenon DEF Connects, FindsOpen, Opens, Gives, Creates, IsOpen,
               Works, Finds, Tries, Saves, LooksUp, Builds, Adds, Throws, Succeeds
<1>2. CASE \E e : Ends(t, e)
  BY <1>2, IdleParts, NoneAssumption DEF Ends
<1>3. CASE \E phase, a, l, r, f : Starts(t, phase, a, l, r, f)
  <2>1. PICK phase, a, l, r, f : Starts(t, phase, a, l, r, f)
    BY <1>3
  <2> QED
    BY <2>1, NoneAssumption DEF Starts
<1> QED
  BY <1>1, <1>2, <1>3

LEMMA BindStep ==
    ASSUME LockInv, BindInv, Next
    PROVE  BindInv'
<1> SUFFICES ASSUME SingleThreaded', NEW u \in Threads PROVE BindsOK(u)'
  BY DEF BindInv
<1>0. Shapes /\ \A t \in Threads : Of[t] \in Processes
  BY ProgramParts DEF LockInv
<1>1. program' = program
  BY DEF Next, SQLite, Construct, Stop
<1>2. SingleThreaded
  BY <1>1 DEF SingleThreaded, Of, Jobs
<1>3. BindsOK(u)
  BY <1>2 DEF BindInv
<1>4. Untouched(u) => BindsOK(u)'
  <2> SUFFICES ASSUME Untouched(u) PROVE BindsOK(u)'
    OBVIOUS
  <2>1. thr'[u] = thr[u] /\ (Mine(u)' = Mine(u) \/ thr[u].at = None)
    BY <1>0, UntouchedCall DEF Untouched, Shapes, ThreadOK, AtOK
  <2> QED
    BY <1>3, <2>1, NoneAssumption DEF BindsOK
<1>5. ASSUME SQLite(u) PROVE BindsOK(u)'
  <2>1. Local(u) /\ SomeCall(u)
    BY <1>0, <1>5, SQLiteStep
  <2>2. /\ thr[u].phase \in Calling /\ (Call(u).op # "create" => Stmt(u) \in Statements)
        /\ Mine(u)' = New(u)
    BY <1>0, <2>1, Caller, LocalCall
  <2>3. ~Misuses(u)
    BY <1>3 DEF Misuses, BindsOK
  <2>4. thr'[u].cause # "misuse"
    BY <1>3, <2>1, <2>3
       DEF SomeCall, Resets, BindsKey, BindsValue, IsRefused, Hits, Misses, Reads, Exists,
           Writes, Excludes, RollsBack, Commits, Moves, Errs, BindsOK
  <2>5. thr'[u].at \in {"bindKey", "bindValue"} => Resets(u) \/ BindsKey(u)
    BY <2>1, <2>3
       DEF SomeCall, BindsValue, IsRefused, Hits, Misses, Reads, Exists,
           Writes, Excludes, RollsBack, Commits, Moves, Errs
  <2>6. CASE Resets(u)
    <3>1. New(u).at = "reset"
      BY <1>0, <2>2, <2>6, CallStmt DEF Resets
    <3> QED
      BY <2>2, <2>4, <3>1 DEF BindsOK
  <2>7. CASE BindsKey(u)
    <3>1. New(u).at = "reset"
      BY <1>0, <2>2, <2>7, CallStmt DEF BindsKey
    <3> QED
      BY <2>2, <2>4, <3>1 DEF BindsOK
  <2> QED
    BY <2>4, <2>5, <2>6, <2>7 DEF BindsOK
<1>6. ASSUME Construct(u) PROVE BindsOK(u)'
  BY <1>0, <1>6, ConstructStep, ConstructorStarts, NoneAssumption DEF BindsOK
<1>7. ASSUME NEW p \in Processes, Stop(p) PROVE BindsOK(u)'
  BY <1>4, <1>7, StopUntouched, IdleParts, NoneAssumption DEF BindsOK
<1> QED
  BY <1>2, <1>4, <1>5, <1>6, <1>7, OthersUntouched DEF Next

(* The state of the cache is as its variables are meant (TypeOK).          *)
THEOREM CacheTypes == Spec => []TypeOK
<1>1. Init => BindInv
  <2> SUFFICES ASSUME Init, NEW t \in Threads PROVE BindsOK(t)
    BY DEF BindInv
  <2>1. thr[t] = Idle
    BY DEF Init
  <2> QED
    BY <2>1, IdleParts, NoneAssumption DEF BindsOK
<1>2. LockInv /\ BindInv /\ [Next]_vars => BindInv'
  <2>1. LockInv /\ BindInv /\ UNCHANGED vars => BindInv'
    BY DEF vars, file, data, BindInv, BindsOK, SingleThreaded, Of, Jobs, Mine, Stmt, Call,
           Key, Job, Program
  <2> QED
    BY <2>1, BindStep
<1>3. LockInv /\ BindInv /\ Databases => TypeOK
  <2> SUFFICES ASSUME LockInv, BindInv, Databases PROVE TypeOK
    OBVIOUS
  <2>1. Shapes
    BY DEF LockInv
  <2>2. db \in [Processes -> {"closed", "opening", "open"}]
    BY DEF Databases
  <2>3. ASSUME NEW p \in Processes
        PROVE  LET active == {s \in DOMAIN stmt[p] : stmt[p][s].at \in {"row", "pending"}}
               IN  /\ Cardinality(Inside(p)) <= 1
                   /\ lock[p] = "exclusive" => Inside(p) # {}
                   /\ lock[p] = "reserved" => Inside(p) # {} \/ \E s \in active : s[2] = "add"
                   /\ lock[p] = "shared" => active # {}
                   /\ lock[p] \in {"none", "shared"} <=> dirty[p] = <<>>
    <3>1. Cardinality(Inside(p)) <= 1
      <4>1. CASE Inside(p) = {}
        BY <4>1, FS_EmptySet
      <4>2. CASE Inside(p) # {}
        <5>1. PICK t \in Inside(p) : TRUE
          BY <4>2
        <5>2. t \in Threads /\ Of[t] = p
          BY DEF Inside
        <5>3. Inside(p) = {t}
          BY <5>1, <5>2 DEF LockInv, HolderOK
        <5>4. Cardinality({t}) = 1
          BY FS_Singleton, Zenon
        <5>5. Cardinality(Inside(p)) = 1
          BY <5>3, <5>4, Zenon
        <5> QED
          BY <5>5
      <4> QED
        BY <4>1, <4>2
    <3>2. {s \in DOMAIN stmt[p] : stmt[p][s].at \in {"row", "pending"}} = ActiveStmts(p)
      BY <2>1 DEF Shapes, ProcessOK, ActiveStmts
    <3>3. LockOK(p)
      BY DEF LockInv
    <3> QED
      BY <3>1, <3>2, <3>3 DEF LockOK
  <2> QED
    BY <2>1, <2>2, <2>3 DEF TypeOK, Shapes, ThreadOK, BindInv, BindsOK
<1>4. Init => Databases
  BY DEF Init, Databases
<1>5. Databases /\ [Next]_vars => Databases'
  <2> SUFFICES ASSUME Databases, [Next]_vars PROVE Databases'
    OBVIOUS
  <2>1. \/ db' = db
        \/ \E p \in Processes : db' = [db EXCEPT ![p] = "closed"]
        \/ \E t \in Threads, v \in {"closed", "opening", "open"} :
              db' = [db EXCEPT ![Of[t]] = v]
    <3>1. ASSUME NEW t \in Threads, SQLite(t) PROVE db' = db
      BY <3>1 DEF SQLite
    <3>2. ASSUME NEW t \in Threads, Construct(t)
          PROVE  \/ db' = db
                 \/ \E v \in {"closed", "opening", "open"} : db' = [db EXCEPT ![Of[t]] = v]
      BY <3>2 DEF Construct, getDB, openFailed, opened, found, lookedUp, buildBinary,
                  buildSource, added, saved
    <3>3. ASSUME NEW p \in Processes, Stop(p) PROVE db' = [db EXCEPT ![p] = "closed"]
      BY <3>3 DEF Stop
    <3> QED
      BY <3>1, <3>2, <3>3 DEF Next, vars, file
  <2> QED
    BY <2>1 DEF Databases
<1> QED
  BY <1>1, <1>2, <1>3, <1>4, <1>5, CacheLocks, PTL DEF Spec

-----------------------------------------------------------------------------
(* The file: one process writes at a time, and what it commits contains    *)
(* all that the file holds.                                                *)
Contains(f, g) ==
    /\ DOMAIN g \subseteq DOMAIN f
    /\ \A name \in DOMAIN g : DOMAIN g[name] \subseteq DOMAIN f[name]

WriterOK(p) ==
    lock[p] \in Holding =>
        /\ Contains(dirty[p], rows)
        /\ \A q \in Processes : lock[q] \in Holding => q = p

\* The tables exist once the database is open; an add that is active, though
\* not inside SQLite, was refused the lock.
OpenOK(p) ==
    /\ db[p] = "open" => Tables \subseteq DOMAIN rows
    /\ \A s \in ActiveStmts(p) : s[2] = "add" => p \in refused

TablesOK(t) ==
    thr[t].phase = "open" =>
        /\ thr[t].left = <<"kernel">> => "params" \in DOMAIN rows
        /\ thr[t].at \in Holding => Head(thr[t].left) \in DOMAIN dirty[Of[t]]
        /\ thr[t].at = "ok" => Head(thr[t].left) \in DOMAIN rows

FileInv ==
    /\ \A p \in Processes : WriterOK(p) /\ OpenOK(p)
    /\ \A t \in Threads : TablesOK(t)

(* What an add or the creation of a table makes of what it sees.           *)
LEMMA WriteParts ==
    ASSUME NEW t \in Threads
    PROVE  /\ DOMAIN Write(t) = DOMAIN View(Of[t]) \cup {Call(t).table}
           /\ \A name \in DOMAIN View(Of[t]) :
                 name # Call(t).table => Write(t)[name] = View(Of[t])[name]
           /\ Call(t).op = "create" => Write(t)[Call(t).table] = <<>>
           /\ Call(t).op # "create" =>
                 Write(t)[Call(t).table] =
                     With(View(Of[t])[Call(t).table], Mine(t).key, Mine(t).value)
<1> DEFINE old == View(Of[t])
           name == Call(t).table
           added_ == With(old[name], Mine(t).key, Mine(t).value)
           new == IF Call(t).op = "create" THEN <<>> ELSE added_
<1>1. Write(t) = With(old, name, new)
  BY DEF Write
<1> HIDE DEF old, name, added_
<1>2. /\ Call(t).op = "create" => new = <<>>
      /\ Call(t).op # "create" => new = added_
  OBVIOUS
<1> HIDE DEF new
<1>3. DOMAIN Write(t) = DOMAIN old \cup {name}
  BY <1>1, WithDomain
<1>4. Write(t)[name] = new
  BY <1>1, WithValue
<1>5. \A x \in DOMAIN old : x # name => Write(t)[x] = old[x]
  BY <1>1, WithValue
<1> QED
  BY <1>2, <1>3, <1>4, <1>5 DEF old, name, added_

LEMMA WriteContains ==
    ASSUME NEW t \in Threads, Contains(View(Of[t]), rows),
           Call(t).op = "create" => Call(t).table \notin DOMAIN rows
    PROVE  Contains(Write(t), rows)
<1>1. DOMAIN rows \subseteq DOMAIN Write(t)
  BY WriteParts DEF Contains
<1>2. ASSUME NEW name \in DOMAIN rows PROVE DOMAIN rows[name] \subseteq DOMAIN Write(t)[name]
  <2>1. name \in DOMAIN View(Of[t]) /\ DOMAIN rows[name] \subseteq DOMAIN View(Of[t])[name]
    BY DEF Contains
  <2>2. CASE name # Call(t).table
    BY <2>1, <2>2, WriteParts
  <2>3. CASE name = Call(t).table
    <3>1. PICK k, v : Write(t)[name] = With(View(Of[t])[name], k, v)
      BY <2>3, WriteParts, ZenonT(40)
    <3>2. DOMAIN With(View(Of[t])[name], k, v) = DOMAIN View(Of[t])[name] \cup {k}
      BY WithDomain, Zenon
    <3> QED
      BY <2>1, <3>1, <3>2, Zenon
  <2> QED
    BY <2>2, <2>3
<1> QED
  BY <1>1, <1>2 DEF Contains

(* A transaction that goes on, and what is committed.                      *)
LEMMA CallWriter ==
    ASSUME LockInv, NEW t \in Threads, SomeCall(t)
    PROVE  /\ lock'[Of[t]] \in Holding =>
                 \/ Writes(t)
                 \/ /\ lock[Of[t]] \in Holding /\ dirty'[Of[t]] = dirty[Of[t]]
                    /\ rows' = rows
           /\ rows' = rows \/ (Commits(t) /\ lock[Of[t]] = "exclusive")
           /\ refused \subseteq refused'
           /\ ~IsRefused(t) => refused' = refused
<1>1. HolderOK(t)
  BY DEF LockInv
<1>2. Excludes(t) => lock[Of[t]] \in Holding
  BY <1>1 DEF Excludes, Moves, HolderOK, Holding
<1>3. Commits(t) => lock[Of[t]] = "exclusive" /\ lock'[Of[t]] \notin Holding
  BY <1>1 DEF Commits, Moves, HolderOK, Holding, Ended
<1>4. rows' = rows \/ Commits(t)
  BY DEF SomeCall, Resets, BindsKey, BindsValue, Misuses, IsRefused, Hits, Misses,
         Reads, Exists, Writes, Excludes, RollsBack, Quiet, Halted
<1>5. lock'[Of[t]] \in Holding =>
          Writes(t) \/ (lock[Of[t]] \in Holding /\ dirty'[Of[t]] = dirty[Of[t]])
  BY <1>2, <1>3
     DEF SomeCall, Resets, BindsKey, BindsValue, Misuses, IsRefused, Hits, Misses,
         Reads, Exists, Excludes, RollsBack, Quiet, Halted, Ended, Holding
<1>6. refused \subseteq refused' /\ (~IsRefused(t) => refused' = refused)
  BY DEF SomeCall, Resets, BindsKey, BindsValue, Misuses, IsRefused, Hits, Misses,
         Reads, Exists, Writes, Excludes, RollsBack, Commits, Quiet, Halted
<1> QED
  BY <1>3, <1>4, <1>5, <1>6

\* No row is lost.
Grows == Contains(rows', rows)

LEMMA RowsGrow ==
    ASSUME LockInv, FileInv, NEW t \in Threads, SomeCall(t)
    PROVE  Grows
<1>1. Of[t] \in Processes
  BY ProgramParts DEF LockInv
<1>2. CASE rows' = rows
  BY <1>2 DEF Grows, Contains
<1>3. CASE Commits(t) /\ lock[Of[t]] = "exclusive"
  BY <1>1, <1>3 DEF Commits, FileInv, WriterOK, Holding, Grows
<1> QED
  BY <1>2, <1>3, CallWriter

LEMMA SQLiteFile ==
    ASSUME LockInv, FileInv, NEW t \in Threads, SQLite(t)
    PROVE  FileInv'
<1>0. /\ Shapes /\ Of[t] \in Processes /\ Of' = Of /\ Local(t) /\ SomeCall(t) /\ Grows
      /\ Inside(Of[t]) \subseteq {t} /\ db' = db
  <2>1. Shapes /\ Of[t] \in Processes
    BY ProgramParts DEF LockInv
  <2>2. Local(t) /\ SomeCall(t)
    BY <2>1, SQLiteStep
  <2> QED
    BY <2>1, <2>2, RowsGrow DEF SQLite, Of, Local
<1>1. ASSUME NEW q \in Processes PROVE WriterOK(q)'
  <2> SUFFICES ASSUME lock'[q] \in Holding
               PROVE  /\ Contains(dirty'[q], rows')
                      /\ \A r \in Processes : lock'[r] \in Holding => r = q
    BY DEF WriterOK
  <2>1. WriterOK(q) /\ WriterOK(Of[t])
    BY <1>0 DEF FileInv
  <2>2. CASE q # Of[t]
    <3>1. lock[q] \in Holding /\ dirty'[q] = dirty[q]
      BY <1>0, <2>2 DEF Local
    <3>2. Contains(dirty[q], rows) /\ lock[Of[t]] \notin Holding
      BY <1>0, <2>1, <2>2, <3>1 DEF WriterOK
    <3>3. ~Writes(t)
      BY <2>2, <3>1 DEF Writes, Free, Others, Holding
    <3>4. rows' = rows /\ lock'[Of[t]] \notin Holding
      BY <1>0, <3>2, <3>3, CallWriter DEF Holding
    <3>5. \A r \in Processes : lock'[r] \in Holding => lock[r] \in Holding
      BY <1>0, <3>4 DEF Local
    <3> QED
      BY <2>1, <3>1, <3>2, <3>4, <3>5 DEF WriterOK
  <2>3. CASE q = Of[t] /\ Writes(t)
    <3>1. rows' = rows /\ dirty'[q] = Write(t) /\ Free(t, {"reserved", "exclusive"})
      BY <2>3 DEF Writes
    <3>2. Contains(View(q), rows)
      <4>1. CASE lock[q] \in Holding
        BY <2>1, <4>1 DEF WriterOK, View, Holding
      <4>2. CASE lock[q] \notin Holding
        BY <4>2 DEF View, Holding, Contains
      <4> QED
        BY <4>1, <4>2
    <3>3. Contains(Write(t), rows)
      BY <2>3, <3>2, WriteContains DEF Writes
    <3>4. \A r \in Processes : r # q => lock'[r] \notin Holding
      BY <1>0, <2>3, <3>1 DEF Local, Free, Others, Holding
    <3> QED
      BY <3>1, <3>3, <3>4
  <2>4. CASE q = Of[t] /\ ~Writes(t)
    <3>1. lock[q] \in Holding /\ dirty'[q] = dirty[q] /\ rows' = rows
      BY <1>0, <2>4, CallWriter
    <3>2. \A r \in Processes : lock'[r] \in Holding => lock[r] \in Holding
      BY <1>0, <2>4, <3>1 DEF Local
    <3> QED
      BY <2>1, <3>1, <3>2 DEF WriterOK
  <2> QED
    BY <2>2, <2>3, <2>4
<1>2. /\ thr[t].phase \in Calling
      /\ Call(t).op = "create" <=> thr[t].phase = "open"
      /\ Call(t).op # "create" => Stmt(t) \in Statements /\ Stmt(t)[2] = Call(t).op
      /\ Call(t).op = "create" => Stmt(t) \notin Statements
  BY <1>0, Caller, CallShape
<1>3. ASSUME NEW q \in Processes PROVE OpenOK(q)'
  <2>1. OpenOK(q)
    BY DEF FileInv
  <2>2. db'[q] = "open" => Tables \subseteq DOMAIN rows'
    BY <1>0, <2>1 DEF OpenOK, Grows, Contains
  <2>3. ASSUME NEW s \in ActiveStmts(q)', s[2] = "add" PROVE q \in refused'
    <3>1. refused \subseteq refused'
      BY <1>0, CallWriter
    <3>2. s \in Statements
      BY DEF ActiveStmts
    <3>3. CASE q # Of[t] \/ s # Stmt(t)
      <4>1. s \in ActiveStmts(q)
        BY <1>0, <3>2, <3>3 DEF ActiveStmts, Local
      <4> QED
        BY <2>1, <2>3, <3>1, <4>1 DEF OpenOK
    <3>4. CASE q = Of[t] /\ s = Stmt(t)
      <4>1. Call(t).op = "add" /\ Stmt(t) \in Statements
        BY <1>2, <2>3, <3>2, <3>4
      <4>2. New(t).at \in {"row", "pending"}
        BY <3>4 DEF ActiveStmts, New
      <4>3. CASE IsRefused(t)
        BY <3>4, <4>1, <4>3 DEF IsRefused
      <4>4. CASE ~IsRefused(t)
        <5>1. New(t).at = Mine(t).at
          <6>1. \/ stmt' = stmt \/ BindsKey(t) \/ BindsValue(t)
                \/ \E a \in {"reset", "done"} : After(t, [Mine(t) EXCEPT !.at = a])
            BY <1>0, <4>1, <4>4
               DEF SomeCall, Resets, Misuses, Hits, Misses, Reads, Exists, Writes,
                   Excludes, RollsBack, Commits
          <6> QED
            BY <1>0, <4>1, <4>2, <6>1, CallStmt
        <5>2. s \in ActiveStmts(q)
          BY <1>0, <3>4, <4>1, <4>2, <5>1, CallStmt DEF ActiveStmts
        <5> QED
          BY <2>1, <2>3, <3>1, <5>2 DEF OpenOK
      <4> QED
        BY <4>3, <4>4
    <3> QED
      BY <3>3, <3>4
  <2> QED
    BY <2>2, <2>3 DEF OpenOK
<1>4. ASSUME NEW u \in Threads PROVE TablesOK(u)'
  <2> SUFFICES ASSUME thr'[u].phase = "open"
               PROVE  /\ thr'[u].left = <<"kernel">> => "params" \in DOMAIN rows'
                      /\ thr'[u].at \in Holding =>
                            Head(thr'[u].left) \in DOMAIN dirty'[Of[u]]
                      /\ thr'[u].at = "ok" => Head(thr'[u].left) \in DOMAIN rows'
    BY <1>0 DEF TablesOK
  <2>1. TablesOK(u) /\ DOMAIN rows \subseteq DOMAIN rows' /\ Of[u] \in Processes
    BY <1>0, ProgramParts DEF FileInv, Grows, Contains
  <2>2. CASE u # t
    <3>1. thr'[u] = thr[u]
      BY <1>0, <2>2 DEF Local
    <3>2. Of[u] # Of[t]
      <4>1. OpenerOK(u) /\ OpenerOK(t)
        BY DEF LockInv
      <4> QED
        BY <1>2, <2>2, <3>1, <4>1 DEF OpenerOK, Calling
    <3>3. dirty'[Of[u]] = dirty[Of[u]]
      BY <1>0, <2>1, <3>2 DEF Local
    <3> QED
      BY <2>1, <3>1, <3>3 DEF TablesOK
  <2>3. CASE u = t
    <3>1. /\ thr[t].phase = "open" /\ thr'[t].left = thr[t].left
          /\ Call(t).op = "create" /\ Call(t).table = Head(thr[t].left)
      BY <1>0, <2>3, CallParts DEF Local
    <3>2. Writers(t) = {}
      <4>1. stmt[Of[t]] = NewStmts
        BY <1>0, <3>1 DEF LockInv, OpenerOK, Shapes, ProcessOK
      <4>2. \A s \in DOMAIN NewStmts : NewStmts[s].at = "reset"
        BY DEF NewStmts, NewStmt
      <4> QED
        BY <4>1, <4>2 DEF Writers, Running
    <3>3. Writes(t) => thr'[t].at = "reserved" /\ Head(thr[t].left) \in DOMAIN dirty'[Of[t]]
      BY <3>1, <3>2, WriteParts DEF Writes, Moves
    <3>4. Exists(t) => thr'[t].at = "ok" /\ Head(thr[t].left) \in DOMAIN rows
      BY <3>1 DEF Exists, Moves
    <3>5. /\ Excludes(t) => Head(thr[t].left) \in DOMAIN dirty'[Of[t]] /\ thr'[t].at # "ok"
          /\ Commits(t) => Head(thr[t].left) \in DOMAIN rows' /\ thr'[t].at = "ok"
      BY <2>1, <2>3, <3>1 DEF TablesOK, Excludes, Commits, Moves, Holding
    <3>6. Writes(t) \/ Exists(t) \/ Excludes(t) \/ Commits(t) \/ thr'[t].at = "error"
      BY <1>0, <3>1
         DEF SomeCall, Resets, BindsKey, BindsValue, Misuses, IsRefused, Hits, Misses,
             Reads, RollsBack, Errs
    <3> QED
      BY <2>1, <2>3, <3>1, <3>3, <3>4, <3>5, <3>6 DEF TablesOK, Holding
  <2> QED
    BY <2>2, <2>3
<1> QED
  BY <1>1, <1>3, <1>4 DEF FileInv

LEMMA ConstructFile ==
    ASSUME LockInv, FileInv, NEW t \in Threads, Construct(t)
    PROVE  FileInv'
<1>0. Shapes /\ Of[t] \in Processes
  BY ProgramParts DEF LockInv
<1>1. /\ Alone(t) /\ (Connects(t) \/ Works(t)) /\ Of' = Of
      /\ UNCHANGED <<rows, lock, dirty, refused>>
  BY <1>0, ConstructStep DEF Alone, Of
<1>2. ASSUME NEW q \in Processes PROVE WriterOK(q)'
  BY <1>1 DEF FileInv, WriterOK, Contains
<1>3. ASSUME NEW q \in Processes PROVE OpenOK(q)'
  <2>1. OpenOK(q) /\ stmt'[q] = stmt[q]
    BY <1>1, ConstructDb DEF FileInv
  <2>2. ActiveStmts(q)' = ActiveStmts(q)
    BY <2>1 DEF ActiveStmts
  <2>3. db'[q] = "open" => Tables \subseteq DOMAIN rows
    <3>1. CASE db'[q] # "open" \/ db[q] = "open"
      BY <2>1, <3>1 DEF OpenOK
    <3>2. CASE db'[q] = "open" /\ db[q] # "open"
      <4>1. IsOpen(t)
        BY <1>1, <3>2, ConstructDb
      <4>2. /\ thr[t].phase = "open" /\ thr[t].at = "ok" /\ thr[t].left = <<"kernel">>
            /\ TablesOK(t)
        BY <4>1 DEF IsOpen, FileInv
      <4> QED
        BY <4>2 DEF TablesOK, Tables
    <3> QED
      BY <3>1, <3>2
  <2> QED
    BY <1>1, <2>1, <2>2, <2>3 DEF OpenOK
<1>4. ASSUME NEW u \in Threads PROVE TablesOK(u)'
  <2>1. TablesOK(u) /\ TablesOK(t)
    BY DEF FileInv
  <2>2. CASE u # t
    BY <1>1, <2>1, <2>2 DEF TablesOK, Alone
  <2>3. CASE u = t /\ Opens(t)
    <3>1. thr'[t].at = "step" /\ thr'[t].left = <<"params", "kernel">>
      BY <2>3 DEF Opens, Starts
    <3>2. <<"params", "kernel">> # <<"kernel">>
      OBVIOUS
    <3> QED
      BY <2>3, <3>1, <3>2 DEF TablesOK, Holding
  <2>4. CASE u = t /\ Creates(t)
    <3>1. /\ thr'[t].at = "step" /\ thr[t].phase = "open" /\ thr[t].at = "ok"
          /\ thr[t].left = <<"params", "kernel">>
      BY <2>4 DEF Creates, Starts
    <3>2. "params" \in DOMAIN rows
      BY <2>1, <3>1 DEF TablesOK
    <3> QED
      BY <1>1, <2>4, <3>1, <3>2 DEF TablesOK, Holding
  <2>5. CASE u = t /\ ~Opens(t) /\ ~Creates(t)
    <3>1. thr'[t].phase # "open"
      <4>1. CASE \E e : Ends(t, e)
        BY <4>1, IdleParts DEF Ends
      <4>2. CASE \E phase \in {"find", "save", "lookup", "add", "binary", "source"} :
                    \E a, l, r, f : Starts(t, phase, a, l, r, f)
        <5>1. PICK phase \in {"find", "save", "lookup", "add", "binary", "source"} :
                   \E a, l, r, f : Starts(t, phase, a, l, r, f)
          BY <4>2
        <5> QED
          BY <5>1 DEF Starts
      <4> QED
        BY <1>1, <2>5, <4>1, <4>2, Zenon
           DEF Connects, FindsOpen, Gives, IsOpen, Works, Finds, Tries, Saves, LooksUp,
               Builds, Adds, Throws, Succeeds
    <3> QED
      BY <2>5, <3>1 DEF TablesOK
  <2> QED
    BY <2>2, <2>3, <2>4, <2>5
<1> QED
  BY <1>2, <1>3, <1>4 DEF FileInv

LEMMA StopFile ==
    ASSUME LockInv, FileInv, NEW p \in Processes, Stop(p)
    PROVE  FileInv'
<1>0. Shapes /\ Of' = Of
  BY DEF LockInv, Stop, Of
<1>1. /\ UNCHANGED <<rows, refused>>
      /\ db' = [db EXCEPT ![p] = "closed"] /\ lock' = [lock EXCEPT ![p] = "none"]
      /\ dirty' = [dirty EXCEPT ![p] = <<>>] /\ stmt' = [stmt EXCEPT ![p] = NewStmts]
  BY DEF Stop
<1>2. /\ db'[p] = "closed" /\ lock'[p] = "none" /\ stmt'[p] = NewStmts
      /\ \A q \in Processes : q # p => /\ db'[q] = db[q] /\ lock'[q] = lock[q]
                                       /\ dirty'[q] = dirty[q] /\ stmt'[q] = stmt[q]
  BY <1>0, <1>1 DEF Shapes
<1>3. ASSUME NEW q \in Processes PROVE WriterOK(q)'
  <2>1. WriterOK(q) /\ \A r \in Processes : lock'[r] \in Holding => r # p /\ lock[r] \in Holding
    BY <1>2 DEF FileInv, Holding
  <2> QED
    BY <1>1, <1>2, <2>1 DEF WriterOK
<1>4. ASSUME NEW q \in Processes PROVE OpenOK(q)'
  <2>1. OpenOK(q)
    BY DEF FileInv
  <2>2. CASE q = p
    <3>1. \A s \in Statements : NewStmts[s].at = "reset"
      BY DEF NewStmts, NewStmt, Statements
    <3>2. ActiveStmts(q)' = {}
      BY <1>2, <2>2, <3>1 DEF ActiveStmts
    <3> QED
      BY <1>2, <2>2, <3>2 DEF OpenOK
  <2>3. CASE q # p
    <3>1. ActiveStmts(q)' = ActiveStmts(q) /\ db'[q] = db[q]
      BY <1>2, <2>3 DEF ActiveStmts
    <3> QED
      BY <1>1, <2>1, <3>1 DEF OpenOK
  <2> QED
    BY <2>2, <2>3
<1>5. ASSUME NEW u \in Threads PROVE TablesOK(u)'
  <2>1. TablesOK(u)
    BY DEF FileInv
  <2>2. CASE Untouched(u)
    BY <1>0, <1>1, <2>1, <2>2 DEF TablesOK, Untouched
  <2>3. CASE thr'[u] = Idle
    BY <2>3, IdleParts DEF TablesOK
  <2> QED
    BY <2>2, <2>3, StopUntouched
<1> QED
  BY <1>3, <1>4, <1>5 DEF FileInv

LEMMA FileInvariant == Spec => []FileInv
<1>1. Init => FileInv
  <2> SUFFICES ASSUME Init PROVE FileInv
    OBVIOUS
  <2>1. /\ \A p \in Processes : db[p] = "closed" /\ lock[p] = "none" /\ stmt[p] = NewStmts
        /\ \A t \in Threads : thr[t] = Idle
    BY DEF Init
  <2>2. \A s \in Statements : NewStmts[s].at = "reset"
    BY DEF NewStmts, NewStmt, Statements
  <2> QED
    BY <2>1, <2>2, IdleParts
       DEF FileInv, WriterOK, OpenOK, TablesOK, ActiveStmts, Holding
<1>2. LockInv /\ FileInv /\ [Next]_vars => FileInv'
  <2>1. FileInv /\ UNCHANGED vars => FileInv'
    BY DEF vars, file, data, FileInv, WriterOK, OpenOK, TablesOK, ActiveStmts, Contains, Of
  <2> QED
    BY <2>1, SQLiteFile, ConstructFile, StopFile DEF Next
<1> QED
  BY <1>1, <1>2, CacheLocks, PTL DEF Spec

-----------------------------------------------------------------------------
(* What is written, read and built, where one thread of each process       *)
(* constructs objects.                                                     *)
\* What the value of a key in a table is to be.
Right(name, key, value) ==
    /\ name = "params" => value[1] = key
    /\ name = "kernel" => value = key
ValidTables(f) ==
    \A name \in DOMAIN f : \A k \in DOMAIN f[name] : Right(name, k, f[name][k])

\* What is bound to the statement of a call, and what is read from it.
BoundOK(t) ==
    /\ thr[t].at = "bindValue" => Mine(t).key = Call(t).key
    /\ thr[t].phase \in {"find", "lookup"} /\ thr[t].at \in {"step", "column"} =>
           Mine(t).key = Call(t).key
    /\ thr[t].phase \in {"save", "add"} /\ thr[t].at \in {"step", "reserved", "exclusive"} =>
           Mine(t).key = Call(t).key /\ Mine(t).value = Call(t).value
    /\ thr[t].at = "column" =>
           Mine(t).at = "row" /\ Right(Call(t).table, Call(t).key, Mine(t).value)

\* Candidates of tuning that belong to the problem of t.
OwnTrials(t, left) == IsQueue(left) /\ \A i \in 1 .. Len(left) : left[i][1] = Key(t)

\* The values that a constructor works with are those of its own problem.
WorkOK(t) ==
    /\ thr[t].phase \in Building \cup {"save"} => thr[t].params[1] = Key(t)
    /\ thr[t].phase = "find" /\ thr[t].at = "ok" => thr[t].found[1] = Key(t)
    /\ thr[t].phase = "lookup" /\ thr[t].at = "ok" => thr[t].found = Program(t)
    /\ thr[t].phase \in {"binary", "add"} => thr[t].found = Program(t)
    /\ thr[t].phase \in Building \cup {"find", "save"} =>
          OwnTrials(t, thr[t].left) /\ \A v \in thr[t].retained : v[1] = Key(t)

MadeOK(t) ==
    \A i \in DOMAIN objects[t] :
        objects[t][i].error = None =>
            /\ objects[t][i].params[1] = makeKey[objects[t][i].problem]
            /\ objects[t][i].program = <<objects[t][i].problem, objects[t][i].params>>

ValueInv == SingleThreaded =>
    /\ ValidTables(rows)
    /\ \A p \in Processes : ValidTables(dirty[p])
    /\ \A t \in Threads : BoundOK(t) /\ WorkOK(t) /\ MadeOK(t)

LEMMA ViewTables ==
    ASSUME LockInv, FileInv, NEW p \in Processes, db[p] = "open"
    PROVE  Tables \subseteq DOMAIN View(p)
<1>1. Tables \subseteq DOMAIN rows /\ WriterOK(p)
  BY DEF FileInv, OpenOK
<1> QED
  BY <1>1 DEF WriterOK, View, Contains, Holding

LEMMA WriteValid ==
    ASSUME NEW t \in Threads, ValidTables(View(Of[t])),
           Call(t).op # "create" =>
               /\ Call(t).table \in DOMAIN View(Of[t])
               /\ Right(Call(t).table, Mine(t).key, Mine(t).value)
    PROVE  ValidTables(Write(t))
<1> SUFFICES ASSUME NEW name \in DOMAIN Write(t), NEW k \in DOMAIN Write(t)[name]
             PROVE  Right(name, k, Write(t)[name][k])
  BY DEF ValidTables
<1>1. CASE name # Call(t).table
  <2>1. name \in DOMAIN View(Of[t]) /\ Write(t)[name] = View(Of[t])[name]
    BY <1>1, WriteParts
  <2> QED
    BY <2>1 DEF ValidTables
<1>2. CASE name = Call(t).table /\ Call(t).op = "create"
  <2>1. Write(t)[name] = <<>>
    BY <1>2, WriteParts, Zenon
  <2>2. DOMAIN <<>> = {}
    OBVIOUS
  <2> QED
    BY <2>1, <2>2
<1>3. CASE name = Call(t).table /\ Call(t).op # "create"
  <2> DEFINE old == View(Of[t])[name]
             key == Mine(t).key
             value == Mine(t).value
  <2>1. Write(t)[name] = With(old, key, value)
    BY <1>3, WriteParts
  <2>2. Right(name, key, value) /\ \A x \in DOMAIN old : Right(name, x, old[x])
    BY <1>3 DEF ValidTables
  <2> HIDE DEF old, key, value
  <2>3. DOMAIN With(old, key, value) = DOMAIN old \cup {key}
    BY WithDomain
  <2>4. CASE k = key
    <3>1. With(old, key, value)[k] = value
      BY <2>4, WithValue
    <3> QED
      BY <2>1, <2>2, <2>4, <3>1
  <2>5. CASE k # key
    <3>1. k \in DOMAIN old
      BY <2>1, <2>3, <2>5
    <3>2. With(old, key, value)[k] = old[k]
      BY <2>5, <3>1, WithValue
    <3> QED
      BY <2>1, <2>2, <3>1, <3>2
  <2> QED
    BY <2>4, <2>5
<1> QED
  BY <1>1, <1>2, <1>3

LEMMA TrialsOwn ==
    ASSUME Shapes, NEW t \in Threads, Active(t)
    PROVE  Trials(t) # <<>> /\ OwnTrials(t, Trials(t))
<1>1. Job(t).problem \in DOMAIN makeKey
  <2> DEFINE J == [problem : DOMAIN makeKey, tunable : BOOLEAN]
             i == Len(objects[t]) + 1
  <2>1. /\ Jobs[t] \in Seq(J) /\ Len(objects[t]) \in Nat /\ Len(Jobs[t]) \in Nat
        /\ Len(objects[t]) < Len(Jobs[t])
    BY ProgramParts DEF Active
  <2>2. Job(t) = Jobs[t][i]
    BY DEF Job
  <2>3. \A j \in J : j.problem \in DOMAIN makeKey
    OBVIOUS
  <2> HIDE DEF J
  <2>4. i \in 1 .. Len(Jobs[t])
    BY <2>1
  <2> HIDE DEF i
  <2>5. Jobs[t][i] \in J
    BY <2>1, <2>4
  <2> QED
    BY <2>2, <2>3, <2>5
<1> DEFINE c == Candidates[Key(t)]
           S == {c[i] : i \in DOMAIN c}
           q == Trials(t)
<1>2. c # <<>> /\ c \in Seq(S)
  BY <1>1, CandidatesAssumption DEF Key
<1>3. q = [i \in DOMAIN c |-> <<Key(t), c[i]>>]
  BY DEF Trials
<1> HIDE DEF c, S, q
<1>4. Len(c) \in Nat /\ DOMAIN c = 1 .. Len(c) /\ Len(c) # 0
  BY <1>2
<1> DEFINE T == {q[i] : i \in 1 .. Len(c)}
<1>5. q \in [1 .. Len(c) -> T] /\ \A i \in 1 .. Len(c) : q[i] = <<Key(t), c[i]>>
  BY <1>3, <1>4
<1> HIDE DEF T
<1>6. q \in Seq(T) /\ Len(q) = Len(c)
  BY <1>4, <1>5
<1>7. IsQueue(q)
  BY <1>4, <1>6 DEF IsQueue, T
<1>8. q # <<>>
  BY <1>4, <1>6
<1>9. \A i \in 1 .. Len(q) : q[i][1] = Key(t)
  BY <1>5, <1>6
<1> QED
  BY <1>7, <1>8, <1>9 DEF OwnTrials, q

LEMMA SQLiteValues ==
    ASSUME LockInv, FileInv, SingleThreaded, ValueInv, NEW t \in Threads, SQLite(t)
    PROVE  /\ ValidTables(rows') /\ \A p \in Processes : ValidTables(dirty'[p])
           /\ BoundOK(t)' /\ WorkOK(t)' /\ MadeOK(t)'
<1>0. /\ Shapes /\ Of[t] \in Processes /\ Local(t) /\ SomeCall(t)
      /\ thr[t].phase \in Calling /\ AtOK(thr[t].phase, thr[t].at)
  <2>1. Shapes /\ Of[t] \in Processes
    BY ProgramParts DEF LockInv
  <2> QED
    BY <2>1, SQLiteStep, Caller DEF Shapes, ThreadOK
<1>1. /\ Call(t).op = "create" <=> thr[t].phase = "open"
      /\ Call(t).op = "query" <=> thr[t].phase \in {"find", "lookup"}
      /\ Call(t).op = "add" <=> thr[t].phase \in {"save", "add"}
      /\ Call(t).op # "create" => Stmt(t) \in Statements
      /\ Call(t).table \in Tables
  BY <1>0, CallShape
<1>2. /\ Key(t)' = Key(t) /\ Program(t)' = Program(t) /\ Call(t)' = Call(t)
      /\ Mine(t)' = New(t)
  BY <1>0, Caller, LocalCall
<1>3. /\ BoundOK(t) /\ WorkOK(t) /\ MadeOK(t)
      /\ ValidTables(rows) /\ \A p \in Processes : ValidTables(dirty[p])
  BY DEF ValueInv
<1>4. ValidTables(View(Of[t]))
  BY <1>0, <1>3 DEF View
<1>5. thr[t].phase # "open" => Call(t).table \in DOMAIN View(Of[t])
  <2>1. thr[t].phase # "open" => db[Of[t]] = "open"
    BY <1>0 DEF LockInv, OpenerOK, Calling
  <2> QED
    BY <1>0, <1>1, <2>1, ViewTables
<1>6. Writes(t) => ValidTables(Write(t))
  <2> SUFFICES ASSUME Writes(t) PROVE ValidTables(Write(t))
    OBVIOUS
  <2>1. Call(t).op # "create" => Right(Call(t).table, Mine(t).key, Mine(t).value)
    <3> SUFFICES ASSUME Call(t).op # "create"
                 PROVE  Right(Call(t).table, Mine(t).key, Mine(t).value)
      OBVIOUS
    <3>1. thr[t].phase \in {"save", "add"} /\ thr[t].at = "step"
      BY <1>0, <1>1 DEF Writes, Calling
    <3>2. Mine(t).key = Call(t).key /\ Mine(t).value = Call(t).value
      BY <1>3, <3>1 DEF BoundOK
    <3>3. CASE thr[t].phase = "save"
      <4>1. Call(t).table = "params" /\ Call(t).key = Key(t) /\ Call(t).value = thr[t].params
        BY <3>3, CallParts
      <4>2. thr[t].params[1] = Key(t)
        BY <1>3, <3>3 DEF WorkOK
      <4> QED
        BY <3>2, <4>1, <4>2 DEF Right
    <3>4. CASE thr[t].phase = "add"
      <4>1. /\ Call(t).table = "kernel" /\ Call(t).key = Program(t)
            /\ Call(t).value = thr[t].found
        BY <3>4, CallParts
      <4>2. thr[t].found = Program(t)
        BY <1>3, <3>4 DEF WorkOK
      <4> QED
        BY <3>2, <4>1, <4>2 DEF Right
    <3> QED
      BY <3>1, <3>3, <3>4
  <2> QED
    BY <1>1, <1>4, <1>5, <2>1, WriteValid
<1>7. ValidTables(<<>>)
  <2>1. DOMAIN <<>> = {}
    OBVIOUS
  <2> QED
    BY <2>1 DEF ValidTables
<1>8. ASSUME NEW p \in Processes PROVE ValidTables(dirty'[p])
  <2>1. CASE p # Of[t]
    BY <1>0, <1>3, <2>1 DEF Local
  <2>2. CASE p = Of[t]
    <3>1. dirty'[p] = dirty[p] \/ dirty'[p] = <<>> \/ (Writes(t) /\ dirty'[p] = Write(t))
      BY <1>0, <2>2
         DEF SomeCall, Resets, BindsKey, BindsValue, Misuses, IsRefused, Hits, Misses,
             Reads, Exists, Writes, Excludes, RollsBack, Commits, Quiet, Halted, Ended
    <3> QED
      BY <1>3, <1>6, <1>7, <3>1
  <2> QED
    BY <2>1, <2>2
<1>9. ValidTables(rows')
  <2>1. rows' = rows \/ rows' = dirty[Of[t]]
    BY <1>0, CallWriter DEF Commits
  <2> QED
    BY <1>0, <1>3, <2>1
<1>10. thr'[t].phase = thr[t].phase
  BY <1>0 DEF Local
<1>11. BoundOK(t)'
  <2>1. thr'[t].at = "bindValue" => New(t).key = Call(t).key
    <3>1. thr'[t].at = "bindValue" => BindsKey(t)
      BY <1>0 DEF SomeCall, Resets, BindsKey, BindsValue, Misuses, IsRefused, Hits, Misses,
                  Reads, Exists, Writes, Excludes, RollsBack, Commits, Moves, Errs
    <3> QED
      BY <1>0, <1>1, <3>1, CallStmt DEF BindsKey
  <2>2. thr[t].phase \in {"find", "lookup"} /\ thr'[t].at \in {"step", "column"} =>
            New(t).key = Call(t).key
    <3> SUFFICES ASSUME thr[t].phase \in {"find", "lookup"}, thr'[t].at \in {"step", "column"}
                 PROVE  New(t).key = Call(t).key
      OBVIOUS
    <3>1. Call(t).op = "query" /\ Stmt(t) \in Statements
      BY <1>1
    <3>2. BindsKey(t) \/ Hits(t)
      BY <1>0, <3>1
         DEF SomeCall, Resets, BindsKey, BindsValue, Misuses, IsRefused, Hits, Misses,
             Reads, Exists, Writes, Excludes, RollsBack, Commits, Moves, Errs
    <3>3. Hits(t) => Mine(t).key = Call(t).key
      BY <1>3 DEF BoundOK, Hits, Moves
    <3> QED
      BY <1>0, <3>1, <3>2, <3>3, CallStmt
  <2>3. thr[t].phase \in {"save", "add"} /\ thr'[t].at \in {"step", "reserved", "exclusive"} =>
            New(t).key = Call(t).key /\ New(t).value = Call(t).value
    <3> SUFFICES ASSUME thr[t].phase \in {"save", "add"},
                        thr'[t].at \in {"step", "reserved", "exclusive"}
                 PROVE  New(t).key = Call(t).key /\ New(t).value = Call(t).value
      OBVIOUS
    <3>1. Call(t).op = "add" /\ Stmt(t) \in Statements
      BY <1>1
    <3>2. \/ BindsValue(t)
          \/ stmt' = stmt /\ thr[t].at \in {"step", "reserved", "exclusive"}
      BY <1>0, <3>1
         DEF SomeCall, Resets, BindsKey, BindsValue, Misuses, IsRefused, Hits, Misses,
             Reads, Exists, Writes, Excludes, RollsBack, Commits, Moves, Errs
    <3>3. CASE BindsValue(t)
      <4>1. Mine(t).key = Call(t).key
        BY <1>3, <3>3 DEF BoundOK, BindsValue, Moves
      <4> QED
        BY <1>0, <3>1, <3>3, <4>1, CallStmt
    <3>4. CASE stmt' = stmt /\ thr[t].at \in {"step", "reserved", "exclusive"}
      <4>1. Mine(t).key = Call(t).key /\ Mine(t).value = Call(t).value
        BY <1>3, <3>4 DEF BoundOK
      <4> QED
        BY <1>0, <3>1, <3>4, <4>1, CallStmt
    <3> QED
      BY <3>2, <3>3, <3>4
  <2>4. thr'[t].at = "column" =>
            New(t).at = "row" /\ Right(Call(t).table, Call(t).key, New(t).value)
    <3> SUFFICES ASSUME thr'[t].at = "column"
                 PROVE  New(t).at = "row" /\ Right(Call(t).table, Call(t).key, New(t).value)
      OBVIOUS
    <3>1. Hits(t)
      BY <1>0 DEF SomeCall, Resets, BindsKey, BindsValue, Misuses, IsRefused, Hits, Misses,
                  Reads, Exists, Writes, Excludes, RollsBack, Commits, Moves, Errs
    <3>2. /\ Call(t).op = "query" /\ thr[t].at = "step"
          /\ Mine(t).key \in DOMAIN View(Of[t])[Call(t).table]
      BY <3>1 DEF Hits, Moves
    <3>3. thr[t].phase \in {"find", "lookup"} /\ Stmt(t) \in Statements
      BY <1>1, <3>2
    <3>4. Mine(t).key = Call(t).key
      BY <1>3, <3>2, <3>3 DEF BoundOK
    <3>5. New(t).at = "row" /\ New(t).value = View(Of[t])[Call(t).table][Mine(t).key]
      BY <1>0, <3>1, <3>2, <3>3, CallStmt
    <3>6. Call(t).table \in DOMAIN View(Of[t])
      BY <1>5, <3>3
    <3> QED
      BY <1>4, <3>2, <3>4, <3>5, <3>6 DEF ValidTables
  <2> QED
    BY <1>2, <1>10, <2>1, <2>2, <2>3, <2>4 DEF BoundOK, Right
<1>12. WorkOK(t)'
  <2>1. /\ thr'[t].params = thr[t].params /\ thr'[t].left = thr[t].left
        /\ thr'[t].retained = thr[t].retained
        /\ thr'[t].found = thr[t].found \/ thr[t].at = "column"
    BY <1>0 DEF Local
  <2>2. thr[t].phase \in {"find", "lookup"} /\ thr'[t].at = "ok" =>
            Right(Call(t).table, Call(t).key, thr'[t].found)
    <3> SUFFICES ASSUME thr[t].phase \in {"find", "lookup"}, thr'[t].at = "ok"
                 PROVE  Right(Call(t).table, Call(t).key, thr'[t].found)
      OBVIOUS
    <3>1. Reads(t)
      BY <1>0, <1>1
         DEF SomeCall, Resets, BindsKey, BindsValue, Misuses, IsRefused, Hits, Misses,
             Reads, Exists, Writes, Excludes, RollsBack, Commits, Moves, Errs
    <3> QED
      BY <1>3, <3>1 DEF Reads, Moves, BoundOK
  <2>3. thr[t].phase = "find" /\ thr'[t].at = "ok" => thr'[t].found[1] = Key(t)
    BY <2>2, CallParts DEF Right
  <2>4. thr[t].phase = "lookup" /\ thr'[t].at = "ok" => thr'[t].found = Program(t)
    BY <2>2, CallParts DEF Right
  <2>5. thr[t].phase \in {"binary", "add"} => thr'[t].found = Program(t)
    <3>1. thr[t].phase \in {"binary", "add"} => thr[t].at # "column"
      BY <1>0, NoneAssumption DEF AtOK
    <3> QED
      BY <1>3, <2>1, <3>1 DEF WorkOK
  <2> QED
    BY <1>2, <1>3, <1>10, <2>1, <2>3, <2>4, <2>5 DEF WorkOK, OwnTrials
<1>13. MadeOK(t)'
  BY <1>0, <1>3 DEF MadeOK, Local
<1> QED
  BY <1>8, <1>9, <1>11, <1>12, <1>13

LEMMA ConstructValues ==
    ASSUME LockInv, SingleThreaded, ValueInv, NEW t \in Threads, Construct(t)
    PROVE  BoundOK(t)' /\ WorkOK(t)' /\ MadeOK(t)'
<1>0. Shapes /\ ThreadOK(t) /\ Active(t)
  BY DEF LockInv, Shapes, Construct
<1>1. Alone(t) /\ (Connects(t) \/ Works(t)) /\ Jobs' = Jobs
  BY <1>0, ConstructStep DEF Alone, Jobs
<1>2. WorkOK(t) /\ MadeOK(t)
  BY DEF ValueInv
<1>3. BoundOK(t)'
  BY <1>1, ConstructorStarts, NoneAssumption DEF BoundOK
<1>4. ASSUME NEW e, Ends(t, e),
             e = None => thr[t].phase \in {"binary", "add"}
      PROVE  WorkOK(t)' /\ MadeOK(t)'
  <2>1. WorkOK(t)'
    BY <1>4, IdleParts DEF Ends, WorkOK, Building
  <2> DEFINE o == [problem |-> Job(t).problem, error |-> e,
                   params |-> IF e = None THEN thr[t].params ELSE None,
                   program |-> IF e = None THEN thr[t].found ELSE None]
  <2>2. objects'[t] = Append(objects[t], o)
    BY <1>4 DEF Ends
  <2>3. /\ o.problem = Job(t).problem /\ o.error = e
        /\ e = None => o.params = thr[t].params /\ o.program = thr[t].found
    OBVIOUS
  <2> HIDE DEF o
  <2>4. o.error = None => /\ o.params[1] = makeKey[o.problem]
                          /\ o.program = <<o.problem, o.params>>
    BY <1>2, <1>4, <2>3 DEF WorkOK, Building, Key, Program
  <2>5. IsQueue(objects[t])
    BY <1>0 DEF ThreadOK
  <2>6. /\ IsQueue(objects'[t]) /\ Len(objects'[t]) = Len(objects[t]) + 1
        /\ objects'[t][Len(objects[t]) + 1] = o
        /\ \A i \in 1 .. Len(objects[t]) : objects'[t][i] = objects[t][i]
    BY <2>2, <2>5, QueueAppend
  <2>7. /\ DOMAIN objects[t] = 1 .. Len(objects[t]) /\ Len(objects[t]) \in Nat
        /\ DOMAIN objects'[t] = 1 .. Len(objects'[t])
    BY <2>5, <2>6 DEF IsQueue
  <2>8. MadeOK(t)'
    <3> SUFFICES ASSUME NEW i \in DOMAIN objects'[t], objects'[t][i].error = None
                 PROVE  /\ objects'[t][i].params[1] = makeKey[objects'[t][i].problem]
                        /\ objects'[t][i].program =
                               <<objects'[t][i].problem, objects'[t][i].params>>
      BY DEF MadeOK
    <3>1. CASE i \in 1 .. Len(objects[t])
      BY <1>2, <2>6, <2>7, <3>1 DEF MadeOK
    <3>2. CASE i = Len(objects[t]) + 1
      BY <2>4, <2>6, <3>2
    <3> QED
      BY <2>6, <2>7, <3>1, <3>2
  <2> QED
    BY <2>1, <2>8
<1>5. ASSUME NEW phase, NEW a, NEW l, NEW r, NEW f, Starts(t, phase, a, l, r, f)
      PROVE  /\ Key(t)' = Key(t) /\ MadeOK(t)' /\ Program(t)' = <<Job(t).problem, a>>
             /\ thr'[t].phase = phase /\ thr'[t].params = a /\ thr'[t].left = l
             /\ thr'[t].retained = r /\ thr'[t].found = f
             /\ thr'[t].at # "ok"
             /\ \A x : OwnTrials(t, x)' <=> OwnTrials(t, x)
  <2>1. /\ objects' = objects /\ thr'[t].phase = phase /\ thr'[t].params = a
        /\ thr'[t].left = l /\ thr'[t].retained = r /\ thr'[t].found = f
    BY <1>5 DEF Starts
  <2>2. Job(t)' = Job(t)
    BY <1>1, <2>1 DEF Job
  <2>3. Key(t)' = Key(t) /\ Program(t)' = <<Job(t).problem, a>>
    BY <2>1, <2>2 DEF Key, Program
  <2>4. MadeOK(t)'
    BY <1>2, <2>1 DEF MadeOK
  <2>5. thr'[t].at # "ok"
    BY <1>1, ConstructorStarts, NoneAssumption
  <2> QED
    BY <2>1, <2>3, <2>4, <2>5 DEF OwnTrials
<1>6. CASE Connects(t)
  <2>1. CASE Gives(t)
    BY <1>3, <1>4, <2>1, NoneAssumption DEF Gives
  <2>2. CASE FindsOpen(t) \/ IsOpen(t)
    <3>1. Starts(t, "find", None, <<>>, {}, None)
      BY <2>2 DEF FindsOpen, IsOpen
    <3>2. OwnTrials(t, <<>>)
      BY DEF OwnTrials, IsQueue
    <3> QED
      BY <1>3, <1>5, <3>1, <3>2 DEF WorkOK, Building
  <2>3. CASE Opens(t)
    BY <1>3, <1>5, <2>3 DEF Opens, WorkOK, Building
  <2>4. CASE Creates(t)
    BY <1>3, <1>5, <2>4 DEF Creates, WorkOK, Building
  <2> QED
    BY <1>6, <2>1, <2>2, <2>3, <2>4 DEF Connects
<1>7. CASE Works(t)
  <2>1. CASE Finds(t)
    <3>1. /\ thr[t].phase = "find" /\ thr[t].at = "ok"
          /\ Starts(t, "lookup", thr[t].found, thr[t].left, thr[t].retained, None)
      BY <2>1 DEF Finds
    <3> QED
      BY <1>2, <1>3, <1>5, <3>1 DEF WorkOK, Building
  <2>2. CASE Tries(t)
    <3>1. PICK left, retained :
              /\ \/ thr[t].phase = "find" /\ left = Trials(t) /\ retained = {}
                 \/ /\ thr[t].phase \in Building /\ thr[t].left # <<>>
                    /\ left = Tail(thr[t].left) /\ left # <<>>
                    /\ \/ retained = thr[t].retained
                       \/ retained = thr[t].retained \cup {thr[t].params}
              /\ Starts(t, "lookup", Head(left), left, retained, None)
      BY <2>2 DEF Tries
    <3>2. /\ OwnTrials(t, left) /\ left # <<>> /\ \A v \in retained : v[1] = Key(t)
      <4>1. CASE left = Trials(t) /\ retained = {}
        BY <1>0, <4>1, TrialsOwn
      <4>2. CASE /\ thr[t].phase \in Building /\ thr[t].left # <<>>
                 /\ left = Tail(thr[t].left) /\ left # <<>>
                 /\ \/ retained = thr[t].retained
                    \/ retained = thr[t].retained \cup {thr[t].params}
        <5>1. /\ OwnTrials(t, thr[t].left) /\ thr[t].params[1] = Key(t)
              /\ \A v \in thr[t].retained : v[1] = Key(t)
          BY <1>2, <4>2 DEF WorkOK
        <5>2. OwnTrials(t, left)
          BY <4>2, <5>1, QueueTail DEF OwnTrials
        <5> QED
          BY <4>2, <5>1, <5>2
      <4> QED
        BY <3>1, <4>1, <4>2
    <3>3. Head(left)[1] = Key(t)
      BY <3>2, QueueTail DEF OwnTrials
    <3> DEFINE h == Head(left)
    <3>4. Starts(t, "lookup", h, left, retained, None) /\ h[1] = Key(t)
      BY <3>1, <3>3
    <3> HIDE DEF h
    <3> QED
      BY <1>3, <1>5, <3>2, <3>4 DEF WorkOK, Building
  <2>3. CASE Saves(t)
    <3>1. PICK v \in thr[t].retained \cup {thr[t].params} :
              Starts(t, "save", v, <<>>, thr[t].retained, None)
      BY <2>3 DEF Saves
    <3>2. v[1] = Key(t) /\ \A w \in thr[t].retained : w[1] = Key(t)
      BY <1>2, <2>3 DEF Saves, WorkOK
    <3>3. OwnTrials(t, <<>>)
      BY DEF OwnTrials, IsQueue
    <3> QED
      BY <1>3, <1>5, <3>1, <3>2, <3>3 DEF WorkOK, Building
  <2>4. CASE LooksUp(t)
    <3>1. /\ thr[t].phase = "save"
          /\ Starts(t, "lookup", thr[t].params, thr[t].left, thr[t].retained, None)
      BY <2>4 DEF LooksUp
    <3> QED
      BY <1>2, <1>3, <1>5, <3>1 DEF WorkOK, Building
  <2>5. CASE Builds(t)
    <3>1. CASE /\ thr[t].phase = "lookup" /\ thr[t].at = "ok"
               /\ Starts(t, "binary", thr[t].params, thr[t].left, thr[t].retained,
                         thr[t].found)
      BY <1>2, <1>3, <1>5, <3>1 DEF WorkOK, Building, Program
    <3>2. CASE /\ thr[t].phase \in {"lookup", "binary"}
               /\ Starts(t, "source", thr[t].params, thr[t].left, thr[t].retained, None)
      BY <1>2, <1>3, <1>5, <3>2 DEF WorkOK, Building
    <3> QED
      BY <2>5, <3>1, <3>2 DEF Builds
  <2>6. CASE Adds(t)
    <3>1. /\ thr[t].phase = "source"
          /\ Starts(t, "add", thr[t].params, thr[t].left, thr[t].retained, Program(t))
      BY <2>6 DEF Adds
    <3> QED
      BY <1>2, <1>3, <1>5, <3>1 DEF WorkOK, Building, Program
  <2>7. CASE Throws(t)
    BY <1>3, <1>4, <2>7, NoneAssumption DEF Throws
  <2>8. CASE Succeeds(t)
    BY <1>3, <1>4, <2>8 DEF Succeeds, Succeeded
  <2> QED
    BY <1>7, <2>1, <2>2, <2>3, <2>4, <2>5, <2>6, <2>7, <2>8 DEF Works
<1> QED
  BY <1>1, <1>6, <1>7

LEMMA ValueStep ==
    ASSUME LockInv, FileInv, ValueInv, [Next]_vars
    PROVE  ValueInv'
<1> SUFFICES ASSUME SingleThreaded'
             PROVE  /\ ValidTables(rows') /\ \A p \in Processes : ValidTables(dirty'[p])
                    /\ \A u \in Threads : BoundOK(u)' /\ WorkOK(u)' /\ MadeOK(u)'
  BY DEF ValueInv, ValidTables, Right
<1>0. Shapes
  BY DEF LockInv
<1>1. program' = program
  BY DEF Next, SQLite, Construct, Stop, vars
<1>2. SingleThreaded
  BY <1>1 DEF SingleThreaded, Of, Jobs
<1>3. /\ ValidTables(rows) /\ \A p \in Processes : ValidTables(dirty[p])
      /\ \A u \in Threads : BoundOK(u) /\ WorkOK(u) /\ MadeOK(u)
  BY <1>2 DEF ValueInv
<1>4. ASSUME NEW u \in Threads, Untouched(u) PROVE BoundOK(u)' /\ WorkOK(u)' /\ MadeOK(u)'
  <2>1. /\ thr'[u] = thr[u] /\ objects'[u] = objects[u]
        /\ Mine(u)' = Mine(u) \/ (thr[u].phase = "start" /\ thr[u].at = None)
        /\ Key(u)' = Key(u) /\ Program(u)' = Program(u) /\ Call(u)' = Call(u)
    BY <1>0, <1>4, UntouchedCall DEF Untouched, Shapes, ThreadOK, AtOK
  <2>2. BoundOK(u)'
    BY <1>3, <2>1, NoneAssumption DEF BoundOK, Right
  <2>3. WorkOK(u)'
    BY <1>3, <2>1 DEF WorkOK, OwnTrials
  <2> QED
    BY <1>3, <2>1, <2>2, <2>3 DEF MadeOK
<1>5. ASSUME NEW t \in Threads, SQLite(t)
      PROVE  /\ ValidTables(rows') /\ \A p \in Processes : ValidTables(dirty'[p])
             /\ \A u \in Threads : BoundOK(u)' /\ WorkOK(u)' /\ MadeOK(u)'
  BY <1>2, <1>4, <1>5, SQLiteValues, OthersUntouched
<1>6. ASSUME NEW t \in Threads, Construct(t)
      PROVE  /\ ValidTables(rows') /\ \A p \in Processes : ValidTables(dirty'[p])
             /\ \A u \in Threads : BoundOK(u)' /\ WorkOK(u)' /\ MadeOK(u)'
  <2>1. rows' = rows /\ dirty' = dirty
    BY <1>0, <1>6, ConstructStep DEF Alone
  <2> QED
    BY <1>2, <1>3, <1>4, <1>6, <2>1, ConstructValues, OthersUntouched
<1>7. ASSUME NEW p \in Processes, Stop(p)
      PROVE  /\ ValidTables(rows') /\ \A q \in Processes : ValidTables(dirty'[q])
             /\ \A u \in Threads : BoundOK(u)' /\ WorkOK(u)' /\ MadeOK(u)'
  <2>1. rows' = rows /\ dirty' = [dirty EXCEPT ![p] = <<>>] /\ DOMAIN dirty = Processes
    BY <1>0, <1>7 DEF Stop, Shapes
  <2>2. ValidTables(<<>>)
    <3>1. DOMAIN <<>> = {}
      OBVIOUS
    <3> QED
      BY <3>1 DEF ValidTables
  <2>3. \A q \in Processes : dirty'[q] = dirty[q] \/ dirty'[q] = <<>>
    BY <2>1
  <2>4. ASSUME NEW u \in Threads PROVE BoundOK(u)' /\ WorkOK(u)' /\ MadeOK(u)'
    <3>1. CASE Untouched(u)
      BY <1>4, <3>1
    <3>2. CASE thr'[u] = Idle /\ objects'[u] = objects[u]
      BY <1>3, <3>2, IdleParts, NoneAssumption DEF BoundOK, WorkOK, MadeOK, Building
    <3> QED
      BY <1>7, <3>1, <3>2, StopUntouched
  <2> QED
    BY <1>3, <2>1, <2>2, <2>3, <2>4
<1>8. CASE UNCHANGED vars
  <2>1. \A u \in Threads : Untouched(u)
    BY <1>8 DEF Untouched, vars, file, data
  <2> QED
    BY <1>3, <1>4, <1>8, <2>1 DEF vars, file, data
<1> QED
  BY <1>5, <1>6, <1>7, <1>8 DEF Next

LEMMA ValueInvariant == Spec => []ValueInv
<1>1. Init => ValueInv
  <2> SUFFICES ASSUME Init PROVE ValueInv
    OBVIOUS
  <2>1. /\ rows = <<>> /\ \A p \in Processes : dirty[p] = <<>>
        /\ \A t \in Threads : thr[t] = Idle /\ objects[t] = <<>>
    BY DEF Init
  <2>2. DOMAIN <<>> = {}
    OBVIOUS
  <2> QED
    BY <2>1, <2>2, IdleParts, NoneAssumption
       DEF ValueInv, ValidTables, BoundOK, WorkOK, MadeOK, Building
<1> QED
  BY <1>1, ValueStep, FileInvariant, CacheLocks, PTL DEF Spec

(* Every row of the file holds what was computed for its key (RowsValid),  *)
(* whatever the processes do to each other's transactions and whenever     *)
(* they are killed, as long as no two threads of a process construct.      *)
THEOREM CacheRowsValid == Spec => []RowsValid
<1>1. ValueInv => RowsValid
  BY DEF ValueInv, RowsValid, ValidTables, Right
<1> QED
  BY <1>1, ValueInvariant, PTL

(* An object that was constructed has parameters tuned for its own key and *)
(* the program of its own problem and parameters (ObjectsMatch).           *)
THEOREM CacheObjectsMatch == Spec => []ObjectsMatch
<1>1. ValueInv => ObjectsMatch
  BY DEF ValueInv, ObjectsMatch, ForEach, MadeOK
<1> QED
  BY <1>1, ValueInvariant, PTL

-----------------------------------------------------------------------------
(* What stays in the file.                                                 *)
(* No step takes a row out of the file, whatever the threads do: a commit  *)
(* writes a state that contains what other processes have committed.       *)
THEOREM CacheRowsGrow == Spec => [][Grows]_vars
<1>1. LockInv /\ FileInv /\ [Next]_vars => [Grows]_vars
  <2> SUFFICES ASSUME LockInv, FileInv, Next PROVE Grows
    BY DEF vars
  <2>1. Shapes
    BY DEF LockInv
  <2>2. ASSUME NEW t \in Threads, SQLite(t) PROVE Grows
    BY <2>1, <2>2, SQLiteStep, RowsGrow
  <2>3. ASSUME rows' = rows PROVE Grows
    BY <2>3 DEF Grows, Contains
  <2> QED
    BY <2>2, <2>3 DEF Next, Construct, Stop, data
<1> QED
  BY <1>1, CacheLocks, FileInvariant, PTL DEF Spec

Stored(name, key) == name \in DOMAIN rows /\ key \in DOMAIN rows[name]
Pending(p, name, key) == name \in DOMAIN dirty[p] /\ key \in DOMAIN dirty[p][name]

\* What has been read or added is in the file, or about to be committed.
StoredOK(t) ==
    /\ thr[t].phase \in Building /\ thr[t].left = <<>> => Stored("params", Key(t))
    /\ thr[t].phase = "find" /\ thr[t].at \in {"column", "ok"} => Stored("params", Key(t))
    /\ thr[t].phase = "lookup" /\ thr[t].at \in {"column", "ok"} => Stored("kernel", Program(t))
    /\ thr[t].phase = "binary" => Stored("kernel", Program(t))
    /\ thr[t].phase \in {"save", "add"} /\ thr[t].at \in Holding =>
          Pending(Of[t], Call(t).table, Call(t).key)
    /\ thr[t].phase \in {"save", "add"} /\ thr[t].at = "ok" => Stored(Call(t).table, Call(t).key)

UsedOK(t) ==
    \A i \in DOMAIN objects[t] :
        objects[t][i].error = None =>
            /\ Stored("params", makeKey[objects[t][i].problem])
            /\ Stored("kernel", objects[t][i].program)

StoredInv ==
    SingleThreaded => \A t \in Threads : Of[t] \notin refused => StoredOK(t) /\ UsedOK(t)

LEMMA StaysStored ==
    ASSUME Grows, NEW name, NEW key, Stored(name, key)
    PROVE  Stored(name, key)'
  BY DEF Grows, Contains, Stored

LEMMA SQLiteStored ==
    ASSUME LockInv, FileInv, SingleThreaded, ValueInv, NEW t \in Threads, SQLite(t),
           Of[t] \notin refused', StoredOK(t)
    PROVE  StoredOK(t)'
<1>0. /\ Shapes /\ Of[t] \in Processes /\ Local(t) /\ SomeCall(t)
      /\ thr[t].phase \in Calling /\ AtOK(thr[t].phase, thr[t].at) /\ Grows
      /\ Inside(Of[t]) \subseteq {t} /\ Of[t] \notin refused
  <2>1. Shapes /\ Of[t] \in Processes
    BY ProgramParts DEF LockInv
  <2>2. Local(t) /\ SomeCall(t)
    BY <2>1, SQLiteStep
  <2> QED
    BY <2>1, <2>2, Caller, RowsGrow, CallWriter DEF Shapes, ThreadOK, SQLite
<1>1. /\ Call(t).op = "create" <=> thr[t].phase = "open"
      /\ Call(t).op = "query" <=> thr[t].phase \in {"find", "lookup"}
      /\ Call(t).op = "add" <=> thr[t].phase \in {"save", "add"}
      /\ Call(t).op # "create" => Stmt(t) \in Statements
      /\ Call(t).table \in Tables
  BY <1>0, CallShape
<1>2. /\ Key(t)' = Key(t) /\ Program(t)' = Program(t) /\ Call(t)' = Call(t)
      /\ Of[t]' = Of[t] /\ thr'[t].phase = thr[t].phase /\ thr'[t].left = thr[t].left
  BY <1>0, Caller, LocalCall DEF Local
<1>3. BoundOK(t)
  BY DEF ValueInv
<1>4. \A s \in ActiveStmts(Of[t]) : s[2] # "add"
  BY <1>0 DEF FileInv, OpenOK
<1>5. Writers(t) = {}
  <2>1. \A s \in Writers(t) : s \in ActiveStmts(Of[t]) /\ s[2] = "add"
    BY <1>0 DEF Writers, Running, ActiveStmts, Shapes, ProcessOK
  <2> QED
    BY <1>4, <2>1
<1>6. thr[t].at = "step" => View(Of[t]) = rows
  <2> SUFFICES ASSUME thr[t].at = "step" PROVE View(Of[t]) = rows
    OBVIOUS
  <2>1. Inside(Of[t]) = {}
    BY <1>0 DEF Inside
  <2>2. lock[Of[t]] \notin {"reserved", "exclusive"}
    BY <1>0, <1>4, <2>1 DEF LockInv, LockOK
  <2> QED
    BY <2>2 DEF View
<1>7. thr[t].phase # "open" => Call(t).table \in DOMAIN rows
  <2>1. thr[t].phase # "open" => db[Of[t]] = "open"
    BY <1>0 DEF LockInv, OpenerOK, Calling
  <2> QED
    BY <1>0, <1>1, <2>1 DEF FileInv, OpenOK
<1>8. thr[t].phase \in {"find", "lookup"} /\ thr'[t].at \in {"column", "ok"} =>
          Stored(Call(t).table, Call(t).key)
  <2> SUFFICES ASSUME thr[t].phase \in {"find", "lookup"}, thr'[t].at \in {"column", "ok"}
               PROVE  Stored(Call(t).table, Call(t).key)
    OBVIOUS
  <2>1. Hits(t) \/ (Reads(t) /\ thr[t].at = "column")
    BY <1>0, <1>1
       DEF SomeCall, Resets, BindsKey, BindsValue, Misuses, IsRefused, Hits, Misses,
           Reads, Exists, Writes, Excludes, RollsBack, Commits, Moves, Errs
  <2>2. CASE Hits(t)
    <3>1. thr[t].at = "step" /\ Mine(t).key \in DOMAIN View(Of[t])[Call(t).table]
      BY <2>2 DEF Hits, Moves
    <3>2. Mine(t).key = Call(t).key
      BY <1>3, <3>1 DEF BoundOK
    <3> QED
      BY <1>6, <1>7, <3>1, <3>2 DEF Stored
  <2>3. CASE thr[t].at = "column"
    BY <2>3, CallParts DEF StoredOK
  <2> QED
    BY <2>1, <2>2, <2>3
<1>9. thr[t].phase = "find" /\ thr'[t].at \in {"column", "ok"} => Stored("params", Key(t))'
  BY <1>0, <1>2, <1>8, CallParts, StaysStored
<1>10. thr[t].phase = "lookup" /\ thr'[t].at \in {"column", "ok"} =>
           Stored("kernel", Program(t))'
  BY <1>0, <1>2, <1>8, CallParts, StaysStored
<1>11. thr[t].phase \in {"save", "add"} /\ thr'[t].at \in Holding =>
           Pending(Of[t], Call(t).table, Call(t).key)'
  <2> SUFFICES ASSUME thr[t].phase \in {"save", "add"}, thr'[t].at \in Holding
               PROVE  /\ Call(t).table \in DOMAIN dirty'[Of[t]]
                      /\ Call(t).key \in DOMAIN dirty'[Of[t]][Call(t).table]
    BY <1>2 DEF Pending
  <2>1. Writes(t) \/ Excludes(t)
    BY <1>0 DEF SomeCall, Resets, BindsKey, BindsValue, Misuses, IsRefused, Hits, Misses,
                Reads, Exists, RollsBack, Commits, Moves, Errs, Holding
  <2>2. CASE Writes(t)
    <3>1. dirty'[Of[t]] = Write(t) /\ thr[t].at = "step" /\ Call(t).op # "create"
      BY <1>1, <2>2 DEF Writes
    <3>2. Mine(t).key = Call(t).key
      BY <1>3, <3>1 DEF BoundOK
    <3> DEFINE key == Mine(t).key
               value == Mine(t).value
               old == View(Of[t])[Call(t).table]
    <3>3. Call(t).table \in DOMAIN Write(t) /\ Write(t)[Call(t).table] = With(old, key, value)
      BY <3>1, WriteParts
    <3>4. key = Call(t).key
      BY <3>2
    <3> HIDE DEF key, value, old
    <3>5. DOMAIN With(old, key, value) = DOMAIN old \cup {key}
      BY WithDomain
    <3>6. key \in DOMAIN With(old, key, value)
      BY <3>5
    <3> QED
      BY <3>1, <3>3, <3>4, <3>6
  <2>3. CASE Excludes(t)
    BY <2>3 DEF Excludes, Moves, StoredOK, Pending, Holding
  <2> QED
    BY <2>1, <2>2, <2>3
<1>12. thr[t].phase \in {"save", "add"} /\ thr'[t].at = "ok" =>
           Stored(Call(t).table, Call(t).key)'
  <2> SUFFICES ASSUME thr[t].phase \in {"save", "add"}, thr'[t].at = "ok"
               PROVE  Stored(Call(t).table, Call(t).key)'
    OBVIOUS
  <2>1. Commits(t)
    BY <1>0, <1>1, <1>5
       DEF SomeCall, Resets, BindsKey, BindsValue, Misuses, IsRefused, Hits, Misses,
           Reads, Exists, Writes, Excludes, RollsBack, Moves, Errs
  <2>2. thr[t].at = "exclusive" /\ rows' = dirty[Of[t]]
    BY <2>1 DEF Commits, Moves
  <2>3. Pending(Of[t], Call(t).table, Call(t).key)
    BY <2>2 DEF StoredOK, Holding
  <2> QED
    BY <1>2, <2>2, <2>3 DEF Pending, Stored
<1>13. thr[t].phase \in Building /\ thr[t].left = <<>> => Stored("params", Key(t))'
  BY <1>0, <1>2, StaysStored DEF StoredOK
<1>14. thr[t].phase # "binary"
  BY <1>0 DEF Calling
<1> QED
  BY <1>2, <1>9, <1>10, <1>11, <1>12, <1>13, <1>14 DEF StoredOK

LEMMA ConstructStored ==
    ASSUME LockInv, SingleThreaded, ValueInv, NEW t \in Threads, Construct(t),
           StoredOK(t), UsedOK(t)
    PROVE  StoredOK(t)' /\ UsedOK(t)'
<1>0. Shapes /\ ThreadOK(t) /\ Active(t) /\ WorkOK(t)
  BY DEF LockInv, Shapes, Construct, ValueInv
<1>1. Alone(t) /\ (Connects(t) \/ Works(t)) /\ Jobs' = Jobs /\ rows' = rows
  BY <1>0, ConstructStep DEF Alone, Jobs
<1>2. \A name, key : Stored(name, key)' <=> Stored(name, key)
  BY <1>1 DEF Stored
<1>3. thr'[t].at \notin {"column", "ok", "reserved", "exclusive"}
  BY <1>1, ConstructorStarts, NoneAssumption
<1>4. ASSUME NEW e, Ends(t, e), e = None => Succeeds(t)
      PROVE  StoredOK(t)' /\ UsedOK(t)'
  <2>1. StoredOK(t)'
    BY <1>4, IdleParts DEF Ends, StoredOK, Building
  <2> DEFINE o == [problem |-> Job(t).problem, error |-> e,
                   params |-> IF e = None THEN thr[t].params ELSE None,
                   program |-> IF e = None THEN thr[t].found ELSE None]
  <2>2. objects'[t] = Append(objects[t], o)
    BY <1>4 DEF Ends
  <2>3. o.problem = Job(t).problem /\ o.error = e /\ (e = None => o.program = thr[t].found)
    OBVIOUS
  <2> HIDE DEF o
  <2>4. o.error = None => /\ Stored("params", makeKey[o.problem])
                          /\ Stored("kernel", o.program)
    <3> SUFFICES ASSUME e = None
                 PROVE  Stored("params", Key(t)) /\ Stored("kernel", thr[t].found)
      BY <2>3 DEF Key
    <3>1. Succeeded(t) /\ thr[t].left = <<>>
      BY <1>4 DEF Succeeds
    <3>2. thr[t].found = Program(t) /\ Stored("params", Key(t))
      BY <1>0, <3>1 DEF Succeeded, WorkOK, StoredOK, Building
    <3>3. CASE thr[t].phase = "binary"
      BY <3>2, <3>3 DEF StoredOK
    <3>4. CASE thr[t].phase = "add" /\ thr[t].at = "ok"
      BY <3>2, <3>4, CallParts DEF StoredOK
    <3> QED
      BY <3>1, <3>3, <3>4 DEF Succeeded
  <2>5. IsQueue(objects[t])
    BY <1>0 DEF ThreadOK
  <2>6. /\ IsQueue(objects'[t]) /\ Len(objects'[t]) = Len(objects[t]) + 1
        /\ objects'[t][Len(objects[t]) + 1] = o
        /\ \A i \in 1 .. Len(objects[t]) : objects'[t][i] = objects[t][i]
    BY <2>2, <2>5, QueueAppend
  <2>7. /\ DOMAIN objects[t] = 1 .. Len(objects[t]) /\ Len(objects[t]) \in Nat
        /\ DOMAIN objects'[t] = 1 .. Len(objects'[t])
    BY <2>5, <2>6 DEF IsQueue
  <2>8. UsedOK(t)'
    <3> SUFFICES ASSUME NEW i \in DOMAIN objects'[t], objects'[t][i].error = None
                 PROVE  /\ Stored("params", makeKey[objects'[t][i].problem])
                        /\ Stored("kernel", objects'[t][i].program)
      BY <1>2 DEF UsedOK
    <3>1. CASE i \in 1 .. Len(objects[t])
      BY <2>6, <2>7, <3>1 DEF UsedOK
    <3>2. CASE i = Len(objects[t]) + 1
      BY <2>4, <2>6, <3>2
    <3> QED
      BY <2>6, <2>7, <3>1, <3>2
  <2> QED
    BY <2>1, <2>8
<1>5. ASSUME NEW phase, NEW a, NEW l, NEW r, NEW f, Starts(t, phase, a, l, r, f),
             phase \in Building /\ l = <<>> => Stored("params", Key(t)),
             phase = "binary" => a = thr[t].params /\ Stored("kernel", Program(t))
      PROVE  StoredOK(t)' /\ UsedOK(t)'
  <2>1. /\ objects' = objects /\ thr'[t].phase = phase /\ thr'[t].params = a
        /\ thr'[t].left = l
    BY <1>5 DEF Starts
  <2>2. Job(t)' = Job(t)
    BY <1>1, <2>1 DEF Job
  <2>3. Key(t)' = Key(t) /\ (phase = "binary" => Program(t)' = Program(t))
    BY <1>5, <2>1, <2>2 DEF Key, Program
  <2>4. UsedOK(t)'
    BY <1>2, <2>1 DEF UsedOK
  <2> QED
    BY <1>2, <1>3, <1>5, <2>1, <2>3, <2>4 DEF StoredOK, Holding
<1>6. CASE Connects(t)
  <2>1. CASE Gives(t)
    BY <1>4, <2>1, NoneAssumption DEF Gives
  <2>2. CASE FindsOpen(t) \/ IsOpen(t)
    BY <1>5, <2>2 DEF FindsOpen, IsOpen, Building
  <2>3. CASE Opens(t)
    BY <1>5, <2>3 DEF Opens, Building
  <2>4. CASE Creates(t)
    BY <1>5, <2>4 DEF Creates, Building
  <2> QED
    BY <1>6, <2>1, <2>2, <2>3, <2>4 DEF Connects
<1>7. CASE Works(t)
  <2>1. CASE Finds(t)
    <3>1. /\ Starts(t, "lookup", thr[t].found, thr[t].left, thr[t].retained, None)
          /\ Stored("params", Key(t))
      BY <2>1 DEF Finds, StoredOK
    <3> QED
      BY <1>5, <3>1
  <2>2. CASE Tries(t)
    <3>1. PICK left, retained :
              /\ left = Trials(t) \/ left # <<>>
              /\ Starts(t, "lookup", Head(left), left, retained, None)
      BY <2>2 DEF Tries
    <3>2. left # <<>>
      BY <1>0, <3>1, TrialsOwn
    <3> QED
      BY <1>5, <3>1, <3>2
  <2>3. CASE Saves(t)
    <3>1. PICK v : Starts(t, "save", v, <<>>, thr[t].retained, None)
      BY <2>3 DEF Saves
    <3> QED
      BY <1>5, <3>1 DEF Building
  <2>4. CASE LooksUp(t)
    <3>1. /\ Starts(t, "lookup", thr[t].params, thr[t].left, thr[t].retained, None)
          /\ Stored("params", Key(t))
      BY <2>4, CallParts DEF LooksUp, StoredOK
    <3> QED
      BY <1>5, <3>1
  <2>5. CASE Builds(t)
    <3>1. thr[t].left = <<>> => Stored("params", Key(t))
      BY <2>5 DEF Builds, StoredOK, Building
    <3>2. CASE /\ thr[t].phase = "lookup" /\ thr[t].at = "ok"
               /\ Starts(t, "binary", thr[t].params, thr[t].left, thr[t].retained,
                         thr[t].found)
      <4>1. Stored("kernel", Program(t))
        BY <3>2 DEF StoredOK
      <4> QED
        BY <1>5, <3>1, <3>2, <4>1
    <3>3. CASE Starts(t, "source", thr[t].params, thr[t].left, thr[t].retained, None)
      BY <1>5, <3>1, <3>3
    <3> QED
      BY <2>5, <3>2, <3>3 DEF Builds
  <2>6. CASE Adds(t)
    <3>1. /\ Starts(t, "add", thr[t].params, thr[t].left, thr[t].retained, Program(t))
          /\ thr[t].left = <<>> => Stored("params", Key(t))
      BY <2>6 DEF Adds, StoredOK, Building
    <3> QED
      BY <1>5, <3>1
  <2>7. CASE Throws(t)
    BY <1>4, <2>7, NoneAssumption DEF Throws
  <2>8. CASE Succeeds(t)
    BY <1>4, <2>8 DEF Succeeds
  <2> QED
    BY <1>7, <2>1, <2>2, <2>3, <2>4, <2>5, <2>6, <2>7, <2>8 DEF Works
<1> QED
  BY <1>1, <1>6, <1>7

LEMMA StoredStep ==
    ASSUME LockInv, FileInv, ValueInv, StoredInv, [Next]_vars
    PROVE  StoredInv'
<1> SUFFICES ASSUME SingleThreaded', NEW u \in Threads, Of[u]' \notin refused'
             PROVE  StoredOK(u)' /\ UsedOK(u)'
  BY DEF StoredInv
<1>0. Shapes
  BY DEF LockInv
<1>1. program' = program
  BY DEF Next, SQLite, Construct, Stop, vars
<1>2. SingleThreaded /\ Of' = Of
  BY <1>1 DEF SingleThreaded, Of, Jobs
<1>3. Grows /\ refused \subseteq refused'
  <2>1. ASSUME rows' = rows, refused' = refused PROVE Grows /\ refused \subseteq refused'
    BY <2>1 DEF Grows, Contains
  <2>2. ASSUME NEW t \in Threads, SQLite(t) PROVE Grows /\ refused \subseteq refused'
    BY <1>0, <2>2, SQLiteStep, RowsGrow, CallWriter
  <2> QED
    BY <2>1, <2>2 DEF Next, Construct, Stop, vars, file, data
<1>4. Of[u] \notin refused /\ StoredOK(u) /\ UsedOK(u)
  BY <1>2, <1>3 DEF StoredInv
<1>5. objects'[u] = objects[u] => UsedOK(u)'
  BY <1>3, <1>4, StaysStored DEF UsedOK
<1>6. Untouched(u) => StoredOK(u)'
  <2> SUFFICES ASSUME Untouched(u) PROVE StoredOK(u)'
    OBVIOUS
  <2>1. /\ thr'[u] = thr[u] /\ Of[u]' = Of[u]
        /\ dirty'[Of[u]] = dirty[Of[u]] \/ thr[u].phase = "start"
        /\ Key(u)' = Key(u) /\ Program(u)' = Program(u) /\ Call(u)' = Call(u)
    BY <1>0, UntouchedCall DEF Untouched
  <2>2. \A name, key : Stored(name, key) => Stored(name, key)'
    BY <1>3, StaysStored
  <2> QED
    BY <1>4, <2>1, <2>2 DEF StoredOK, Pending, Building
<1>7. ASSUME SQLite(u) PROVE StoredOK(u)' /\ UsedOK(u)'
  BY <1>2, <1>4, <1>5, <1>7, SQLiteStored DEF SQLite
<1>8. ASSUME Construct(u) PROVE StoredOK(u)' /\ UsedOK(u)'
  BY <1>2, <1>4, <1>8, ConstructStored
<1>9. ASSUME NEW p \in Processes, Stop(p) PROVE StoredOK(u)' /\ UsedOK(u)'
  <2>1. objects'[u] = objects[u] /\ (Untouched(u) \/ thr'[u] = Idle)
    BY <1>9, StopUntouched DEF Untouched
  <2>2. thr'[u] = Idle => StoredOK(u)'
    BY IdleParts DEF StoredOK, Building
  <2> QED
    BY <1>5, <1>6, <2>1, <2>2
<1>10. ASSUME UNCHANGED vars PROVE StoredOK(u)' /\ UsedOK(u)'
  BY <1>5, <1>6, <1>10 DEF Untouched, vars, file, data
<1>11. ASSUME NEW t \in Threads, t # u, SQLite(t) \/ Construct(t)
       PROVE  StoredOK(u)' /\ UsedOK(u)'
  BY <1>2, <1>5, <1>6, <1>11, OthersUntouched DEF Untouched
<1> QED
  BY <1>7, <1>8, <1>9, <1>10, <1>11 DEF Next

LEMMA StoredInvariant == Spec => []StoredInv
<1>1. Init => StoredInv
  <2> SUFFICES ASSUME Init, NEW t \in Threads PROVE StoredOK(t) /\ UsedOK(t)
    BY DEF StoredInv
  <2>1. thr[t] = Idle /\ objects[t] = <<>>
    BY DEF Init
  <2>2. DOMAIN <<>> = {}
    OBVIOUS
  <2> QED
    BY <2>1, <2>2, IdleParts DEF StoredOK, UsedOK, Building
<1> QED
  BY <1>1, StoredStep, ValueInvariant, FileInvariant, CacheLocks, PTL DEF Spec

(* What a constructor that succeeded has used is in the file from then on  *)
(* (Cached), unless its process has had an add refused the lock.           *)
THEOREM CacheCached == Spec => []Cached
<1>1. StoredInv => Cached
  BY DEF StoredInv, UsedOK, Cached, Stored
<1> QED
  BY <1>1, StoredInvariant, PTL

\* When add returns, the record is in the file (AddInserts), for the threads
\* of which Cached speaks.
AddKept ==
    SingleThreaded => \A t \in Threads :
        Of[t] \notin refused /\ thr[t].phase \in {"save", "add"} /\ thr[t].at = "ok" =>
            Call(t).key \in DOMAIN rows[Call(t).table]

(* AddInserts, which the run cache_lost refutes, fails only in a process   *)
(* that constructs from several threads or has had an add refused the lock *)
(* and not reset.                                                          *)
THEOREM CacheAddKept == Spec => []AddKept
<1>1. StoredInv => AddKept
  BY DEF StoredInv, StoredOK, AddKept, Stored
<1> QED
  BY <1>1, StoredInvariant, PTL

=============================================================================
