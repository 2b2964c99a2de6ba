-------------------------------- MODULE Cache --------------------------------
(***************************************************************************)
(* Construction of Scan, Reduce and Radixsort objects through the cache    *)
(* (src/cache.cpp): look the tuning parameters up or tune and add them,    *)
(* then build the program, whose binary is cached too (src/utils.cpp).     *)
(*                                                                         *)
(* Threads of a process share one connection and, for each table, the      *)
(* prepared statements addStmt and queryStmt; processes share the file.    *)
(* SQLite is modelled as it is used: a call holds the mutex of its         *)
(* connection, there is no busy timeout, and a transaction ends when no    *)
(* other statement of the connection is active.  Active is a statement at  *)
(* a row, and also one whose first lock was refused, until it is reset.    *)
(* Keys and values are bound and read in one step each.                    *)
(***************************************************************************)
EXTENDS Integers, Sequences, FiniteSets

CONSTANTS
    Processes, Threads,
    Programs,       \* what the threads do, see program
    makeKey,        \* the key of each problem: signed and unsigned share one
    Candidates,     \* for each key the candidates of tuning, a sequence
    Compilable,     \* the pairs <<problem, candidate>> that compile
    None            \* no value

ASSUME ProgramsAssumption ==
    \A x \in Programs :
        /\ x.of \in [Threads -> Processes]
        /\ x.jobs \in [Threads -> Seq([problem : DOMAIN makeKey, tunable : BOOLEAN])]
        /\ x.stops \in Nat
\* There are candidates to tune with: only Radixsort has none on a device, and
\* only if the largest work-group of the device is smaller than the radix.
ASSUME CandidatesAssumption ==
    \A problem \in DOMAIN makeKey :
        LET c == Candidates[makeKey[problem]]
        IN  c # <<>> /\ c \in Seq({c[i] : i \in DOMAIN c})
ASSUME NoneAssumption ==
    None \notin {"reset", "bindKey", "bindValue", "step", "column", "reserved", "exclusive",
                 "ok", "miss", "error", "misuse", "busy",
                 "CacheError", "TuneError", "InternalError"}

VARIABLES
    program,        \* the member of Programs, fixed:
                    \*   of: the process of each thread,
                    \*   jobs: for each thread the objects it constructs, a
                    \*         sequence of [problem, tunable],
                    \*   stops: bound on the number of ends of processes
    rows,           \* the file: for each table that exists its rows by key
    db,             \* the static variable of getDB, by process
    lock,           \* the lock on the file of each connection
    dirty,          \* what a connection with a write lock has not committed
    stmt,           \* the statements of each process
    refused,        \* history: the processes with an add refused its lock
    thr,            \* the constructor that each thread executes
    objects,        \* what the constructors of each thread have come to
    stops

data == <<rows, lock, dirty>>
file == <<data, db, stmt, refused>>
vars == <<program, file, thr, objects, stops>>

\* The tables of parameters of the three algorithms differ in name only: one
\* stands for them.
Tables == {"params", "kernel"}
Null == <<"NULL", "NULL">>  \* what a column of a statement without a row reads as

Of == program.of
Jobs == program.jobs
Job(t) == Jobs[t][Len(objects[t]) + 1]
Active(t) == Len(objects[t]) < Len(Jobs[t])
Key(t) == makeKey[Job(t).problem]
\* A tuned value: a candidate and the key that it was tuned for.
Trials(t) == [i \in DOMAIN Candidates[Key(t)] |-> <<Key(t), Candidates[Key(t)][i]>>]

Idle == [phase |-> "start", at |-> None, params |-> None, left |-> <<>>,
         retained |-> {}, found |-> None, cause |-> None]
NewStmt == [at |-> "reset", key |-> None, value |-> None]
NewStmts == [s \in Tables \X {"add", "query"} |-> NewStmt]

Init ==
    /\ program \in Programs
    /\ rows = <<>>
    /\ db = [p \in Processes |-> "closed"]
    /\ lock = [p \in Processes |-> "none"]
    /\ dirty = [p \in Processes |-> <<>>]
    /\ stmt = [p \in Processes |-> NewStmts]
    /\ refused = {}
    /\ thr = [t \in Threads |-> Idle]
    /\ objects = [t \in Threads |-> <<>>]
    /\ stops = 0

-----------------------------------------------------------------------------
(* The calls of the SQLite API, on behalf of Table::add, lookup and        *)
(* createTable.                                                            *)
Program(t) == <<Job(t).problem, thr[t].params>>
Call(t) ==
    CASE thr[t].phase = "open"   -> [table |-> Head(thr[t].left), op |-> "create"]
      [] thr[t].phase = "find"   -> [table |-> "params", op |-> "query", key |-> Key(t)]
      [] thr[t].phase = "save"   -> [table |-> "params", op |-> "add", key |-> Key(t),
                                     value |-> thr[t].params]
      [] thr[t].phase = "lookup" -> [table |-> "kernel", op |-> "query", key |-> Program(t)]
      [] thr[t].phase = "add"    -> [table |-> "kernel", op |-> "add", key |-> Program(t),
                                     value |-> thr[t].found]
Stmt(t) == <<Call(t).table, Call(t).op>>
Mine(t) == stmt[Of[t]][Stmt(t)]

Others(t) == Processes \ {Of[t]}
\* What the statements of a process read.
View(p) == IF lock[p] \in {"reserved", "exclusive"} THEN dirty[p] ELSE rows
\* The statements of t's process, other than its own, that are active; writers.
Running(t) == {s \in DOMAIN stmt[Of[t]] \ {Stmt(t)} : stmt[Of[t]][s].at \in {"row", "pending"}}
Writers(t) == {s \in Running(t) : s[2] = "add"}

SetStmt(t, s) == stmt' = [stmt EXCEPT ![Of[t]][Stmt(t)] = s]
Goto(t, at) == thr' = [thr EXCEPT ![t].at = at]
Fails(t, cause) == thr' = [thr EXCEPT ![t].at = "error", ![t].cause = cause]

\* The transaction ends, committed or rolled back.
EndTransaction(t) ==
    /\ lock' = [lock EXCEPT ![Of[t]] =
                    IF @ = "none" \/ Running(t) = {} THEN "none" ELSE "shared"]
    /\ dirty' = [dirty EXCEPT ![Of[t]] = <<>>]

\* t's statement is halted, other than by the commit of an add: unless another
\* add is active, what is not committed is rolled back.
Halt(t) == IF Writers(t) = {} THEN EndTransaction(t) ELSE UNCHANGED <<lock, dirty>>

sqlite3_reset(t) ==
    /\ thr[t].at = "reset"
    /\ SetStmt(t, [Mine(t) EXCEPT !.at = "reset"])
    /\ IF Mine(t).at \in {"row", "pending"} THEN Halt(t) ELSE UNCHANGED <<lock, dirty>>
    /\ Goto(t, "bindKey")
    /\ UNCHANGED <<rows, refused>>

\* Mutant: the key is not bound, so that an earlier one is used.
bindKey_Unbound(t) == thr[t].at = "bindKey" /\ Mine(t).at = "reset"
    /\ SetStmt(t, [Mine(t) EXCEPT !.key = IF @ = None THEN Call(t).key ELSE @])
    /\ Goto(t, IF Call(t).op = "add" THEN "bindValue" ELSE "step")
    /\ UNCHANGED <<data, refused>>

bindKey(t) ==
    /\ thr[t].at = "bindKey"
    /\ Mine(t).at = "reset"
    /\ SetStmt(t, [Mine(t) EXCEPT !.key = Call(t).key])
    /\ Goto(t, IF Call(t).op = "add" THEN "bindValue" ELSE "step")
    /\ UNCHANGED <<data, refused>>

bindValue(t) ==
    /\ thr[t].at = "bindValue"
    /\ Mine(t).at = "reset"
    /\ SetStmt(t, [Mine(t) EXCEPT !.value = Call(t).value])
    /\ Goto(t, "step")
    /\ UNCHANGED <<data, refused>>

bindMisused(t) ==
    /\ thr[t].at \in {"bindKey", "bindValue"}
    /\ Mine(t).at # "reset"
    /\ Fails(t, "misuse")
    /\ UNCHANGED <<data, stmt, refused>>

\* The lock that a statement needs first is refused: it stays active.
Refused(t, conflicting) ==
    /\ \E p \in Others(t) : lock[p] \in conflicting
    /\ Fails(t, "busy")
    /\ IF Call(t).op = "create" THEN UNCHANGED stmt
       ELSE SetStmt(t, [Mine(t) EXCEPT !.at = "pending"])
    /\ refused' = IF Call(t).op = "add" THEN refused \cup {Of[t]} ELSE refused
    /\ UNCHANGED data

Granted(t, conflicting) ==
    /\ \A p \in Others(t) : lock[p] \notin conflicting
    /\ UNCHANGED <<rows, refused>>

\* A statement that is done starts again; one at a row looks for another.
stepQuery(t) ==
    /\ thr[t].at = "step" /\ Call(t).op = "query"
    /\ LET table == View(Of[t])[Call(t).table]
           hit == Mine(t).at # "row" /\ Mine(t).key \in DOMAIN table
       IN  \/ Refused(t, {"exclusive"})
           \/ /\ Granted(t, {"exclusive"}) /\ hit
              /\ SetStmt(t, [Mine(t) EXCEPT !.at = "row", !.value = table[Mine(t).key]])
              /\ lock' = [lock EXCEPT ![Of[t]] = IF @ = "none" THEN "shared" ELSE @]
              /\ Goto(t, "column")
              /\ UNCHANGED dirty
           \/ /\ Granted(t, {"exclusive"}) /\ ~hit
              /\ SetStmt(t, [Mine(t) EXCEPT !.at = "done"])
              /\ IF lock[Of[t]] = "none" /\ Running(t) # {}
                 THEN lock' = [lock EXCEPT ![Of[t]] = "shared"] /\ UNCHANGED dirty
                 ELSE Halt(t)
              /\ Goto(t, "miss")

readFields(t) ==
    /\ thr[t].at = "column"
    /\ thr' = [thr EXCEPT ![t].at = "ok",
                          ![t].found = IF Mine(t).at = "row" THEN Mine(t).value ELSE Null]
    /\ UNCHANGED <<data, stmt, refused>>

Done(t) == IF Call(t).op = "add" THEN SetStmt(t, [Mine(t) EXCEPT !.at = "done"])
           ELSE UNCHANGED stmt

\* INSERT OR REPLACE, or a new table.
With(f, k, v) == [x \in DOMAIN f \cup {k} |-> IF x = k THEN v ELSE f[x]]
Write(t) ==
    LET old == View(Of[t])
    IN  With(old, Call(t).table,
             IF Call(t).op = "create" THEN <<>>
             ELSE With(old[Call(t).table], Mine(t).key, Mine(t).value))

\* CREATE TABLE IF NOT EXISTS of a table that exists only reads the file.  An
\* add does not commit while another one is active.
stepWrite(t) ==
    LET exists == Call(t).op = "create" /\ Call(t).table \in DOMAIN rows
        conflicting == IF exists THEN {"exclusive"} ELSE {"reserved", "exclusive"}
    IN  /\ thr[t].at = "step" /\ Call(t).op # "query"
        /\ \/ Refused(t, conflicting)
           \/ /\ Granted(t, conflicting) /\ exists
              /\ Goto(t, "ok")
              /\ UNCHANGED <<lock, dirty, stmt>>
           \/ /\ Granted(t, conflicting) /\ ~exists
              /\ lock' = [lock EXCEPT ![Of[t]] = "reserved"]
              /\ dirty' = [dirty EXCEPT ![Of[t]] = Write(t)]
              /\ IF Writers(t) # {}
                 THEN Goto(t, "ok") /\ Done(t)
                 ELSE Goto(t, "reserved") /\ UNCHANGED stmt

Shared(t) == \E p \in Others(t) : lock[p] = "shared"
lockExclusive(t) ==
    /\ ~Shared(t)
    /\ lock' = [lock EXCEPT ![Of[t]] = "exclusive"]
    /\ Goto(t, "exclusive")
    /\ UNCHANGED <<dirty, stmt>>

\* Mutant: the status of sqlite3_step is not looked at.
lockFile_Unchecked(t) == thr[t].at = "reserved" /\ UNCHANGED <<rows, refused>>
    /\ \/ lockExclusive(t)
       \/ Shared(t) /\ EndTransaction(t) /\ Goto(t, "ok") /\ Done(t)

\* Mutant: a write that fails is not rolled back.
lockFile_Kept(t) == thr[t].at = "reserved" /\ UNCHANGED <<rows, refused>>
    /\ \/ lockExclusive(t)
       \/ Shared(t) /\ Fails(t, "busy") /\ Done(t) /\ UNCHANGED <<lock, dirty>>

\* A commit that is refused is rolled back.
lockFile(t) ==
    /\ thr[t].at = "reserved"
    /\ \/ lockExclusive(t)
       \/ Shared(t) /\ EndTransaction(t) /\ Fails(t, "busy") /\ Done(t)
    /\ UNCHANGED <<rows, refused>>

commit(t) ==
    /\ thr[t].at = "exclusive"
    /\ rows' = dirty[Of[t]]
    /\ EndTransaction(t)
    /\ Goto(t, "ok")
    /\ Done(t)
    /\ UNCHANGED refused

\* The threads of a process that hold the mutex of its connection.
Inside(p) == {t \in Threads : Of[t] = p /\ thr[t].at \in {"reserved", "exclusive"}}

SQLite(t) ==
    /\ Active(t)
    /\ Inside(Of[t]) \subseteq {t}
    /\ \/ sqlite3_reset(t) \/ bindKey(t) \/ bindValue(t) \/ bindMisused(t)
       \/ stepQuery(t) \/ readFields(t) \/ stepWrite(t) \/ lockFile(t) \/ commit(t)
    /\ UNCHANGED <<program, db, objects, stops>>

-----------------------------------------------------------------------------
(* The constructors.                                                       *)
Enter(t, phase, r) ==
    thr' = [thr EXCEPT ![t] =
        [r EXCEPT !.phase = phase, !.cause = None,
                  !.found = IF phase \in {"binary", "add"} THEN @ ELSE None,
                  !.at = CASE phase = "open" -> "step"
                           [] phase \in {"find", "save", "lookup", "add"} -> "reset"
                           [] OTHER -> None]]

Outcome(t, error) ==
    /\ objects' = [objects EXCEPT ![t] = Append(@,
           [problem |-> Job(t).problem, error |-> error,
            params |-> IF error = None THEN thr[t].params ELSE None,
            program |-> IF error = None THEN thr[t].found ELSE None])]
    /\ thr' = [thr EXCEPT ![t] = Idle]

\* Waits while another thread initializes the static variable.
getDB(t) ==
    /\ thr[t].phase = "start"
    /\ \/ db[Of[t]] = "open" /\ Enter(t, "find", Idle) /\ UNCHANGED db
       \/ /\ db[Of[t]] = "closed"
          /\ db' = [db EXCEPT ![Of[t]] = "opening"]
          /\ Enter(t, "open", [Idle EXCEPT !.left = <<"params", "kernel">>])
    /\ UNCHANGED <<stmt, objects>>

\* Mutant: an exception of the constructor leaves the initialization pending.
openFailed_Pending(t) == thr[t].phase = "open" /\ thr[t].at = "error"
    /\ Outcome(t, "CacheError") /\ UNCHANGED <<db, stmt>>

openFailed(t) ==
    /\ thr[t].phase = "open" /\ thr[t].at = "error"
    /\ db' = [db EXCEPT ![Of[t]] = "closed"]
    /\ stmt' = [stmt EXCEPT ![Of[t]] = NewStmts]
    /\ Outcome(t, "CacheError")

opened(t) ==
    /\ thr[t].phase = "open" /\ thr[t].at = "ok"
    /\ LET rest == Tail(thr[t].left)
       IN  IF rest # <<>>
           THEN Enter(t, "open", [thr[t] EXCEPT !.left = rest]) /\ UNCHANGED db
           ELSE Enter(t, "find", Idle) /\ db' = [db EXCEPT ![Of[t]] = "open"]
    /\ UNCHANGED <<stmt, objects>>

Try(t, left, retained) ==
    Enter(t, "lookup", [thr[t] EXCEPT !.params = Head(left), !.left = left,
                                      !.retained = retained])

found(t) ==
    /\ thr[t].phase = "find"
    /\ \/ /\ thr[t].at = "ok"
          /\ Enter(t, "lookup", [thr[t] EXCEPT !.params = thr[t].found])
          /\ UNCHANGED objects
       \/ thr[t].at = "miss" /\ Job(t).tunable /\ Try(t, Trials(t), {}) /\ UNCHANGED objects
       \/ thr[t].at = "miss" /\ ~Job(t).tunable /\ Outcome(t, "CacheError")
       \/ thr[t].at = "error" /\ Outcome(t, "CacheError")
    /\ UNCHANGED <<db, stmt>>

\* tuneOne goes on to the next candidate; it catches every InternalError.  The
\* passes and stages of tuning are taken together.
nextCandidate(t, retained) ==
    LET rest == Tail(thr[t].left)
    IN  \/ rest # <<>> /\ Try(t, rest, retained) /\ UNCHANGED objects
        \/ rest = <<>> /\ retained = {} /\ Outcome(t, "TuneError")
        \/ /\ rest = <<>>
           /\ \E v \in retained :
                 Enter(t, "save", [thr[t] EXCEPT !.params = v, !.left = <<>>])
           /\ UNCHANGED objects

\* The construction fails: of the object, or of one to be timed.
Fail(t, error) ==
    IF thr[t].left # <<>> THEN nextCandidate(t, thr[t].retained)
    ELSE Outcome(t, error)

Success(t) ==
    IF thr[t].left # <<>> THEN nextCandidate(t, thr[t].retained \cup {thr[t].params})
    ELSE Outcome(t, None)

\* Mutant: what lookup returns is not looked at.
lookedUp_AnyRow(t) == thr[t].phase = "lookup" /\ UNCHANGED <<db, stmt>>
    /\ \/ thr[t].at \in {"ok", "miss"} /\ Enter(t, "binary", thr[t]) /\ UNCHANGED objects
       \/ thr[t].at \in {"reset", "error"} /\ Fail(t, "InternalError")

\* The buffers of the object, or the context of a candidate, cannot be created,
\* or the lookup has ended.
lookedUp(t) ==
    /\ thr[t].phase = "lookup"
    /\ \/ thr[t].at = "reset" /\ Fail(t, "InternalError")
       \/ thr[t].at = "ok" /\ Enter(t, "binary", thr[t]) /\ UNCHANGED objects
       \/ thr[t].at = "miss" /\ Enter(t, "source", thr[t]) /\ UNCHANGED objects
       \/ thr[t].at = "error" /\ Fail(t, "CacheError")
    /\ UNCHANGED <<db, stmt>>

\* The binary builds, is not accepted, or another OpenCL error occurs, then or
\* when the kernels are created or timed.
buildBinary(t) ==
    /\ thr[t].phase = "binary"
    /\ \/ thr[t].found # Null /\ Success(t)
       \/ Enter(t, "source", thr[t]) /\ UNCHANGED objects
       \/ Fail(t, "InternalError")
    /\ UNCHANGED <<db, stmt>>

\* What does not compile fails; what does may fail too, for want of resources
\* or when its binary is asked for.
buildSource(t) ==
    /\ thr[t].phase = "source"
    /\ \/ /\ thr[t].params # Null /\ <<Job(t).problem, thr[t].params[2]>> \in Compilable
          /\ Enter(t, "add", [thr[t] EXCEPT !.found = Program(t)])
          /\ UNCHANGED objects
       \/ Fail(t, "InternalError")
    /\ UNCHANGED <<db, stmt>>

\* The program is used once its binary is stored, which may fail: the kernels
\* are created, and those of a candidate are timed.
added(t) ==
    /\ thr[t].phase = "add"
    /\ \/ thr[t].at = "ok" /\ Success(t)
       \/ thr[t].at = "ok" /\ Fail(t, "InternalError")
       \/ thr[t].at = "error" /\ Fail(t, "CacheError")
    /\ UNCHANGED <<db, stmt>>

saved(t) ==
    /\ thr[t].phase = "save"
    /\ \/ thr[t].at = "ok" /\ Enter(t, "lookup", thr[t]) /\ UNCHANGED objects
       \/ thr[t].at = "error" /\ Outcome(t, "CacheError")
    /\ UNCHANGED <<db, stmt>>

Construct(t) ==
    /\ Active(t)
    /\ \/ getDB(t) \/ openFailed(t) \/ opened(t) \/ found(t) \/ lookedUp(t)
       \/ buildBinary(t) \/ buildSource(t) \/ added(t) \/ saved(t)
    /\ UNCHANGED <<program, data, refused, stops>>

\* The process ends, or is killed, and is started again: the constructors it
\* executes are lost, the journal rolls back what it was writing.
Stop(p) ==
    LET lost == {t \in Threads : Of[t] = p /\ Active(t) /\ thr[t].phase # "start"}
    IN  /\ stops < program.stops
        /\ stops' = stops + 1
        /\ db' = [db EXCEPT ![p] = "closed"]
        /\ lock' = [lock EXCEPT ![p] = "none"]
        /\ dirty' = [dirty EXCEPT ![p] = <<>>]
        /\ stmt' = [stmt EXCEPT ![p] = NewStmts]
        /\ thr' = [t \in Threads |-> IF t \in lost THEN Idle ELSE thr[t]]
        /\ UNCHANGED <<program, rows, refused, objects>>

Next ==
    \/ \E t \in Threads : SQLite(t) \/ Construct(t)
    \/ \E p \in Processes : Stop(p)

\* A thread keeps running.
Spec == Init /\ [][Next]_vars /\ \A t \in Threads : WF_vars(SQLite(t) \/ Construct(t))

-----------------------------------------------------------------------------
\* Only one thread of each process constructs objects.
SingleThreaded ==
    \A t, u \in Threads : t # u /\ Of[t] = Of[u] => Jobs[t] = <<>> \/ Jobs[u] = <<>>

(* Types; a connection that holds a lock has a thread inside SQLite or a   *)
(* statement that is active, a lock for writing one that writes.  No       *)
(* statement is bound that has not been reset since its last use.          *)
TypeOK ==
    /\ DOMAIN rows \subseteq Tables
    /\ db \in [Processes -> {"closed", "opening", "open"}]
    /\ \A p \in Processes :
          LET active == {s \in DOMAIN stmt[p] : stmt[p][s].at \in {"row", "pending"}}
          IN  /\ Cardinality(Inside(p)) <= 1
              /\ lock[p] = "exclusive" => Inside(p) # {}
              /\ lock[p] = "reserved" => Inside(p) # {} \/ \E s \in active : s[2] = "add"
              /\ lock[p] = "shared" => active # {}
              /\ lock[p] \in {"none", "shared"} <=> dirty[p] = <<>>
    /\ \A t \in Threads : Len(objects[t]) <= Len(Jobs[t])
    /\ stops \in 0 .. program.stops
    /\ SingleThreaded => \A t \in Threads : thr[t].cause # "misuse"

(* Every row holds what was computed for its key: parameters tuned for it, *)
(* or the binary of the program.  (Two threads of a process would use the  *)
(* same statements and mix up keys and values.)                            *)
RowsValid == SingleThreaded =>
    /\ "params" \in DOMAIN rows => \A k \in DOMAIN rows["params"] : rows["params"][k][1] = k
    /\ "kernel" \in DOMAIN rows => \A x \in DOMAIN rows["kernel"] : rows["kernel"][x] = x

ForEach(P(_)) == \A t \in Threads : \A i \in DOMAIN objects[t] : P(objects[t][i])

(* An object that was constructed has parameters tuned for its own key and *)
(* the program of its own problem and parameters, whether they were tuned  *)
(* or found, by whichever process, in whatever order.                      *)
ObjectsMatch == SingleThreaded =>
    ForEach(LAMBDA o : o.error = None =>
        o.params[1] = makeKey[o.problem] /\ o.program = <<o.problem, o.params>>)

(* What a constructor that succeeded has used is in the file from then on, *)
(* also when processes are killed and when writes meet readers, except in  *)
(* a process of which an add has been refused the lock for writing.        *)
Cached == SingleThreaded =>
    \A t \in Threads : Of[t] \notin refused =>
        \A i \in DOMAIN objects[t] :
            LET o == objects[t][i]
            IN  o.error = None => /\ makeKey[o.problem] \in DOMAIN rows["params"]
                                  /\ o.program \in DOMAIN rows["kernel"]

(* Table::add inserts a record: when it returns, the file has it.          *)
AddInserts ==
    \A t \in Threads :
        Active(t) /\ thr[t].phase \in {"save", "add"} /\ thr[t].at = "ok" =>
            Call(t).key \in DOMAIN rows[Call(t).table]

(* Every constructor returns or throws.                                    *)
ConstructorsEnd == \A t \in Threads : <>(~Active(t))

=============================================================================
