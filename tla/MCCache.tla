------------------------------- MODULE MCCache -------------------------------
(***************************************************************************)
(* Small instances of Cache for TLC.                                       *)
(***************************************************************************)
EXTENDS Cache

\* int and uint share a key; the first candidate for float does not compile,
\* nor the second for char.
MCmakeKey == [int |-> "int", uint |-> "int", float |-> "float", char |-> "char"]
MCCandidates == [int |-> <<"a">>, float |-> <<"b", "c">>, char |-> <<"a", "b", "c">>]
MCCompilable == {<<"int", "a">>, <<"uint", "a">>, <<"float", "c">>, <<"char", "a">>, <<"char", "c">>}

job(problem) == [problem |-> problem, tunable |-> TRUE]
untuned(problem) == [problem |-> problem, tunable |-> FALSE]

\* Two processes with a thread each, one of which may be killed.
TwoProcesses ==
    [of |-> [t1 |-> "p1", t2 |-> "p1", t3 |-> "p2"],
     jobs |-> [t1 |-> <<job("int"), job("float")>>, t2 |-> <<>>, t3 |-> <<job("uint")>>],
     stops |-> 1]

\* A process with two threads, and another process that opens the file.
TwoThreads ==
    [TwoProcesses EXCEPT
        !.jobs = [t1 |-> <<untuned("int")>>, t2 |-> <<job("float")>>, t3 |-> <<untuned("float")>>],
        !.stops = 0]

\* A process that tunes with a choice, and one that only reads.
TuneAndRead ==
    [TwoProcesses EXCEPT
        !.jobs = [t1 |-> <<job("char")>>, t2 |-> <<>>, t3 |-> <<untuned("char")>>]]

MCPrograms == {TwoProcesses, TwoThreads, TuneAndRead}
MCTwoProcesses == {[TwoProcesses EXCEPT !.stops = 0]}

=============================================================================
