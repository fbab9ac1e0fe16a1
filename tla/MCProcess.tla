----------------------------- MODULE MCProcess ------------------------------
EXTENDS Process

\* A static program with a few bytes of thread-local data, one with more, one
\* with an interpreter, the interpreter, and one whose interpreter is not there.
MCPrograms ==
    [static |-> [interp |-> NO_INTERP, tdata |-> 3, tbss |-> 4, align |-> 4],
     threaded |-> [interp |-> NO_INTERP, tdata |-> 0, tbss |-> 8, align |-> 8],
     dynamic |-> [interp |-> "ld", tdata |-> 2, tbss |-> 0, align |-> 1],
     ld |-> [interp |-> NO_INTERP, tdata |-> 0, tbss |-> 0, align |-> 0],
     orphan |-> [interp |-> "gone", tdata |-> 0, tbss |-> 0, align |-> 0]]

MCNames == {"static", "threaded", "dynamic", "orphan", "missing"}

MCArguments == {[args |-> <<>>, env |-> <<7>>],
                [args |-> <<5, 1>>, env |-> <<15>>]}
=============================================================================
