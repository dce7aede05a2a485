---------------------------- MODULE MCFileLock ----------------------------
(***************************************************************************)
(* FileLock on a small set of runs of the program.                         *)
(***************************************************************************)
EXTENDS FileLock

\* The runs are interchangeable, no definition of FileLock names one: one
\* stands for all of them where a property speaks of one process at a time.
\* Both processes of an arbitrary run that are told to quit anywhere but in
\* the window before fcntl do end, whoever else holds, waits for or keeps the
\* lock busy.
SomeRun == CHOOSE i \in Inst : TRUE

QuitOutsideWindow ==
    /\ QuitsOutsideWindow(Parent(SomeRun))
    /\ QuitsOutsideWindow(Child(SomeRun))

=============================================================================
