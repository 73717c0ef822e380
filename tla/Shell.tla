---------------------------------- MODULE Shell ----------------------------------
(* ShellStreamHandler::run (src/stream/shell.rs): the child process, the two      *)
(* reader tasks that share one output budget, and the future that waits for the   *)
(* child, the time limit or a cancellation.  The child may leave a process behind *)
(* that keeps the pipes open.  Output is counted in bytes.                        *)
EXTENDS Integers

CONSTANTS Commands,   \* commands callers ask for: see ShellCommand
          Allowed,    \* allowed_programs
          MaxArgs,    \* max_arguments
          MaxOutput,  \* max_output_bytes
          MaxRead,    \* the most one read returns
          MaxWritten  \* bound on what is written to a pipe

Pipes == {"stdout", "stderr"}

\* cwd: none given, a directory under the root, one that leads out of it by its
\* spelling or by a link, or none at all.
ShellCommand == [program : STRING, args : Nat, bad_arg : BOOLEAN,
                 cwd : {"", "inside", "spelled_out", "linked_out", "missing"}]

ASSUME ShellAssumption ==
    /\ {MaxArgs, MaxOutput, MaxRead} \subseteq Nat \ {0}
    /\ Commands \subseteq ShellCommand
    /\ MaxWritten \in Nat

VARIABLES main,     \* where run is
          result,   \* what it returned
          child,    \* the child process
          heir,     \* pipes a process started by the child holds open
          wrote,    \* Pipes -> bytes written to the pipe
          taken,    \* Pipes -> bytes read from it
          reader,   \* Pipes -> the reader task
          total     \* the shared count of output bytes

shellVars == <<main, result, child, heir, wrote, taken, reader, total>>

\* amount bytes have been read and are to be reserved; current is the value of
\* total the task knows; output counts what it has collected.
Reader == [phase : {"read", "reserve", "done", "failed", "aborted"}, amount : 0..MaxRead,
           current : 0..MaxOutput, output : 0..MaxOutput]

NewReader == [phase |-> "read", amount |-> 0, current |-> 0, output |-> 0]

ShellInit ==
    /\ main = "idle" /\ result = "none" /\ child = "none" /\ heir = {}
    /\ wrote = [p \in Pipes |-> 0]
    /\ taken = [p \in Pipes |-> 0]
    /\ reader = [p \in Pipes |-> NewReader]
    /\ total = 0

---------------------------------------------------------------------------------
(* The policy                                                                    *)

\* ShellPolicy::validate.  An empty list of programs allows every program.
validate(command) ==
    /\ command.program # ""
    /\ Allowed # {} => command.program \in Allowed
    /\ command.args <= MaxArgs
    /\ ~command.bad_arg
    /\ command.cwd \in {"", "inside"}

---------------------------------------------------------------------------------
(* The child and what it starts                                                  *)

HeldOpen(p) == child = "running" \/ p \in heir

\* A process writes; a pipe whose reader has gone takes nothing more.
Writes(p) ==
    /\ HeldOpen(p) /\ reader[p].phase \in {"read", "reserve"}
    /\ wrote[p] < MaxWritten
    /\ wrote' = [wrote EXCEPT ![p] = @ + 1]
    /\ UNCHANGED <<main, result, child, heir, taken, reader, total>>

ChildExits ==
    /\ child = "running"
    /\ child' = "dead"
    /\ UNCHANGED <<main, result, heir, wrote, taken, reader, total>>

HeirExits ==
    /\ heir # {}
    /\ heir' = {}
    /\ UNCHANGED <<main, result, child, wrote, taken, reader, total>>

---------------------------------------------------------------------------------
(* read_limited and reserve_output                                               *)

Set(p, r) == reader' = [reader EXCEPT ![p] = r]

\* A read returns what is in the pipe, at most a buffer full; the task then loads
\* the shared count.
Reads(p) ==
    LET n == IF wrote[p] - taken[p] < MaxRead THEN wrote[p] - taken[p] ELSE MaxRead
    IN /\ reader[p].phase = "read" /\ main # "idle" /\ n > 0
       /\ taken' = [taken EXCEPT ![p] = @ + n]
       /\ Set(p, [reader[p] EXCEPT !.phase = "reserve", !.amount = n, !.current = total])
       /\ UNCHANGED <<main, result, child, heir, wrote, total>>

\* No writer is left and the pipe is empty.
EndOfFile(p) ==
    /\ reader[p].phase = "read" /\ main # "idle"
    /\ wrote[p] = taken[p] /\ ~HeldOpen(p)
    /\ Set(p, [reader[p] EXCEPT !.phase = "done"])
    /\ UNCHANGED <<main, result, child, heir, wrote, taken, total>>

\* Defect used as a mutant: the count is added to without comparing it again.
MutReserveAdds(p) ==
    LET r == reader[p]
    IN /\ r.phase = "reserve"
       /\ IF r.current + r.amount > MaxOutput
          THEN Set(p, [r EXCEPT !.phase = "failed"]) /\ UNCHANGED total
          ELSE /\ total' = total + r.amount
               /\ Set(p, [r EXCEPT !.phase = "read", !.output = @ + r.amount])
       /\ UNCHANGED <<main, result, child, heir, wrote, taken>>

\* One round of the loop: over the limit the task fails; compare_exchange_weak
\* succeeds if the count is as known, and may fail even then.
Reserves(p) ==
    LET r == reader[p]
    IN /\ r.phase = "reserve"
       /\ IF r.current + r.amount > MaxOutput
          THEN Set(p, [r EXCEPT !.phase = "failed"]) /\ UNCHANGED total
          ELSE \/ /\ total = r.current
                  /\ total' = r.current + r.amount
                  /\ Set(p, [r EXCEPT !.phase = "read", !.output = @ + r.amount])
               \/ Set(p, [r EXCEPT !.current = total]) /\ UNCHANGED total
       /\ UNCHANGED <<main, result, child, heir, wrote, taken>>

---------------------------------------------------------------------------------
(* run                                                                           *)

\* A command the policy refuses, or that cannot be started, ends at once.
Run(command, inherited) ==
    /\ main = "idle"
    /\ \/ /\ validate(command)
          /\ main' = "wait" /\ child' = "running" /\ heir' = inherited
          /\ UNCHANGED result
       \/ /\ main' = "ended" /\ result' = "refused"
          /\ UNCHANGED <<child, heir>>
    /\ UNCHANGED <<wrote, taken, reader, total>>

ChildWaited ==
    /\ main = "wait" /\ child = "dead"
    /\ main' = "stdout"
    /\ UNCHANGED <<result, child, heir, wrote, taken, reader, total>>

\* Defect used as a mutant: the time limit starts when the child has exited.
MutTimerLate ==
    /\ main = "wait" /\ child = "dead"
    /\ main' = "kill"
    /\ UNCHANGED <<result, child, heir, wrote, taken, reader, total>>

\* The time limit or the cancellation wins the select: the child is killed.
TimeoutOrCancel ==
    /\ main = "wait"
    /\ main' = "kill"
    /\ child' = "dead"
    /\ UNCHANGED <<result, heir, wrote, taken, reader, total>>

\* Both readers are aborted wherever they are.
Killed ==
    /\ main = "kill"
    /\ main' = "ended" /\ result' = "cut"
    /\ reader' = [p \in Pipes |-> IF reader[p].phase \in {"read", "reserve"}
                                  THEN [reader[p] EXCEPT !.phase = "aborted"] ELSE reader[p]]
    /\ UNCHANGED <<child, heir, wrote, taken, total>>

\* The readers are awaited one after the other; the first failure ends run and
\* leaves the other task to itself.
Collect(p, next, outcome) ==
    /\ main = p
    /\ \/ reader[p].phase = "done" /\ main' = next /\ result' = outcome
       \/ reader[p].phase = "failed" /\ main' = "ended" /\ result' = "limit"
    /\ UNCHANGED <<child, heir, wrote, taken, reader, total>>

MainStep ==
    \/ ChildWaited \/ Killed
    \/ Collect("stdout", "stderr", "none") \/ Collect("stderr", "ended", "ok")

ReaderStep(p) == Reads(p) \/ EndOfFile(p) \/ Reserves(p)

ShellNext ==
    \/ \E command \in Commands, inherited \in SUBSET Pipes : Run(command, inherited)
    \/ MainStep \/ TimeoutOrCancel
    \/ \E p \in Pipes : ReaderStep(p) \/ Writes(p)
    \/ ChildExits \/ HeirExits

\* The runtime polls the tasks and the timer of the select fires.  No process is
\* known to exit by itself, but the ones the child left behind are assumed to.  A
\* weak compare-and-exchange does not fail for ever.
ShellFairness ==
    /\ WF_shellVars(MainStep) /\ WF_shellVars(TimeoutOrCancel)
    /\ WF_shellVars(HeirExits)
    /\ \A p \in Pipes : WF_shellVars(ReaderStep(p))

ShellSpec == ShellInit /\ [][ShellNext]_shellVars /\ ShellFairness

---------------------------------------------------------------------------------
(* Properties                                                                    *)

\* The state keeps its types; a reader has taken no more than was written.
ShellTypeOK ==
    /\ main \in {"idle", "wait", "kill", "stdout", "stderr", "ended"}
    /\ result \in {"none", "refused", "cut", "limit", "ok"}
    /\ child \in {"none", "running", "dead"}
    /\ heir \subseteq Pipes
    /\ wrote \in [Pipes -> 0..MaxWritten]
    /\ taken \in [Pipes -> 0..MaxWritten] /\ \A p \in Pipes : taken[p] <= wrote[p]
    /\ reader \in [Pipes -> Reader]
    /\ total \in 0..MaxOutput

\* The two readers together never collect more than the policy allows and the
\* shared count is what they have collected, in every order of their loads and
\* exchanges.
OutputBounded ==
    /\ total = reader["stdout"].output + reader["stderr"].output
    /\ total <= MaxOutput

\* run comes back, if the processes the child left behind let go of its pipes, and
\* leaves no child running: one that never exits is ended by the time limit, also
\* when a reader has given up on it.
RunEnds == main # "idle" ~> (main = "ended" /\ child # "running")
=================================================================================
