---------------------------- MODULE CommandPipe ----------------------------
(***************************************************************************)
(* What the rest of an AI relies on when it asks its connection for the    *)
(* answer to a command: commands are answered in the order in which they   *)
(* were handed in, each with the answer the server gave to it, and nothing *)
(* that goes wrong with a socket changes that.  Only the server can, by a  *)
(* line that is no answer and looks like one; from there on the answers    *)
(* may be those of other commands, until the two sides are in step again.  *)
(* Module Connection is how Connection.py does it, and implements this.    *)
(***************************************************************************)
EXTENDS Integers, Sequences

CONSTANT Ids        \* the numbers that send_command hands out, from 1 on

VARIABLES
    asked,          \* the commands without an answer, oldest first
    given,          \* answers to be fetched: <<command, command whose answer it is>>
    inStep,         \* whether the lines on their way are the answers to asked
    strays          \* lines that look like an answer and are none, so far

pipe == <<asked, given, inStep, strays>>

PipeInit == asked = <<>> /\ given = {} /\ inStep = TRUE /\ strays = 0

Ask(id) ==
    /\ asked' = Append(asked, id)
    /\ UNCHANGED <<given, inStep, strays>>

Answer(id) ==
    /\ asked # <<>> /\ asked' = Tail(asked)
    /\ given' = given \cup {<<Head(asked), id>>}
    /\ inStep => id = Head(asked) /\ inStep'
    /\ UNCHANGED strays

Fetch(answer) ==
    /\ given' = given \ {answer}
    /\ UNCHANGED <<asked, inStep, strays>>

Stray == strays' = strays + 1 /\ inStep' = FALSE /\ UNCHANGED <<asked, given>>

Recover == ~inStep /\ inStep' = TRUE /\ UNCHANGED <<asked, given, strays>>

PipeNext ==
    \/ \E id \in Ids : Ask(id)
    \/ \E id \in Ids \cup {0} : Answer(id)
    \/ \E answer \in given : Fetch(answer)
    \/ Stray \/ Recover

PipeSpec == PipeInit /\ [][PipeNext]_pipe

=============================================================================
