--------------------------- MODULE SerialCommands ---------------------------
(***************************************************************************)
(* What the command executor promises to a client, without threads, locks, *)
(* flags or handler lists: the commands of one client are executed one at  *)
(* a time and in the order in which they entered its queue; a command      *)
(* leaves the queue only by starting to execute or by the queue being      *)
(* flushed as a whole.                                                     *)
(***************************************************************************)
EXTENDS Naturals, Sequences

CONSTANTS Handlers,     \* one ServerCommandHandler per client
          NoCommand     \* nothing is being executed

VARIABLES pending,      \* [Handlers -> sequence of accepted commands]
          running,      \* [Handlers -> command in execution, or NoCommand]
          accepted      \* [Handlers -> how many commands were accepted]

vars == <<pending, running, accepted>>

Init == /\ pending = [h \in Handlers |-> <<>>]
        /\ running = [h \in Handlers |-> NoCommand]
        /\ accepted = [h \in Handlers |-> 0]

\* The next command of client h is accepted: commands are numbered from 1.
Accept(h) == /\ accepted' = [accepted EXCEPT ![h] = @ + 1]
             /\ pending' = [pending EXCEPT ![h] = Append(@, accepted[h] + 1)]
             /\ UNCHANGED running

\* The oldest pending command of a client that executes nothing is started.
Start(h) == /\ running[h] = NoCommand
            /\ pending[h] # <<>>
            /\ running' = [running EXCEPT ![h] = Head(pending[h])]
            /\ pending' = [pending EXCEPT ![h] = Tail(@)]
            /\ UNCHANGED accepted

Complete(h) == /\ running[h] # NoCommand
               /\ running' = [running EXCEPT ![h] = NoCommand]
               /\ UNCHANGED <<pending, accepted>>

\* All pending commands are dropped together.
Flush(h) == /\ pending' = [pending EXCEPT ![h] = <<>>]
            /\ UNCHANGED <<running, accepted>>

\* A command that finds its client disconnecting drops the rest with itself.
Abort(h) == /\ running[h] # NoCommand
            /\ running' = [running EXCEPT ![h] = NoCommand]
            /\ pending' = [pending EXCEPT ![h] = <<>>]
            /\ UNCHANGED accepted

Next == \E h \in Handlers : \/ Accept(h)
                            \/ Start(h)
                            \/ Complete(h)
                            \/ Flush(h)
                            \/ Abort(h)

Spec == Init /\ [][Next]_vars
=============================================================================
