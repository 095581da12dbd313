----------------------------- MODULE TaskQueue -----------------------------
(***************************************************************************)
(* What EventLoop.QueueInLoop promises its callers (eventloop.go, lines    *)
(* 117-150): a first-in first-out queue with any number of submitters and  *)
(* one executor.  Every task is executed at most once, in the order of     *)
(* submission, and while the loop runs every submitted task is executed.   *)
(* Once the loop has been told to stop, tasks may be left in the queue.    *)
(***************************************************************************)
EXTENDS Naturals, Sequences

VARIABLES
  open,       \* the loop runs and nobody has told it to stop
  submitted,  \* number of tasks submitted so far; task k is the k-th
  pending,    \* tasks submitted and not yet executed, oldest first
  executed    \* tasks executed, oldest first

tqVars == <<open, submitted, pending, executed>>

Init == open = FALSE /\ submitted = 0 /\ pending = <<>> /\ executed = <<>>

Open == ~open /\ open' = TRUE /\ UNCHANGED <<submitted, pending, executed>>

Halt == open /\ open' = FALSE /\ UNCHANGED <<submitted, pending, executed>>

Submit ==
  /\ submitted' = submitted + 1
  /\ pending' = Append(pending, submitted + 1)
  /\ UNCHANGED <<open, executed>>

Execute ==
  /\ pending # <<>>
  /\ executed' = Append(executed, Head(pending))
  /\ pending' = Tail(pending)
  /\ UNCHANGED <<open, submitted>>

Next == Open \/ Halt \/ Submit \/ Execute

SafetySpec == Init /\ [][Next]_tqVars

Spec == SafetySpec /\ WF_tqVars(open /\ Execute)

(* Executed and pending tasks together are exactly the submitted ones, in   *)
(* the order of submission: nothing is lost, repeated or reordered.         *)
InOrder == executed \o pending = [k \in 1 .. submitted |-> k]
=============================================================================
