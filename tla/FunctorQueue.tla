---------------------------- MODULE FunctorQueue ----------------------------
(* What runInLoop and queueInLoop of EventLoop promise: the callbacks handed   *)
(* over run in the loop one after the other, each once, in the order given.    *)
EXTENDS Sequences

CONSTANT Functors

VARIABLES waiting, executed

qvars == <<waiting, executed>>

QInit == waiting = <<>> /\ executed = <<>>

Submit(f) ==
  /\ waiting' = Append(waiting, f)
  /\ UNCHANGED executed

Run ==
  /\ waiting # <<>>
  /\ executed' = Append(executed, Head(waiting))
  /\ waiting' = Tail(waiting)

QNext == Run \/ \E f \in Functors : Submit(f)

QSpec == QInit /\ [][QNext]_qvars
=============================================================================
