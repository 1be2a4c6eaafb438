---------------------------- MODULE StageRegister ----------------------------
(***************************************************************************)
(* What the durable store of message 2 promises about its stages.  Every   *)
(* stage has one register.  A value may replace another only while the     *)
(* stage is unfinished, and only by exchanging inputs that were unfinished *)
(* themselves; a finished value stands for ever and was made of finished   *)
(* values.  A barrier is committed once, to the finished value of its      *)
(* stage.                                                                  *)
(***************************************************************************)
EXTENDS Integers

CONSTANTS
  Stages,   \* the stages
  NoValue   \* the register of a stage that nothing has been published for

VARIABLES
  register,  \* stage -> NoValue, or a record with `parents` and `complete`
  barrier    \* stage -> NoValue, or the value its barrier has committed

\* No input that was finished may change.
Refreshes(old, new) ==
  \A s \in DOMAIN old.parents :
    (old.parents[s] # NoValue /\ old.parents[s].complete) => new.parents[s] = old.parents[s]

FinishedOn(value) ==
  value.complete =>
    \A s \in DOMAIN value.parents :
      value.parents[s] = register[s] /\ register[s] # NoValue /\ register[s].complete

Publish(s) ==
  /\ register'[s] \notin {register[s], NoValue}
  /\ register' = [register EXCEPT ![s] = register'[s]]
  /\ register[s] # NoValue => ~register[s].complete /\ Refreshes(register[s], register'[s])
  /\ FinishedOn(register'[s])
  /\ UNCHANGED barrier

Commit(s) ==
  /\ barrier[s] = NoValue /\ register[s] # NoValue /\ register[s].complete
  /\ barrier' = [barrier EXCEPT ![s] = register[s]]
  /\ UNCHANGED register

Init == register = [s \in Stages |-> NoValue] /\ barrier = [s \in Stages |-> NoValue]
Next == \E s \in Stages : Publish(s) \/ Commit(s)
Spec == Init /\ [][Next]_<<register, barrier>>
=============================================================================
