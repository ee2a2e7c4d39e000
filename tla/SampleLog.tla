------------------------------ MODULE SampleLog ------------------------------
(***************************************************************************)
(* What the sample store of a stream promises its readers, whatever it is  *)
(* made of: samples are numbered in the order they come; a number can be   *)
(* read from the moment its sample was stored until it leaves a window of  *)
(* the last samples, and as long as it can be read it reads the same.      *)
(* SampleBuffer implements it with a buffer, a counter and a modulus.      *)
(***************************************************************************)
EXTENDS Integers

CONSTANT Values   \* sample values

VARIABLES
  size,     \* how many samples the store was made for
  counted,  \* samples of this run so far
  kept      \* the samples that can be read: a function of their numbers

logVars == <<size, counted, kept>>

\* The numbers that are not too old after m samples.  Once samples had to go,
\* one less than size is left.
WindowOf(m) == {i \in 0..(m - 1) : m <= size \/ i > m - size}

Init ==
  /\ size \in Nat
  /\ counted = 0
  /\ kept = [i \in {} |-> 0]

\* The next sample comes: what is too old is forgotten, the rest stays as it
\* is.  A full store may turn the new sample away, but it still counts.
SampleComes(v) ==
  \E stored \in {{}, {counted}} :
    /\ stored = {} => counted >= size
    /\ counted' = counted + 1
    /\ kept' = [i \in ((DOMAIN kept \cup stored) \cap WindowOf(counted + 1)) |->
                  IF i = counted THEN v ELSE kept[i]]
    /\ UNCHANGED size

\* A new run begins, with a store of any size.
Restart ==
  /\ size' \in Nat
  /\ counted' = 0
  /\ kept' = [i \in {} |-> 0]

Next ==
  \/ \E v \in Values : SampleComes(v)
  \/ Restart

Spec == Init /\ [][Next]_logVars
=============================================================================
