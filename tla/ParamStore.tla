----------------------------- MODULE ParamStore -----------------------------
(***************************************************************************)
(* What the firmware's parameter store promises: parameters that were      *)
(* stored are the parameters of the device after any later reset, until    *)
(* they are stored again or cleared.  While a store is under way, nothing  *)
(* is promised about a reset.                                              *)
(***************************************************************************)
CONSTANTS Values,   \* everything a boot may find
          Default   \* the parameters of a device that never stored any

VARIABLES live,   \* the parameters in use
          kept,   \* the parameters a reset would bring back
          busy    \* a store is under way

vars == <<live, kept, busy>>

Init == live = Default /\ kept = Default /\ busy = FALSE

Change == ~busy /\ live' \in Values /\ UNCHANGED <<kept, busy>>

Begin == ~busy /\ busy' = TRUE /\ UNCHANGED <<live, kept>>

Waver == busy /\ kept' \in Values /\ UNCHANGED <<live, busy>>

\* The parameters in use are kept, by this step or by an earlier one.
Finish == busy /\ kept' = live /\ busy' = FALSE /\ UNCHANGED live

Clear == ~busy /\ kept' = Default /\ UNCHANGED <<live, busy>>

\* A reset brings back what was kept; it may interrupt a store, also in the
\* middle of its last write.
Reset == /\ live' = kept'
         /\ kept' # kept => busy /\ kept' \in Values
         /\ busy' = FALSE

Next == Change \/ Begin \/ Waver \/ Finish \/ Clear \/ Reset

Spec == Init /\ [][Next]_vars
=============================================================================
